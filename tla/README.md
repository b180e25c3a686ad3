# OpenLEAudio in TLA+

TLA+ models of the Rust core of OpenLEAudio (`dev/core/src`), the TLC runs that
check them, and TLAPS proofs of what matters most. Source references below are
to files of `src/dev/core/src` unless they say otherwise.

OpenLEAudio is a Bluetooth LE Audio stack in user space: a Windows process
(the *agent*) drives one USB Bluetooth adapter through WinUSB, connects a pair
of earphones, sets up one isochronous channel (CIS) per ear and plays what a
virtual sound cable delivers. A desktop application talks to the agent over
standard input and output, one JSON object per line.

1. [Inventory](#inventory)
2. [Modules and the code they model](#modules-and-the-code-they-model)
3. [Runs](#runs)
4. [Where the code differs from what it says](#where-the-code-differs-from-what-it-says)
5. [Fairness and deadlock](#fairness-and-deadlock)
6. [Proofs](#proofs)
7. [Left for later](#left-for-later)
8. [Not modelled](#not-modelled)
9. [Running it](#running-it)

## Inventory

What each part keeps, does, talks to and must get right.

| Part | State | Operations | Interacts with | What is hard | What makes it correct | Modelled in |
|---|---|---|---|---|---|---|
| Isochronous credits, `iso_flow.rs` | free buffers, packets outstanding per handle | `reserve_frame`, `complete` | playback loop | reports that are stale, repeated or too large; refusal halfway through a frame | buffers are conserved and the account is the controller's own | IsoCredits |
| Playback loop, `session.rs` `run_audio`, `stream.rs` | credits, sequence numbers, deadline, last delivery, disconnects seen | drain, encode, reserve, send per ear, pace; ten ways to return | pump (events), controller (packets), capture, agent (`should_stop`) | a loss at any moment, in any queue; a late host; a dying reader; 16-bit wrap; rebuild on the same handles | both ears on one timeline; no catch-up burst; the loop ends when there is nothing to play to | IsoStream |
| Isochronous group, `session.rs` `prepare_isochronous`, `establish_prepared`, `release_isochronous` | handles of the group, which are down | create, establish, release with a bounded wait, remove, rebuild | controller, endpoints, playback loop | Remove CIG refused while a channel exists; channels that come late or in the other order | nothing left open that nobody knows; each ear its own channel | IsoStream (teardown), Endpoints |
| Audio stream endpoints, `bap.rs`, `session.rs`, `bin/agent.rs` `play_on` | ASE states as read, `configured_ases`, `ascs_opcode` | Config Codec, Config QoS, Enable, Receiver Start Ready, Release; recovery | headset, link, group | an endpoint that moves by itself; a rejection that arrives late; an attempt that fails halfway | operations fit the endpoint's state; nothing left configured | Endpoints |
| Stream planning, `google.rs`, `negotiation.rs`, `preflight.rs`, `stream.rs` | known capabilities and limits per device | parse records, choose, plan, negotiate, preflight | endpoints, settings | limits of two endpoints at once; what was read short; what is remembered of another plan | what is asked was published and is permitted | Planning |
| Command flow control, `transport.rs` `CommandFlow` | credits, pending commands, background queue | `send_command`, `queue_command`, `read_event`, `flush_commands` | worker, reader thread, adapter | three threads spend one credit count; acknowledgements are matched by opcode | never a command too many; every acknowledgement to its owner; queued commands are sent | CommandFlow |
| Controller layer, `controller.rs` | queued events, bulk filter | `command`, `wait_for_event`, `connect_until`, `scan_until` | transport, session | late answers after a timeout; Create Connection racing its Cancel | a call returns its own answer; no link nobody owns | CommandFlow, Connecting, IsoStream |
| USB transport, `transport.rs`, `winusb.rs` | one handle with several users, pending transfers | open, read, abort, close | Windows, pump | an abort that misses a read; a handle kept by somebody | opened only when nobody of ours holds it | Adapter |
| Event pump, `link.rs` `HciPump` | two reader threads, two channels, events handed back | receive, inspect and put back, discard, stop | transport, link, session, playback | no order between the two pipes; an event taken by the wrong reader; one thread dying | no event lost or reordered; waiting ends when a thread dies | HciPump, GattLink, Adapter |
| ATT and GATT client, L2CAP, `link.rs`, `att.rs`, `l2cap.rs` | the outstanding request, MTU, caches, subscriptions, notifications put aside | request, long read, discover, write, subscribe, answer the peer | pump, session | no transaction numbers; PDUs of both sides interleaved; fragments of other links | a response answers its request; values are whole | AttBearer, GattLink |
| Pairing, encryption, bonds, `smp.rs`, `bonding.rs`, `persistence.rs` | step of the exchange, keys, bond in memory and in its file | pair, resume encryption, save, forget | link, agent | a key on one side only; a crash in the middle of a save | a key is used only if agreed; no bond is lost | Pairing |
| Agent, `bin/agent.rs` | `playing`, `interrupt`, `cancel_epoch`, command channel, held device | read a command; connect, play, recover, wait for sound, disconnect, forget, scan, adapter on and off, exit | application, session | two threads and three flags with no lock; stale commands and flags; a dozen error paths after the link is up | an interrupt is honoured and never a stale one; no link is left behind | AgentControl |
| Reconnection, `bin/agent.rs` `connect`, `target_device` | attempt, policy, what the application was told | search, attempt, retry, give up | controller, settings, application | counters, policy and bond together decide; a link that comes up while it is being given up | an announcement is kept or taken back | Connecting |
| Media control, `media.rs` | pending player command, accepted commands, notifications, link state | ATT requests, results, snapshots, `reset_link` | headset, worker, application | an answer racing the 3 s timeout or the end of the link | success only when confirmed; one result each; nothing outlives its link | MediaControl |
| HCI safety filter, `safety.rs` | approved handles, subscriptions | permit a packet | every sender | slots running out | bounded; what is sent is in range | GattLink, Planning (in part) |
| Volume, `vcs.rs`; packets, `hci.rs`; audio devices, `audio.rs`; LC3, `lc3.rs`; tracing; tools; application | - | - | - | - | - | see [Not modelled](#not-modelled) |

The parts meet as follows. The application writes commands to the agent's
reading thread, which raises flags and queues for the worker (AgentControl). The
worker connects (Connecting) through an open adapter (Adapter), agrees on a key
(Pairing), reads capabilities over the link (GattLink on HciPump), plans
(Planning), configures the endpoints and opens the channels (Endpoints), and
runs the playback loop (IsoStream on IsoCredits) while it serves the headset's
media commands (MediaControl). Everything that is sent to the controller goes
through CommandFlow.

The hazards this code is exposed to, each at its line and with the property that
would catch it going wrong, are in `PROJECT.json` under `hazards`.

## Modules and the code they model

`PROJECT.json` maps every definition to its lines. Bodies that differ from the
code in one plausible way stand before the definition they vary, marked
*Mutant*: they show that the properties can fail.

Composition is by EXTENDS where one part calls another inside its own steps
(IsoStream on IsoCredits, GattLink on HciPump), and by an instance with a
refinement mapping where a part keeps a promise (GattLink implements AttBearer).
Elsewhere a neighbour appears as its outcomes: Connecting's `SetUp` may fail at
any point, as Pairing, GattLink and Endpoints say it may.

### IsoCredits

`struct IsoCredits`. `ReserveFrame(frame, taken)` and `Complete(handle, count)`
are its two methods. A caller may pass any frame of up to one channel too many,
repeated channels and handles the structure does not know; a controller may
report any count on any handle. The `Depth` of 4 packets per channel is a
constant. `buffer_limits` parses a response and keeps no state; it is left out.

### IsoStream

EXTENDS IsoCredits: the loop calls both methods inside its own steps.

* `pc` is the place in `run_audio`: `setup` (the commands before the loop),
  `top`, `drain`, `frame`, `send`, `pace`, `sleep`, one value for each way of
  returning, and `releasing` for the caller's teardown and rebuild.
* Time is `lag` (now minus `next_deadline`), `age` (`last_delivery.elapsed()`)
  and `span` (`stereo_started.elapsed()`), in units of which `Interval` make an
  SDU interval; `Tick` passes only where the code can be late.
* Events are in two places, as in the code: `events`, what the pump has, and
  `queued`, what `Controller::command` moved to `queued_events` while it waited
  for its own answer. `IsBulk` events are discarded by such a wait and are not.
* The controller holds up to what it was given (`held`), sends and reports any
  part of it, and may lose a channel or the link at any time and in any order; a
  lost channel's packets are flushed and never reported.
* `playback` is `plan.playback_enabled`. A plan without it is a microphone
  alone, whose round ends at `MicrophoneOnly`.

What is encoded, resampling, the silence screen and the microphone decoder are
data. The decisions to yield to another host and to sleep when idle depend on
ambient input and are one possible return (`FrameLeaves`). Creating the
channels of a group is one step (`Rebuild`); Endpoints has its parts.

### CommandFlow

`CommandFlow` and the four operations of `UsbTransport` that use it, each of
which holds the lock: `Send` (`send_command`; waiting for a credit, failing and
giving up are `NoCredit`, `SendFails`), `QueueCommand` and `QueueFull`,
`ReadEvent` (`read_event` with `acknowledge` and `flush_commands`). Around it,
`Issue`, `Receive` and `GiveUp` are the waiting caller `Controller::command`, and
`Answer` and `ReportCredit` an adapter that executes commands in order and
reports its free slots, or none for now. `abandoned` and `accepted` are history.
The queue of 16 background commands is `QueueLimit`.

### Adapter

Who holds the USB interface. `at` is where each reader thread is: looking at the
flags, about to submit a read, blocked in it, ended. `Reads` includes the turn
inside `read_event` that consumes the answer to a background command and reads
again without looking at the flags. `Stop` is `HciPump::stop`: the flags, the
abort of one pipe after the other, the joins. A transfer that fails is counted
up to `GiveUpAfter` (200 in the code); a device that is gone ends the thread at
once. `link` is the share of the interface a `Link` has: it is dropped before
or with the controller, except that the agent keeps one while nothing plays.
Its definitions carry the module's name (`AdapterInit`, `AdapterNext`, ...), since
its proofs stand with CommandFlow's.
Sending, the isochronous ring and what is read are left out.

### HciPump, GattLink and AttBearer

HciPump has the receiving side: two channels without a common order, and the
events that one layer looked at and handed back. `Inspect` is what
`recv_acl_watching_link` does between two packets.

GattLink is `struct Link` on it. A caller runs a script of operations
(pairing, capabilities, play); each is requests and waits: `Begin` sends,
`Watch` looks for the loss of the link, `Take` takes a packet, `TimesOut` is the
deadline. The peer answers in its own time or not at all, in fragments between
those of other connections. A value's length is counted in the units by which the
MTU grows; a response is its kind, the request it belongs to and its size.

What the peer sends unasked (`PeerSpeaks`) is of two kinds. An MTU exchange, an
indication or a GATT request (`Asked`) is answered over ATT on every read path
(`Reply`); where that answer cannot be sent, the operation that was waiting for
its own fails with it (`ReplyFails`, the `?` at link.rs:549 and 702). The one path
that passes over such a failure is `collect_notifications` (link.rs:907), which is
not in the scripts. Everything else (`note`) leaves the link as it is:
notifications, a crossing Security Request, and signalling. Of signalling only
the Connection Parameter Update Request is answered at all (l2cap.rs, test
`other_signalling_is_left_alone`), and a failure to send that answer is passed
over; no property promises the peer an answer.

`Reconnect` is another connection on the same handle, after `connect_until` has
drained the pump. Drain and connection are one step: the model assumes that no
packet of the old connection comes between the two, which the code assumes too,
since nothing tells such a packet from one of the new connection. With
`SubSlots` = 2 in the run, a caller subscribes for contexts and volume and is
refused the endpoints' responses, or does without one of the former
(`NotOffered`) and goes on to the write.

AttBearer says what such a bearer promises: one request out, an answer belongs
to the request that is out, and after a request was abandoned the bearer is
dead until the next connection. In the mapping, `att_unavailable` outside a
request is a dead bearer, within one a busy one.

### Pairing

The exchange of Secure Connections with Just Works as the steps a PDU is waited
for, each of which the peer may answer as it should or with the one flaw that
the step is there to detect (`Flaws`); encryption with a saved key, whose
refusal (5 or 6) permits a new pairing and whose other failures do not; the
bond in memory, the temporary file and the file; a crash at any step. A file that
is damaged or cannot be read this time counts as empty (`Loaded`,
bonding.rs:177), and the next save replaces it. The peer takes up a new key when
it is encrypted with, and may forget it. One device and its bond are modelled.

### Endpoints

Three parties move. The agent goes through `play` and `play_on`: release what
was found configured, configure codec and QoS, prepare the group, enable, create
the channels, wait for them, tell the microphone's endpoint it may send, play,
hand back, tear down, decide whether to try again. The headset's endpoints
follow the state machine of ASCS, answer writes with notifications on the
control point, accepting or rejecting, and now and then move by themselves
(`AseSlips`). The controller opens and closes channels and says so in events.
Both directions of one ear share a channel. Which values are configured is
Planning; `fits` says whether an endpoint has the ones that were asked.

Each wait ends by what it waits for or by its deadline (`Deadlines`, `OutOfTime`):
the read-backs of `wait_for_ase`, the 900 ms of polls in `release_streams`, the 3 s
for the end of a channel, the 8 s for the channels to come up. A headset or a
controller may fall silent in a wait (`FallsSilent`) and then never moves again,
so that nothing but the deadline ends that wait and the later ones.

`release_cis` is in three steps, as in the code: `TearDown` asks for the end of
every known channel (the controller may refuse), `ChannelEnds` takes what comes
for those in `pending`, and `TornDown` is reached with or without all of them.
What stays unread in `events` is there for the next wait. `late` is history: a
teardown gave up on an end that was still to come, or that a silent controller
never reported. A lost link ends its channels
in any order.

### Connecting

`connect` from the command to its end: rounds, attempts, the immediate retry,
the pause, the policy read from its file in every round, and what the
application was told. Below it the search for a private address (start and stop
a scan) and `connect_until`: Create Connection, its three ways to end, Cancel,
the wait for whichever comes, and the disconnection of a link that came after
all. A device without a bond must be among the results of a scan, or the
command ends; only a bond with an identity is searched for (`BeginAttempt`). The
controller answers in events that may come after the wait for them gave up
(`late`), and a Disconnect may go unanswered, taken or not (`Drop`, `HangUp`).
Times are choices.

### Planning

`Records` parses a PAC value and stops at a record that is cut; `Chosen` and the
lists of `Candidate` are google.rs; `PlanOf` is preflight.rs with the presets;
`Agreed` is the negotiation with the answers of the endpoints; `Preflight` is the
agent's check against `known_devices`. Actions are one connect after another
with whatever settings were saved in between.

`limits` is the set of limits a headset has stated, one for each stream, with the
place in the code's vector as the time of the question; when `MaxLimits` of
other streams are known, the oldest goes (`RememberLimits`). A headset answers
alike throughout a connection and may change its answers between two
(`ChangesItsMind`, one of its `moods`): other firmware, another mode. `asked` is an
observation of every usable answer and when it was given; answers that are
refused (framed, or no delay in common) leave what was remembered before. 0, and
of a preferred delay 0xFFFFFF, say nothing (`NoPreference`). Records, answers and
settings are any the assumption admits: numbers as they are parsed, endpoints
with ids of their own. Definitions that another module has too carry a `Plan`
(`PlanInit`, `PlanNext`, `PlanSpec`).

### AgentControl

Two threads, each with a program counter: `rpc` for `main`, which reads standard
input, and `wpc` for `run_worker`. They share `playing`, `interrupt`, `epoch`
(`cancel_epoch`) and `queue`. What the reader does for a command is one step per
shared variable, in the order of the code (`LowerPlaying`, `RaiseInterrupt`,
`RaiseEpoch`, `Enqueue`), since that order and the gaps are what the properties
are about; likewise `ClearInterrupt` and `LoadEpoch` at the start of `connect`.

The worker's steps follow `connect` (`LoopEnds`, `LoopContinues`, `TargetFound`,
`WindowOpens`, `LinkUp`, `SetupFails`, `Hold`), `play` and `play_on`
(`StartAudio` to `AfterPlay`, recovery, waiting for sound), and the other
commands. `acl` is what the controller has: a link that was asked to disconnect
is `closing` until it is down. A radio may lose a link at any step (`AclLost`).

Attempts are counted to 2, since nothing distinguishes the third from a later
one; times (the reconnect limit, windows) are choices. Commands that change
neither the flags nor the connection (settings, battery, status) are left out.

### MediaControl

`struct Server` behind its mutex: every step is one hold of the lock. `Accept`,
`Refuse` and `Subscribe` are ATT requests, each followed by `notifications` in
the same hold as in `serve`; `Poll` is `serve` without a request. Who serves is
`serving`: the playback loop or a wait (`loop`), an ATT procedure that serves what
the headset writes in between (`procedure`), or nobody, while the agent waits for
a command with the link held or prepares a stream (`elsewhere`); the worker goes
from one to another as it likes (`Turn`). `Answer`
(`finish`) and `Update` (`update`, `enable`) come from the application,
`TakeCommands` and `EmitCommand` are the thread that hands it commands, `ResetLink`
and `Authorize` come with a connection. `GrowOld` is the three seconds.
`told`, `confirmed`, `link`, `madeOn` and the link in each entry are history.

The application answers a command once or never (`given`); a notification counts
as told when it is handed to the transport. `Position` stands for a write of the
track position, which is queued like a command and gets no result, as does
opcode 0. Discovery, reads and the contents of values are left out.

## Runs

`MC<Module>.tla` extends the module; the `.cfg` gives the constants.

| Run | Bounds | Properties |
|---|---|---|
| `iso_stream` | 2 ears, 3 buffers, depth 2, both kinds of plan, interval 2, pause and stall 3, numbers modulo 2, 2 unread events, 1 rebuild; fair | `Conservation` and `ExactAccounting` through a teardown and a rebuild on the same handles; `EarsInStep` through drops, skipped intervals and the wrap; `NoCatchUpBurst`; `FramesFlow`; `LossEndsLoop` with the ends of channels and link in any order |
| `command_flow` | 2 opcodes, 1 slot, queue of 2, 4 commands; fair | `NoOverrun`, `RightOwner`, `OwnAnswerUnlessAbandoned`, `BackgroundServed` |
| `agent_control` | 2 devices, all commands, 2 of them | `HeldIsBonded`, `PlayingMeansAudio`, `NoSpuriousStop`, `GhostOnlyByReplacement` |
| `agent_served` | 1 device, 2 commands; fair | `InterruptHonoured`, `EofEndsProcess` |
| `agent_disconnect` | 1 device, 2 commands; fair | violated, see below |
| `media_control` | 1 opcode and positions, 2 commands, 2 resets, queue of 3; fair | `SuccessIsConfirmed`, `OneResult`, `NothingCrossesLinks`, `CommandAnswered` |
| `gatt_link` | 2 connections, 1 frame or failure nobody asked for, 2 events, values of up to 3 units, discoveries of 2 responses, 2 subscription slots; fair | `NewsKept`, `DataWhole`, `KeepsBearer` (refinement), `CallEnds` |
| `pairing` | 4 keys, 6 things that go wrong; fair | `TrustEarned`, `BondSurvives`, `Recovers` |
| `endpoints` | 2 endpoints, as two ears or an ear and its microphone, 2 things that go wrong beside a silent headset or controller, 3 attempts; fair | `OperationsFit`, `EarsConfirmed`, `NothingLeft`, `AttemptEnds` |
| `connecting` | bonded or not, favourite or not, 4 things that go wrong; fair | `NothingOrphaned`, `AnnouncedEnds`, `OffMeansOff`, `ComesBack` |
| `adapter` | give up after 2 failures, 4 things that go wrong, 2 background commands; fair | `OpensFree`, `ThreadsEnd` |
| `planning` | 33 headsets, some of which change their answers, 44 sets of settings, 2 limits, 3 connects | `StreamFits`, `PreflightQuotes` |

Why the bounds suffice. Nothing in the code distinguishes more than two ears; a
capacity between one and two times the depth reaches both refusals. Two sequence
numbers wrap and tell the ear that is one ahead. An interval of two units gives
a host that is early, on time, late within an interval and late by more, and
`MaxLag` exceeds the pause at which the code gives up. One rebuild is enough
for a report of the old group to meet the new one. Four commands let an
abandoned call, its late answer, a new call with its opcode and a background
command meet. Two commands in the agent are a connect and whatever is accepted
during it, which with the standing choice to close standard input gives every
pair of cancellations; the proofs take the number of commands, the number of
devices and the media bounds away altogether. Two connections let the leftovers
of one meet the other; three units make a value that needs two continuations at
the small MTU and an exact fit. Six troubles let a crash, a lost link and a
forgotten key follow each other in one pairing; three attempts are what `play`
counts (`failed_rebuilds`). Attempts of `connect` behave alike from the third
on. The headsets of `planning` are chosen for what divides them: records for
one ear or two, in one record or several, none; endpoints whose delays overlap,
do not, or overlap only outside what both prefer; answers that change with the
radio, with the connection, or not at all. Three connects and two limits make
room for a stream that is asked for, changed and asked for again, and for one
limit too many.

Of the flow accounting the run has reports that are late or of the old group;
exaggerated and repeated ones are left to the theorem `CreditsConserved`, for which
they cost nothing.

Bounds in guards: `MaxLag`, `MaxEvents`, `MaxRebuilds` (IsoStream),
`MaxCommands` (CommandFlow, AgentControl), `MaxSerial`, `MaxLinks`
(MediaControl), `MaxTrouble` (Adapter, Connecting, Endpoints, Pairing),
`MaxRounds` (Endpoints, Planning), `MaxLimits` (Planning; 64 in the code),
`MaxBackground` (Adapter), `MaxExtras`,
`MaxEvents`, `MaxConns` (GattLink), `MaxKey` (Pairing).

Every property has a mutant in `PROJECT.json`: one definition replaced by a
plausible bug, with which the property is violated.

What a property leaves out is what the code does not give: `NothingOrphaned` and
`ComesBack` except an answer that came after its wait (`late`); `OpensFree` the
link the agent keeps; `DataWhole` a value read while the peer changed the MTU;
`Recovers` two different keys; `PreflightQuotes` limits that other endpoints of the
headset stated or that it has changed since it was asked; `CommandAnswered` a
command accepted while no loop serves the headset; `NothingLeft` a teardown that
gave up on an end still to come;
`StreamFits` a mono stream, which may have been accepted for two ears. Each of
these is described in the next section.

## Where the code differs from what it says

One run checks what a comment promises and finds a behaviour that breaks it.

* `agent_disconnect`, `DisconnectServed`. `connect` clears `interrupt` and then
  loads the epoch; a Disconnect accepted just before loses both its signals and
  waits in the queue for as long as the connection lasts.

Others were met while modelling. No run is spent on them; the properties above
are stated so that they hold beside them.

* *Playback.* The loop looks for the end of its link only among the events of
  the pump. A loss that arrives while the commands before the loop wait is moved
  to `queued_events` and not seen: with playback the controller's silence ends
  the loop, a microphone-only stream leaves the round before that check and runs
  on (session.rs:2105, against the comment at 1991).
* *Commands.* After a timeout, a second call with the same opcode takes the late
  answer of the first (controller.rs:235, against 209).
* *Media control.* The three seconds after which a command is given a failure are
  looked at by `serve` only. While the agent holds the link and waits for a
  command, or sets up a stream, nobody serves it, and a command accepted before
  waits for its result as long as that lasts (media.rs:403).
* *Agent.* Every `forget` raises `interrupt`, so unpairing another device stops
  the one that plays (bin/agent.rs:2193, against 77-78). Connecting a second
  device overwrites the only record of the first one's handle, whose link is up
  when the process exits (2278, against 499-500). The application's Connect
  button does not first disconnect the device that is held.
* *Retries.* The immediate retry promised to the very first attempt (1170) does
  not happen for a device without a bond, since the loop ends at 1067. An error
  of `target_device` (1130) ends an automatic reconnection without a retry. A
  device that was confirmed once and is no favourite is not reconnected.
* *Reconnection.* A completion or closure that comes after `connect_until` has
  stopped waiting leaves a link nobody owns. A scan whose stop command went
  unanswered makes every later scan fail until the adapter is opened again.
* *Adapter.* If the reader dies while the agent keeps an idle link, that link
  still holds the interface, so that `ensure_adapter` closes the controller and
  cannot open it again until the user disconnects (session.rs:785 promises
  recovery).
* *Link.* A peer that exchanges the MTU in the middle of a long read makes a
  chunk look like the last one, and the value is cut. `collect_notifications` takes a
  reply that could not be sent for a packet that was none of its business
  (link.rs:907), where the other read paths end the operation. The four subscription
  slots of `WritePolicy` can be taken by contexts, volume and two batteries,
  and the endpoints' responses, which are required, are then refused
  (bin/agent.rs:1881). A stale rejection of ASCS is kept from the next attempt
  only by the collection of notifications in `wait_audio_recovery`.
* *Channels.* The wait of `release_cis` counts the ends of its channels by handle
  (session.rs:1358). A handle whose end came too late for one wait is given out
  again, and the old end then passes for the new one's: the channel is taken for
  closed and forgotten while it is still open.
* *Pairing.* When a new pairing is cut short after the headset took up its key,
  both sides hold different keys; only an answer that the key is missing
  permits pairing again, so the device stays away until it is unpaired. A file of
  bonds that cannot be read once is taken for an empty one (bonding.rs:177), which
  the next save makes true.
* *Planning.* `google::choose` checks a headset with one endpoint as if it
  played one ear, and `build_custom` then asks for two in one stream if any
  record supports it; the result may be refused although an entry further down
  the list would fit (google.rs:298, "falls through").

  The key of a remembered limit has no endpoints and no age (bin/agent.rs:556).
  The limits of both ears refuse a mono stream that one of them would take, and
  limits the headset has changed since refuse or let pass what it would not. A
  refusal ends the command before the headset is asked again, so the same custom
  configuration stays refused until another preset has asked for the same stream,
  64 others have been remembered, or the agent starts again; likewise with
  capabilities that were read short. Answers that were of no use (framed, no delay
  in common) leave the limits before them in place.

  A mono stream is not checked against the records. `build_custom` checks the
  stream it builds, which for a headset with one endpoint may be both ears in one
  stream; `into_mono` (stream.rs:418) then takes one ear away and nothing is
  asked again, although "every value is checked against the device's own PAC
  records first" (stream.rs:106). A headset whose records take two channels and
  not one is then asked for what it does not take.

## Fairness and deadlock

Weak fairness is given to the program's own threads and to its clocks; strong
fairness only where a step is possible again and again and not all the time.

* IsoStream: the loop, the setup and time. Neither the controller nor the radio
  nor the user is made to do anything.
* CommandFlow: the reader thread and the adapter's answers. The worker may stop
  anywhere.
* AgentControl: the reader's steps after a command was read and what the worker
  must do (`Forced`). The end of the music, of a wait for sound or of a recovery,
  and new input, are `Chance` and not fair.
* MediaControl: `Poll`, which is enabled only within a loop and comes round there on
  every pass, and time (`GrowOld`). Nothing makes the worker enter a loop or stay
  in one (`Turn`), and the application need not answer.
* GattLink: the caller's thread, and strong fairness of `TimesOut`: a deadline
  passes although packets keep coming. The peer need not answer.
* Adapter: the readers, the timeout of a transfer (`TimesOut`), abort and joins.
* Pairing: the worker, the limits of its waits, and new attempts by the user or
  the automatic reconnection. Failures are never owed.
* Endpoints: the agent and its deadlines. The headset and the controller do in the
  end what they were asked, unless they fall silent: they may, at any wait, and
  their fairness then asks nothing of them.
* Connecting: the worker and what the controller was told to end. Strong
  fairness of `PeerAnswers` is the assumption that a headset asked again and
  again answers in the end, without which no reconnection succeeds.

Deadlock is checked for MediaControl, Connecting and Adapter, where something is
always possible. The others really stop, or run out of a bound: `run_audio` and
`play` return, the agent's process exits; GattLink, Pairing, CommandFlow and
Planning end with their last connection, key, command and connect.

## Proofs

TLAPS proves, for every value of the constants that satisfies the named
assumptions:

| Module | Theorem | Property | |
|---|---|---|---|
| IsoStreamProofs | `TypeCorrect` | types | For every capacity and depth the unsigned counters of IsoCredits stay in range, so no subtraction underflows. |
| IsoStreamProofs | `CreditsConserved` | `Conservation` | For every capacity and depth, no frame and no report creates or loses a buffer. |
| AgentControlProofs | `TypeCorrect` | types | For any devices and any number of commands every variable of the agent keeps its type; in particular the worker always runs the command its program counter says. |
| AgentControlProofs | `HeldDeviceBonded` | `HeldIsBonded` | For any devices and any number of commands, the held device is a bonded one. |
| AgentControlProofs | `FlagMeansAudio` | `PlayingMeansAudio` | For any devices and any number of commands, playing is raised only while audio runs or is awaited. |
| AgentControlProofs | `GhostsExplained` | `GhostOnlyByReplacement` | For any devices and any number of commands, a link the agent does not hold comes about only when another device is held in its place. |
| MediaControlProofs | `TypeCorrect` | types | For any opcodes and any bounds every variable of the media control server keeps its type and the queue of notifications its limit. |
| MediaControlProofs | `OnlyConfirmedSucceeds` | `SuccessIsConfirmed` | For any number of commands and connections, the headset hears of success only when Windows confirmed that very command. |
| MediaControlProofs | `ResultIsFinal` | `OneResult` | For any number of commands and connections, no command has two results, however answer and timeout race. |
| MediaControlProofs | `LinksStayApart` | `NothingCrossesLinks` | For any number of commands and connections, a headset hears how a command ended only on the link it was accepted on, and no command is taken for the app after its link was reset. |
| IsoStreamProofs | `StreamConserves` | `Conservation` | With the composed loop, event thread and rebuilds, for any streams and any buffers, no frame, report or closed channel creates or loses a buffer. |
| IsoStreamProofs | `StreamInStep` | `EarsInStep` | For any streams and any buffers, at the top of the loop the next sequence number of each ear is the number of intervals that have passed, modulo the width. |
| IsoStreamProofs | `StreamPaced` | `NoCatchUpBurst` | For any streams and any buffers, a frame is begun less than one interval after its deadline: no stall is followed by a burst. |
| IsoStreamProofs | `AccountsAreExact` | `ExactAccounting` | For any streams, any buffers, any reports and any number of rebuilt groups, each packet outstanding on a live channel is in the controller, in a report nobody has read, or about to be written. |
| TransportProofs | `InterfaceFree` | `OpensFree` | For any number of failures and reopenings, nobody of our own but an idle link holds the USB interface when it is opened: both threads of the controller before have ended. |
| ConnectingProofs | `OffIsOff` | `OffMeansOff` | For any number of losses, failures and commands, at most two attempts begin once automatic reconnect is off. |
| ConnectingProofs | `AnnouncementsEnd` | `AnnouncedEnds` | For any number of losses, failures and commands, an announced reconnect is taken back whenever the loop ends without the user. |
| HeadsetProofs | `TrustIsEarned` | `TrustEarned` | For any number of keys, failures, crashes and forgettings, a key is used only when every check was made for it, the media server is open only to an encrypted link, and a bond holds its own key's identity. |
| HeadsetProofs | `BondsSurvive` | `BondSurvives` | For any number of keys, failures, crashes and forgettings, a bond leaves its file only by being forgotten or replaced. |
| HeadsetProofs | `StreamsAlwaysFit` | `StreamFits` | For any headset, settings and number of connect commands, what is asked of the headset is something it published, both ears add up, the group carries what the endpoints were told, and the delay and latency agreed on hold for every endpoint. |
| HeadsetProofs | `PreflightAlwaysQuotes` | `PreflightQuotes` | For any headset that may change its answers between connections, any settings and number of connect commands, preflight refuses or passes a custom configuration by what the headset said the last time it was asked for this very stream. |
| ConnectingProofs | `LeavesNothing` | `NothingOrphaned` | For any number of losses, failures and commands, when no command runs the controller has no request, no search and no link but the one the agent holds, answers after their wait excepted. |
| AgentControlProofs | `StopsAreAskedFor` | `NoSpuriousStop` | For any devices and any number of commands, playback is told to stop only while the command that asked for it is still waiting or standard input has closed. |
| TransportProofs | `NeverTooMany` | `NoOverrun` | For any opcodes, any queue and any number of commands, a controller with one slot is never given a second command. |
| TransportProofs | `AnswersAreOwn` | `OwnAnswerUnlessAbandoned` | For any opcodes, any queue, any number of commands and of slots in the controller, a call takes its own answer or the late one of an earlier call with its opcode. |
| TransportProofs | `OwnersAreRight` | `RightOwner` | For any opcodes, any queue, any number of commands and of slots in the controller, an acknowledgement is kept from the worker exactly if it answers a background command. |
| GattLinkProofs | `ImplementsBearer` | `KeepsBearer` | For any peer, any values and any number of calls and connections, the link implements AttBearer: every step of GattLink is a step of the bearer or a stutter. |
| GattLinkProofs | `NewsAlwaysKept` | `NewsKept` | For any peer and any number of calls, connections and events, a wait that looks for the loss of the link leaves every event not yet taken in its place and its order, and a loss is never forgotten. |
| GattLinkProofs | `DataAlwaysWhole` | `DataWhole` | For any peer, any values and any number of calls and connections, a frame is put together of its own fragments, a value of all its chunks unless the peer changed the MTU in the middle, and only a discovery that reached its end is kept. |
| EndpointsProofs | `EndpointsInvariant` | types | For any plans and any number of attempts and troubles, what the agent knows of the endpoints, the channels and the rejections under way agrees with the headset and the controller: the inductive invariant the next three rest on. |
| EndpointsProofs | `OperationsAlwaysFit` | `OperationsFit` | For any plans and any number of attempts and troubles, an operation reaches only endpoints that allow it, unless the headset acted by itself, and a rejection ends only the attempt it belongs to. |
| EndpointsProofs | `NothingIsLeft` | `NothingLeft` | For any plans and any number of attempts and troubles, when play returns over a live link the endpoints are handed back and every channel is remembered that may be open, unless a teardown gave up on one. |
| EndpointsProofs | `EarsAlwaysConfirmed` | `EarsConfirmed` | For any plans and any number of attempts and troubles, audio starts only with every endpoint streaming on its own channel, that channel open and in its place. |

*IsoCredits.* Assumed: one or two streams, any capacity, any positive depth.
`Conservation` with the types is inductive: a frame takes as many buffers as it
counts packets, because its channels are distinct, and a report gives back as
many as it uncounts, because conservation itself keeps the sum below the
capacity at which the code cuts it off.

*AgentControl.* Assumed: the relation between the sets of devices and commands
(`AgentAssumption`). The inductive invariant is types, `HeldIsBonded`,
`PlayingMeansAudio` and `LostIsDown`. The types say which command the worker runs
at which program counter; without that, `Hold` could hold a device other than
the one it has just paired. `LostIsDown` (a link reported lost is no longer up
when the worker lets go of it) is needed by `GhostsExplained`: otherwise letting
go of a lost device could leave its link up. Each part has its lemma with one
step per action. For `StopsAreAskedFor`, `Caused` says that an interrupt that is up
within `connect`, or a flag that is down while audio runs, has its command still on
the way to the worker.

*MediaControl.* Assumed: `MediaAssumption`, which only bounds the model and
keeps position writes apart. The promises are stated as `Sound`, of a queue, a
pending command and the results already told, because `Accept` and `Refuse`
pass through intermediate queues within one step. `Sound` strengthens the
properties by where identifiers come from: results carry issued identifiers,
what is no result carries none, and the pending command has no result yet.
One lemma each shows that a plain notification, a result and handing over the
queue keep it. For `LinksStayApart`, what is queued, pending or waits for the
application belongs to the present link (`InOneLink`, `CommandsOfLink`), and an
identifier, once issued, keeps its link (`TakenIssued`): what was told or taken
stays with the link it was made on through every reset that follows.

*IsoStream.* Assumed: `StreamsAssumption`, `BuffersAssumption`,
`TimeAssumption`. The invariant of the credits is reused through one lemma
(`CreditSteps`), since the loop changes them only by the two methods. To it come
`NotEarly` (awake, the loop never runs ahead of its deadline) and `InStep` (between
encoding and pacing the ears that took their packet are one number ahead of the
deadline, at any other time none is). `WrapsOnce` is the arithmetic of one more
step modulo the width.

For `ExactAccounting` the reports under way are a set, the pairs of a report and
the number of one of its packets (`Packets`), so that counting them is a
cardinality and no fold. `OfOneReport`, `PacketsAppended` and `PacketsOfTail` say
what a report adds and takes. To the accounts `AccountInv` adds that a frame is
written one packet per ear (`Writing`), that a channel that has ended holds
nothing (`Flushed`) and that a group starts with nothing under way (`Unused`).

*Adapter.* `Dropped` says that where the controller has been dropped both
threads have ended, because they are joined one after the other, and that no
link of a call survives it; what remains is the link the agent keeps.

*Connecting.* `Counted` bounds the attempts made against the settings by the
attempts of the present round. `Owed` says where in the loop an announcement may
stand, and that only the policy, read after the last attempt, leads to a third.

`Tidy` says that what the controller does, somebody waits for or knows of, and
that nothing unread is left over: no event while a request goes on, no failure
or end while there is a link. `Owned` is `Tidy` as long as the adapter is open
and no answer was late; it gives `LeavesNothing`.

*CommandFlow.* Assumed: `FlowAssumption`. Why the first pending entry with an
opcode is the one that is answered, for any number of slots: `InOrder` says that
the pending commands are those whose answers are on their way, in the order of
the answers, and then those in the controller. Sending, answering, reading and
the events without an answer keep it, one lemma each (`OrderSent`,
`OrderAnswered`, `OrderRead`, `OrderReported`, `OrderSkipped`), so an answer that
is read is that of the oldest pending command (`AckRead`). To it come `AllSent`
(a pending command is in the background, waited for, or abandoned), `Youngest`
and `PassedOn`. TLC checked this invariant with one, two and three slots first.

`NeverTooMany` also assumes `Slots = 1`, a controller that takes one command at a
time, as the code itself assumes at the start (`CommandFlow::new`). The credit is
one token, and `OneToken` says where it is: with the host, in a command on its
way, or in an event on its way back. With two slots `NoOverrun` does not hold: a
report made before the last command was sent overwrites the credits
(transport.rs:88), and TLC finds a command too many after five.

*Endpoints.* Assumed: `EndpointsAssumption`. The agent's picture can differ from
the headset's and the controller's in several ways, and the invariant has a part
for each: `Flow` (where the agent stands and what follows), `Clean` (what is not
configured is handed back), `Handles` and `Tracked` (the channels known and the
ends that are waited for), `Confirming` and `States` (the endpoints, while nothing
but the agent moves them), `Off` and `Rejected` (rejections under way when an
attempt ends). None of them is inductive alone: that a rejection is not taken by
a later attempt needs that the endpoints were handed back, which needs that the
agent knows its channels. The proof is what brought `release_cis` to its three
steps and the stale end of a channel to light. TLC checked the invariant with
three and with four things that go wrong before it was proved.

*Planning.* Assumed: `PlanningAssumption`. `Fits` says of a plan that it has the
first endpoints of the headset, sane numbers, and a codec some published record
accepts; it is what the walk over the lists yields (`Planned`) and what the
negotiation keeps (`AgreedFits`). `Between` and `Under` say that the bounds kept,
a greatest least delay, a least greatest one and a least ceiling, are met exactly
by what meets every endpoint's own; that least and greatest numbers exist is
proved from well-foundedness and by removing elements (`Least`, `Greatest`).
`LimitsHold` says that a remembered limit is what the headset answered when it was
last asked for that stream, and that no stream has two limits; `AskedBefore` that
no answer is younger than the present command, and all are older until this one
has asked; `Judged` that until the
headset is read again preflight would say the same. Together they are
`PreflightQuotes`. TLC checked the invariant on the instance of the run first.

*Pairing.* Assumed: `PairingAssumption`. `Careful`: a check that is behind leaves no
room for the flaw it detects, and the key the peer agreed to is ours. `Keys`:
the key in use is the saved one or one that no file knows, and the identity
belongs to it. `Stored`: the file never has one key with another's identity, and
a save ends with what it began with.

*GattLink.* A refinement. The invariant says that at most one response is to
come (with the peer, in the channel, or half put together), that it answers the
last request, and that nothing is to come while no request is out (`OneResponse`,
`InTurn`, over `Parts` and `LastRequests`). Each step is then mapped to a step of
the bearer or to a stutter: taking the response is the bearer's answer, a
deadline its abandonment, every other packet a stutter.

`NewsInv` says that the events waiting are, in order, those that were emitted
and not taken, and that a lost link is known, was told of, or has its event among
those that wait; handing back what was looked at keeps the order.
`DataInv`: what is to come continues the value that is being read, with
the MTU it was asked with (`Content`, `SameMtu`), which fails only where no further
request follows, an answer to the peer's own exchange that could not be sent
(`Spent`); a frame is put together from its
own parts only because the parts of one stand together among those of other
connections. The least number with a property is found by well-foundedness.

Every invariant and every action property that a run checks is stated by a
theorem. Only model-checked is what needs fairness and so ENABLED:
`FramesFlow`, `LossEndsLoop`, `BackgroundServed`, `InterruptHonoured`, `EofEndsProcess`,
`CommandAnswered`, `CallEnds`, `Recovers`, `AttemptEnds`, `ComesBack` and
`ThreadsEnd`; and the violation of `DisconnectServed`.

Sums and selections over sequences are stated as cardinalities of sets of
positions: what a fold or `SelectSeq` computes would need induction over data,
which the installed provers cannot do.

No module with a theorem reaches a recursive operator.

## Left for later

1. An abstract endpoint (ASCS) as a module of its own, implemented by Endpoints.
2. `play` as a command in AgentControl; a composition of AgentControl with
   Connecting in place of two views of one loop.
3. Multipoint settings, the opcode list of the safety filter and `StreamPlan`'s
   tables as operators over bounded inputs.

## Not modelled

USB transfers and Windows audio I/O and the packet layouts of `hci.rs` and
`radio.rs` have no state that another part acts on beyond the failures already
present. Volume control (`vcs.rs`) is two GATT requests whose change counter the
headset checks. LC3 is numeric third-party code, `smp.rs`'s cryptography is an
uninterpreted key. The user interface and the command line tools are sources of
inputs; scripts, installers and the C reference code of HCI run outside the
program. Resolving private addresses is a computation on one packet.

Pairing has one device, so that a save after a failed load loses the bonds of the
other devices cannot be represented; `Loaded` has the failed load itself.
GattLink drains and connects in one step, see there. No property promises the
peer an answer to what it asks: most signalling gets none by design.

## Running it

    tlc -config MCIsoStream.cfg MCIsoStream
    tlapm MediaControlProofs.tla

Each run takes from a few seconds to two or three minutes.
