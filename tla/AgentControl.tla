---------------------------- MODULE AgentControl ----------------------------
(***************************************************************************)
(* The agent process (dev/core/src/bin/agent.rs): the thread that reads    *)
(* commands from standard input, and the worker that runs them and, from   *)
(* inside `connect`, connects, plays and reconnects for hours.  Because    *)
(* the worker does not read its queue in that time, the reading thread     *)
(* speaks to it through three shared variables - playing, interrupt and    *)
(* cancel_epoch - and reads one it keeps, connected_mirror.                *)
(*                                                                         *)
(* One action per access to a shared variable; what one thread does        *)
(* between two accesses is one action.                                     *)
(***************************************************************************)
EXTENDS Integers, Sequences

CONSTANTS
    Device,
    NoDevice,
    Favourite,    \* devices starred by the user; the others need consent each time
    Paired,       \* devices with a bond at the start
    Commands,     \* which commands the app sends
    MaxCommands   \* bound: how many it sends

ASSUME AgentAssumption ==
    /\ NoDevice \notin Device /\ Favourite \subseteq Device /\ Paired \subseteq Device
    /\ Commands \subseteq {"connect", "disconnect", "scan", "forget", "on", "off", "stop", "quit"}
    /\ MaxCommands \in Nat

VARIABLES
    \* the reading thread
    rpc,        \* where it is
    rcmd,       \* the command it is accepting
    sent,       \* how many it has accepted
    \* shared
    playing, interrupt, epoch,   \* epoch is cancel_epoch
    queue,      \* commands_tx / commands_rx
    held,       \* Agent.connected and connected_mirror
    \* the worker
    wpc,        \* where it is
    cur,        \* the command it runs
    startedIn,  \* the epoch connect compares with
    attempt,    \* 2 stands for every later attempt
    confirmed,  \* confirmed_once
    rebuilds,   \* play: -1 not recovering, else failed_rebuilds
    lost,       \* lost_reason.is_some()
    verdict,    \* how play_on or wait_for_sound ended
    bonds,
    found,      \* Agent.found, what the last scan saw
    on,         \* Agent.session.is_some()
    \* the adapter
    open,       \* Session.controller.is_some()
    acl         \* per device: link "down", "up", or "closing" (not confirmed)

readerVars  == <<rpc, rcmd, sent>>
connectVars == <<startedIn, attempt, confirmed>>
playVars    == <<rebuilds, lost, verdict>>
storeVars   == <<bonds, found, on>>
adapterVars == <<open, acl>>
vars == <<readerVars, playing, interrupt, epoch, queue, held, wpc, cur, connectVars,
          playVars, storeVars, adapterVars>>

\* What can be asked for, stamped with an epoch.
Stamped(E) ==
    [cmd : {"disconnect", "scan", "on", "off", "stop", "quit"}, dev : {NoDevice},
     confirmed : {FALSE}, epoch : E]
    \cup [cmd : {"connect"}, dev : Device, confirmed : BOOLEAN, epoch : E]
    \cup [cmd : {"forget"}, dev : Device, confirmed : {FALSE}, epoch : E]
Command == Stamped({0})
Nothing == [cmd |-> "none", dev |-> NoDevice, confirmed |-> FALSE, epoch |-> 0]

\* Mutant: playback listens to its own flag alone.
StopByFlag == ~playing

\* The should_stop of run_audio and of wait_for_sound.
ShouldStop == interrupt \/ ~playing

\* The adapter has been switched on and nothing has been asked for yet.
Init ==
    /\ rpc = "read" /\ rcmd = Nothing /\ sent = 0
    /\ playing = FALSE /\ interrupt = FALSE /\ epoch = 0 /\ queue = <<>>
    /\ held = NoDevice
    /\ wpc = "idle" /\ cur = Nothing
    /\ startedIn = 0 /\ attempt = 0 /\ confirmed = FALSE
    /\ rebuilds = -1 /\ lost = FALSE /\ verdict = "stopped"
    /\ bonds = Paired /\ found = {} /\ on = TRUE
    /\ open = TRUE /\ acl = [d \in Device |-> "down"]
-----------------------------------------------------------------------------
(* The reading thread. *)

workerVars == <<held, wpc, cur, connectVars, playVars, storeVars, adapterVars>>

\* The one decision that reads the mirror is taken here, before any flag moves.
ReadCommand ==
    /\ rpc = "read" /\ sent < MaxCommands
    /\ \E c \in Command :
         /\ c.cmd \in Commands
         /\ rcmd' = c
         /\ rpc' = IF \/ c.cmd \in {"stop", "quit", "disconnect", "off"}
                      \/ c.cmd = "forget" /\ held = c.dev
                   THEN "playing" ELSE "interrupt"
    /\ sent' = sent + 1
    /\ UNCHANGED <<playing, interrupt, epoch, queue, workerVars>>

LowerPlaying ==
    /\ rpc = "playing"
    /\ playing' = FALSE
    /\ rpc' = "interrupt"
    /\ UNCHANGED <<rcmd, sent, interrupt, epoch, queue, workerVars>>

\* Every command of this model raises it.
RaiseInterrupt ==
    /\ rpc = "interrupt"
    /\ interrupt' = TRUE
    /\ rpc' = "epoch"
    /\ UNCHANGED <<rcmd, sent, playing, epoch, queue, workerVars>>

Cancels(cmd) == cmd \in {"disconnect", "stop", "quit", "forget", "on", "off"}

RaiseEpoch ==
    /\ rpc = "epoch"
    /\ epoch' = IF Cancels(rcmd.cmd) THEN epoch + 1 ELSE epoch
    /\ rpc' = "send"
    /\ UNCHANGED <<rcmd, sent, playing, interrupt, queue, workerVars>>

Enqueue ==
    /\ rpc = "send"
    /\ queue' = Append(queue, [rcmd EXCEPT !.epoch = epoch])
    /\ rpc' = IF rcmd.cmd = "quit" THEN "eofEpoch" ELSE "read"
    /\ rcmd' = Nothing
    /\ UNCHANGED <<sent, playing, interrupt, epoch, workerVars>>

\* Standard input closes: the app is gone.
InputEnds ==
    /\ rpc = "read" /\ rpc' = "eofEpoch"
    /\ UNCHANGED <<rcmd, sent, playing, interrupt, epoch, queue, workerVars>>

EofEpoch ==
    /\ rpc = "eofEpoch" /\ rpc' = "eofPlaying"
    /\ epoch' = epoch + 1
    /\ UNCHANGED <<rcmd, sent, playing, interrupt, queue, workerVars>>

EofPlaying ==
    /\ rpc = "eofPlaying" /\ rpc' = "eofInterrupt"
    /\ playing' = FALSE
    /\ UNCHANGED <<rcmd, sent, interrupt, epoch, queue, workerVars>>

\* And drop(commands_tx): from here on the reader only joins the worker.
EofInterrupt ==
    /\ rpc = "eofInterrupt" /\ rpc' = "joining"
    /\ interrupt' = TRUE
    /\ UNCHANGED <<rcmd, sent, playing, epoch, queue, workerVars>>

Reader == LowerPlaying \/ RaiseInterrupt \/ RaiseEpoch \/ Enqueue
          \/ EofEpoch \/ EofPlaying \/ EofInterrupt
-----------------------------------------------------------------------------
(* Pieces of the worker's steps. *)

commandVars == <<cur, connectVars, playVars>>
sharedVars  == <<interrupt, epoch, queue>>

Move(p) == wpc' = p /\ UNCHANGED readerVars

FreshLocals ==
    /\ startedIn' = 0 /\ attempt' = 0 /\ confirmed' = FALSE
    /\ rebuilds' = -1 /\ lost' = FALSE /\ verdict' = "stopped"

\* The command is done, well or badly, and its locals go out of scope.
Finish == Move("idle") /\ cur' = Nothing /\ FreshLocals

\* Session::disconnect: the link is gone, or, unconfirmed, the adapter is given
\* up until it is reset.
Severed(d) ==
    IF d = NoDevice \/ ~open THEN {acl}
    ELSE {[acl EXCEPT ![d] = s] : s \in IF acl[d] = "down" THEN {"down"} ELSE {"down", "closing"}}

Hangup(d) ==
    /\ acl' \in Severed(d)
    /\ open' = (open /\ (d = NoDevice \/ acl'[d] # "closing"))

\* Agent::disconnect.
LetGo == playing' = FALSE /\ held' = NoDevice /\ Hangup(held)

\* The same, and the adapter is closed after it.
LetGoAndClose == playing' = FALSE /\ held' = NoDevice /\ acl' \in Severed(held) /\ open' = FALSE

\* Session::ensure_adapter: opening resets the controller, which ends its links.
Reopen ==
    /\ open' = TRUE
    /\ acl' = IF open THEN acl ELSE [d \in Device |-> "down"]
-----------------------------------------------------------------------------
(* The worker: the queue and the short commands. *)

\* Mutant: an outdated connect is run all the same.
DequeueEveryConnect ==
    /\ wpc = "idle" /\ queue # <<>>
    /\ queue' = Tail(queue)
    /\ LET c == Head(queue)
       IN IF c.cmd = "stop" THEN Move("idle") /\ UNCHANGED cur
                            ELSE Move(c.cmd) /\ cur' = c
    /\ UNCHANGED <<playing, interrupt, epoch, held, connectVars, playVars, storeVars, adapterVars>>

\* A connect accepted before the last cancelling command is dropped here.
Dequeue ==
    /\ wpc = "idle" /\ queue # <<>>
    /\ queue' = Tail(queue)
    /\ LET c       == Head(queue)
           stale   == c.cmd = "connect" /\ (c.epoch < epoch \/ ~on)
           dropped == stale \/ c.cmd = "stop"
       IN IF dropped THEN Move("idle") /\ UNCHANGED cur
                     ELSE Move(c.cmd) /\ cur' = c
    /\ UNCHANGED <<playing, interrupt, epoch, held, connectVars, playVars, storeVars, adapterVars>>

Disconnect ==
    /\ wpc = "disconnect"
    /\ LetGo /\ Finish
    /\ UNCHANGED <<sharedVars, storeVars>>

\* Mutant: the key is removed and the connection kept.
ForgetKeepingLink ==
    /\ wpc = "forget"
    /\ bonds' = bonds \ {cur.dev}
    /\ Finish
    /\ UNCHANGED <<playing, held, adapterVars, sharedVars, found, on>>

Forget ==
    /\ wpc = "forget"
    /\ \/ held = cur.dev /\ LetGo
       \/ held # cur.dev /\ UNCHANGED <<playing, held, adapterVars>>
    /\ bonds' = bonds \ {cur.dev}
    /\ Finish
    /\ UNCHANGED <<sharedVars, found, on>>

AdapterOff ==
    /\ wpc = "off"
    /\ LetGoAndClose
    /\ on' = FALSE /\ found' = {}
    /\ Finish
    /\ UNCHANGED <<sharedVars, bonds>>

AdapterOn ==
    /\ wpc = "on"
    /\ \/ UNCHANGED <<on, adapterVars>>
       \/ ~on /\ on' = TRUE /\ Reopen
    /\ Finish
    /\ UNCHANGED <<playing, sharedVars, held, bonds, found>>

\* "This scan is the newest command, so consume the flag."
ScanBegins ==
    /\ wpc = "scan"
    /\ interrupt' = FALSE
    /\ IF on THEN Move("scanning") /\ UNCHANGED commandVars ELSE Finish
    /\ UNCHANGED <<playing, epoch, queue, held, storeVars, adapterVars>>

ScanEnds ==
    /\ wpc = "scanning"
    /\ \/ interrupt /\ UNCHANGED <<found, adapterVars>>
       \/ Reopen /\ found' \in SUBSET Device
    /\ Finish
    /\ UNCHANGED <<playing, sharedVars, held, bonds, on>>

\* quit, or the queue closed and empty; then disconnect and shutdown.
Exit ==
    /\ \/ wpc = "quit"
       \/ wpc = "idle" /\ queue = <<>> /\ rpc = "joining"
    /\ LetGoAndClose
    /\ on' = FALSE
    /\ Move("exited") /\ cur' = Nothing /\ FreshLocals
    /\ UNCHANGED <<sharedVars, bonds, found>>
-----------------------------------------------------------------------------
(* The worker: connect. *)

quietVars == <<playing, queue, epoch, held, storeVars, adapterVars>>

\* "Cleared here rather than by the reader thread."
ClearInterrupt ==
    /\ wpc = "connect"
    /\ interrupt' = FALSE
    /\ confirmed' = cur.confirmed
    /\ Move("started")
    /\ UNCHANGED <<quietVars, cur, startedIn, attempt, playVars>>

LoadEpoch ==
    /\ wpc = "started"
    /\ startedIn' = epoch
    /\ Move("top")
    /\ UNCHANGED <<quietVars, interrupt, cur, attempt, confirmed, playVars>>

\* The returns at the top of a round: cancelled, unpaired, automatic reconnect
\* switched off (the policy is read from disk in every round, so it may be), no
\* consent, or nothing known of the device.
Authorised == cur.dev \in Favourite \/ confirmed
Known == cur.dev \in bonds \/ (attempt = 0 /\ cur.dev \in found)
LoopEnds ==
    /\ wpc = "top"
    /\ epoch > startedIn \/ attempt >= 2 \/ ~Authorised \/ ~Known
    /\ Finish
    /\ UNCHANGED <<quietVars, interrupt>>

\* A round: consent is spent, the attempt is counted and the target looked for.
LoopContinues ==
    /\ wpc = "top"
    /\ epoch <= startedIn /\ Authorised /\ Known
    /\ confirmed' = FALSE
    /\ attempt' = IF attempt < 2 THEN attempt + 1 ELSE 2
    /\ lost' = FALSE
    /\ Move("search")
    /\ UNCHANGED <<quietVars, interrupt, cur, startedIn, rebuilds, verdict>>

\* target_device: a bond with an identity is searched for over the air, which
\* opens the adapter; the search may find nothing, which is fine, or fail.
Searched == UNCHANGED adapterVars \/ (cur.dev \in bonds /\ Reopen)

TargetFound ==
    /\ wpc = "search"
    /\ Searched
    /\ Move("attempt")
    /\ UNCHANGED <<playing, sharedVars, held, storeVars, commandVars>>

TargetFails ==
    /\ wpc = "search" /\ cur.dev \in bonds
    /\ Searched
    /\ Finish
    /\ UNCHANGED <<playing, sharedVars, held, storeVars>>

\* The first should_stop of connect_within_until.
WindowOpens ==
    /\ wpc = "attempt"
    /\ Move(IF interrupt THEN "failed" ELSE "window")
    /\ UNCHANGED <<quietVars, interrupt, commandVars>>

\* connect_within_until: found in the window, or not, or told to stop.
WindowFails ==
    /\ wpc = "window"
    /\ \/ UNCHANGED adapterVars
       \/ Reopen
    /\ Move("failed")
    /\ UNCHANGED <<playing, sharedVars, held, storeVars, commandVars>>

LinkUp ==
    /\ wpc = "window"
    /\ open' = TRUE
    /\ acl[cur.dev] = "down" \/ ~open
    /\ acl' = [d \in Device |-> IF d = cur.dev THEN "up" ELSE IF open THEN acl[d] ELSE "down"]
    /\ Move("setup")
    /\ UNCHANGED <<playing, sharedVars, held, storeVars, commandVars>>

\* Mutant: an error path that does not disconnect.
SetupFailsKeepingLink ==
    /\ wpc = "setup"
    /\ bonds' \in {bonds, bonds \cup {cur.dev}}
    /\ Move("failed")
    /\ UNCHANGED <<playing, sharedVars, held, found, on, commandVars, adapterVars>>

\* Encryption or pairing, the bond, discovery; not interruptible.
SetupFails ==
    /\ wpc = "setup"
    /\ bonds' \in {bonds, bonds \cup {cur.dev}}
    /\ Hangup(cur.dev)
    /\ Move("failed")
    /\ UNCHANGED <<playing, sharedVars, held, found, on, commandVars>>

Hold ==
    /\ wpc = "setup" /\ acl[cur.dev] = "up"
    /\ bonds' = bonds \cup {cur.dev}
    /\ held' = cur.dev
    /\ Move("play")
    /\ UNCHANGED <<playing, sharedVars, found, on, commandVars, adapterVars>>
-----------------------------------------------------------------------------
(* The worker: play and play_on. *)

\* play_on returns at once when interrupted, or fails before any audio.
PlayEndsEarly ==
    /\ wpc = "play"
    /\ \/ interrupt /\ verdict' = "stopped"
       \/ ~interrupt /\ verdict' = "error"
    /\ Move("after")
    /\ UNCHANGED <<quietVars, interrupt, cur, connectVars, rebuilds, lost>>

StartAudio ==
    /\ wpc = "play" /\ ~interrupt
    /\ Move("start")
    /\ UNCHANGED <<quietVars, interrupt, commandVars>>

\* Mutant: the flag is not raised before the audio starts.
StartUnflagged ==
    /\ wpc = "start"
    /\ Move("audio")
    /\ UNCHANGED <<playing, sharedVars, held, storeVars, adapterVars, commandVars>>

RaisePlaying ==
    /\ wpc = "start"
    /\ playing' = TRUE
    /\ Move("audio")
    /\ UNCHANGED <<sharedVars, held, storeVars, adapterVars, commandVars>>

\* run_audio returns: told to stop; the link lost; or by itself - silence, a lost
\* channel, an audio device or transport error.
Audio(how) ==
    /\ wpc = "audio"
    /\ verdict' = how
    /\ Move("ended")
    /\ UNCHANGED <<quietVars, interrupt, cur, connectVars, rebuilds, lost>>

AudioStops == ShouldStop /\ Audio("stopped")
AudioLost  == held # NoDevice /\ acl[held] # "up" /\ Audio("lost")
AudioEnds  == \E how \in {"yielded", "recover", "gaveUp", "error"} : Audio(how)

\* playing.store(false), the release of streams and group, and for a lost link
\* the hold and lost_reason.
AudioEnded ==
    /\ wpc = "ended"
    /\ playing' = FALSE
    /\ held' = IF verdict = "lost" THEN NoDevice ELSE held
    /\ lost' = (verdict = "lost")
    /\ Move("after")
    /\ UNCHANGED <<sharedVars, storeVars, adapterVars, cur, connectVars, rebuilds, verdict>>

\* take_disconnection_reason: the link went while the audio was torn down.
LossSeenAfter ==
    /\ wpc = "after" /\ held # NoDevice /\ acl[held] # "up"
    /\ held' = NoDevice /\ lost' = TRUE
    /\ Move("returned")
    /\ UNCHANGED <<playing, sharedVars, storeVars, adapterVars, cur, connectVars, rebuilds, verdict>>

\* Failed rebuilds after which one more is tried: three failures end it, and so
\* does a failure that was not a rebuild.
Retryable == {0, 1}

\* What play does next; stable is audio that ran for 30 s.
Recovering(n) == rebuilds' = n /\ Move("recovery")
AfterPlay ==
    /\ wpc = "after"
    /\ \/ verdict \in {"stopped", "lost", "gaveUp"} /\ Move("returned") /\ UNCHANGED rebuilds
       \/ verdict = "recover" /\ \E stable \in BOOLEAN :
            Recovering(IF stable \/ rebuilds = -1 THEN 0 ELSE rebuilds)
       \/ verdict = "error" /\ rebuilds \in Retryable /\ Recovering(rebuilds + 1)
       \/ verdict = "error" /\ rebuilds \notin Retryable /\ Move("playErr") /\ UNCHANGED rebuilds
       \/ verdict = "yielded" /\ Move("waitSound") /\ rebuilds' \in {-1, rebuilds}
    /\ UNCHANGED <<quietVars, interrupt, cur, connectVars, lost, verdict>>

\* wait_audio_recovery.
RecoveryStops ==
    /\ wpc = "recovery" /\ interrupt
    /\ Move("returned")
    /\ UNCHANGED <<quietVars, interrupt, commandVars>>

RecoveryLost ==
    /\ wpc = "recovery" /\ held # NoDevice /\ acl[held] # "up"
    /\ held' = NoDevice /\ lost' = TRUE
    /\ Move("returned")
    /\ UNCHANGED <<playing, sharedVars, storeVars, adapterVars, cur, connectVars, rebuilds, verdict>>

\* The window expires, the interval passes, or the reader thread is dead.
RecoveryEnds ==
    /\ wpc = "recovery"
    /\ \E p \in {"returned", "play", "playErr"} : Move(p)
    /\ UNCHANGED <<quietVars, interrupt, commandVars>>

WaitSound ==
    /\ wpc = "waitSound"
    /\ playing' = TRUE
    /\ Move("quiet")
    /\ UNCHANGED <<sharedVars, held, storeVars, adapterVars, commandVars>>

\* wait_for_sound returns false, fails (also on a lost link) or hears sound.
QuietStops ==
    /\ wpc = "quiet" /\ ShouldStop
    /\ playing' = FALSE
    /\ Move("returned")
    /\ UNCHANGED <<sharedVars, held, storeVars, adapterVars, commandVars>>

\* Mutant: the error returns before the flag is lowered.
QuietLostEarly ==
    /\ wpc = "quiet" /\ held # NoDevice /\ acl[held] # "up"
    /\ Move("playErr")
    /\ UNCHANGED <<playing, sharedVars, held, storeVars, adapterVars, commandVars>>

QuietLost ==
    /\ wpc = "quiet" /\ held # NoDevice /\ acl[held] # "up"
    /\ playing' = FALSE
    /\ Move("playErr")
    /\ UNCHANGED <<sharedVars, held, storeVars, adapterVars, commandVars>>

QuietEnds ==
    /\ wpc = "quiet"
    /\ playing' = FALSE
    /\ Move("play") \/ Move("playErr")
    /\ UNCHANGED <<sharedVars, held, storeVars, adapterVars, commandVars>>

\* connect_device: a failed play disconnects.
PlayFailed ==
    /\ wpc = "playErr"
    /\ LetGo
    /\ Move("failed")
    /\ UNCHANGED <<sharedVars, storeVars, commandVars>>
-----------------------------------------------------------------------------
(* The worker: after connect_device. *)

\* A clean end, a reason not worth reconnecting for, or reconnect switched off
\* or out of time - or the next round, counted from the start.
Returned ==
    /\ wpc = "returned"
    /\ \/ Finish
       \/ /\ lost
          /\ attempt' = 0 /\ lost' = FALSE
          /\ Move("pause")
          /\ UNCHANGED <<cur, startedIn, confirmed, rebuilds, verdict>>
    /\ UNCHANGED <<quietVars, interrupt>>

\* reset_after_failure, then by attempt: once more at once, an error, or the pause.
AttemptFailed ==
    /\ wpc = "failed"
    /\ held' = NoDevice /\ Hangup(held)
    /\ \/ attempt = 1 /\ Move("retry") /\ UNCHANGED commandVars
       \/ attempt >= 2 /\ Move("pause") /\ UNCHANGED commandVars
       \/ Finish
    /\ UNCHANGED <<playing, sharedVars, storeVars>>

\* wait_for: the 600 ms before the second attempt and the pause before the others.
WaitCancelled ==
    /\ wpc \in {"retry", "pause"} /\ interrupt
    /\ Finish
    /\ UNCHANGED <<quietVars, interrupt>>

WaitOver ==
    /\ wpc \in {"retry", "pause"} /\ ~interrupt
    /\ Move("top")
    /\ UNCHANGED <<quietVars, interrupt, commandVars>>
-----------------------------------------------------------------------------
AclLost ==
    /\ \E d \in Device : acl[d] # "down" /\ acl' = [acl EXCEPT ![d] = "down"]
    /\ UNCHANGED <<readerVars, playing, sharedVars, held, wpc, commandVars, storeVars, open>>

ShortCommand == Dequeue \/ Disconnect \/ Forget \/ AdapterOff \/ AdapterOn
                \/ ScanBegins \/ ScanEnds \/ Exit
Connecting == ClearInterrupt \/ LoadEpoch \/ LoopEnds \/ LoopContinues \/ TargetFound
              \/ WindowOpens \/ WindowFails \/ LinkUp \/ SetupFails \/ Hold
Playing == PlayEndsEarly \/ StartAudio \/ RaisePlaying \/ AudioStops \/ AudioLost
           \/ AudioEnded \/ LossSeenAfter \/ AfterPlay \/ RecoveryStops \/ RecoveryLost
           \/ WaitSound \/ QuietStops \/ QuietLost \/ PlayFailed
Between == Returned \/ AttemptFailed \/ WaitCancelled \/ WaitOver
\* What the worker must do sooner or later, and what it only may do.
Forced == ShortCommand \/ Connecting \/ Playing \/ Between
Chance == TargetFails \/ AudioEnds \/ RecoveryEnds \/ QuietEnds \/ AclLost

Next == ReadCommand \/ InputEnds \/ Reader \/ Forced \/ Chance

Spec == Init /\ [][Next]_vars

(***************************************************************************)
(* Both threads are scheduled.  Nothing makes the user act, the music end  *)
(* or a wait for sound or recovery finish.                                 *)
(***************************************************************************)
FairSpec == Spec /\ WF_vars(Reader) /\ WF_vars(Forced)
-----------------------------------------------------------------------------
(***************************************************************************)
(* Every variable has its type.                                            *)
(***************************************************************************)
InConnect == {"started", "top", "search", "attempt", "window", "setup", "play", "start",
              "audio", "ended", "after", "recovery", "waitSound", "quiet", "playErr",
              "returned", "failed", "retry", "pause"}
ReaderTypes ==
    /\ rpc \in {"read", "playing", "interrupt", "epoch", "send",
                "eofEpoch", "eofPlaying", "eofInterrupt", "joining"}
    /\ rcmd \in Command \cup {Nothing}
    /\ rpc \in {"playing", "interrupt", "epoch", "send"} => rcmd \in Command
    /\ sent \in 0..MaxCommands
    /\ playing \in BOOLEAN /\ interrupt \in BOOLEAN /\ epoch \in Nat
    /\ queue \in Seq(Stamped(Nat))
WorkerTypes ==
    /\ held \in Device \cup {NoDevice}
    /\ wpc \in InConnect \cup {"idle", "exited", "connect", "disconnect", "forget", "on", "off",
                               "scan", "scanning", "quit"}
    /\ cur \in Stamped(Nat) \cup {Nothing}
    /\ wpc \in InConnect \cup {"connect"} => cur.cmd = "connect"
    /\ wpc = "forget" => cur.cmd = "forget"
    /\ bonds \subseteq Device /\ found \subseteq Device
LocalTypes ==
    /\ startedIn \in Nat /\ attempt \in 0..2 /\ rebuilds \in -1..2
    /\ verdict \in {"stopped", "lost", "yielded", "recover", "gaveUp", "error"}
FlagTypes == confirmed \in BOOLEAN /\ lost \in BOOLEAN
AdapterTypes ==
    /\ on \in BOOLEAN /\ open \in BOOLEAN
    /\ acl \in [Device -> {"down", "up", "closing"}]
TypeOK == ReaderTypes /\ WorkerTypes /\ LocalTypes /\ FlagTypes /\ AdapterTypes

(***************************************************************************)
(* Unpairing never leaves a connection standing with no bond behind it,    *)
(* wherever in connect, recovery or reconnect the worker was when the      *)
(* command was accepted.                                                   *)
(***************************************************************************)
HeldIsBonded == held # NoDevice => held \in bonds

(***************************************************************************)
(* The flag means "audio is running or awaited" and nothing else: no path  *)
(* out of playback, through an error or a lost link, leaves it raised.     *)
(***************************************************************************)
PlayingMeansAudio == playing => wpc \in {"audio", "ended", "quiet"}

(***************************************************************************)
(* Playback is never told to stop by a flag left over from something that  *)
(* was dealt with earlier: whenever it is, the command that asked for it   *)
(* is still waiting, or standard input has closed.                         *)
(***************************************************************************)
Waiting == {queue[i] : i \in DOMAIN queue} \cup (IF rpc = "read" THEN {} ELSE {rcmd})
NoSpuriousStop ==
    [][wpc = "audio" /\ wpc' = "ended" /\ verdict' = "stopped" => Waiting # {}]_vars

(***************************************************************************)
(* A link in the controller that the agent no longer holds can never be    *)
(* closed by it.  No error path, cancelled attempt or lost link leaves one *)
(* behind while the adapter is kept open; only holding another device in   *)
(* place of this one does.                                                 *)
(***************************************************************************)
Ghost(d) == open /\ acl[d] = "up" /\ held # d /\ ~(wpc = "setup" /\ cur.dev = d)
GhostOnlyByReplacement ==
    [][\A d \in Device : Ghost(d)' /\ ~Ghost(d) => held = d /\ held' \in Device \ {d}]_vars

(***************************************************************************)
(* An interrupt that reaches the worker inside connect - in any window,    *)
(* wait, recovery or playback - brings it back to its queue.               *)
(***************************************************************************)
InterruptHonoured == (interrupt /\ wpc \in InConnect) ~> (wpc \in {"idle", "exited"})

(***************************************************************************)
(* Standard input closing ends the process, provided the worker is not     *)
(* just about to clear the interrupt or to load the epoch.                 *)
(***************************************************************************)
EofEndsProcess ==
    (rpc = "joining" /\ interrupt /\ wpc \notin {"connect", "started"}) ~> (wpc = "exited")

(***************************************************************************)
(* "Anything that raises it - Disconnect, Unpair, turning the adapter off  *)
(* - ends this loop at the next opportunity": a Disconnect is served.      *)
(***************************************************************************)
Queued(cmd) == \E i \in DOMAIN queue : queue[i].cmd = cmd
DisconnectServed == Queued("disconnect") ~> ~Queued("disconnect")
=============================================================================
