----------------------------- MODULE Connecting -----------------------------
(***************************************************************************)
(* How the agent gets to a headset and back to it: Agent::connect with its *)
(* retry policy, target_device and the search for a private address        *)
(* (Session::find_bond, Controller::scan_until), Controller::connect_until *)
(* with its cancel, Session::ensure_adapter, disconnect and shutdown.      *)
(*                                                                         *)
(* The controller does one thing at a time and says how it went in events  *)
(* that are read later: it searches, tries to connect, or holds a link.    *)
(* What happens on the link is Pairing, GattLink, Endpoints and IsoStream; *)
(* here it is set up, fails, or plays until it ends.                       *)
(***************************************************************************)
EXTENDS Naturals, Sequences

CONSTANTS Bonded, Favourite,    \* what is known of the headset at the start
          MaxTrouble            \* bound: everything that goes wrong by itself

ASSUME ConnectingAssumption ==
    Bonded \subseteq BOOLEAN /\ Favourite \subseteq BOOLEAN /\ MaxTrouble \in Nat

VARIABLES
    pc,         \* what the worker is doing
    next,       \* where it goes when the link is closed
    attempt,    \* up to 3, which stands for more
    bonded, favourite, confirmed,
    policy, disk,   \* automatic reconnect is on: as last read, and in the file
    cancelled,  \* interrupt or cancel_epoch was raised since this connect began
    announced,  \* the app was told of a reconnect, and of nothing that ends it
    held,       \* the agent knows the handle of a link
    alive,      \* the controller is open and its reader runs
    scanning,   \* controller: looking for advertisements
    initiating, \* controller: "no", "yes", or "cancelling"
    acl,        \* controller: "none", "up", or "closing"
    events,     \* controller's events not read yet
    late,       \* history: an answer did not come while it was waited for
    unwanted,   \* history: attempts begun since automatic reconnect is off
    trouble     \* counter for the bound

adapterVars == <<alive, scanning, initiating, acl, events>>
userVars == <<disk, cancelled, favourite>>
loopVars == <<attempt, bonded, confirmed, policy, announced, unwanted>>
vars == <<pc, next, held, late, trouble, adapterVars, userVars, loopVars>>

Trouble == trouble < MaxTrouble /\ trouble' = trouble + 1

Init ==
    /\ pc = "idle" /\ next = "idle" /\ attempt = 0
    /\ bonded \in Bonded /\ favourite \in Favourite /\ confirmed = FALSE
    /\ policy \in BOOLEAN /\ disk = policy
    /\ cancelled = FALSE /\ announced = FALSE /\ held = FALSE
    /\ alive = TRUE /\ scanning = FALSE /\ initiating = "no" /\ acl = "none"
    /\ events = <<>>
    /\ late = FALSE /\ unwanted = 0 /\ trouble = 0
-----------------------------------------------------------------------------
(* The controller, the headset and the user.                               *)

\* The headset answers a connection request, also one that is being cancelled.
PeerAnswers ==
    /\ initiating # "no"
    /\ initiating' = "no"
    /\ \/ acl' = "up" /\ events' = Append(events, "linked") /\ UNCHANGED trouble
       \/ Trouble /\ events' = Append(events, "failed") /\ UNCHANGED acl
    /\ UNCHANGED <<pc, next, held, late, alive, scanning, userVars, loopVars>>

\* The attempt a Cancel has aborted reports itself, some time later.
AttemptAborted ==
    /\ initiating = "cancelling"
    /\ initiating' = "no" /\ events' = Append(events, "failed")
    /\ UNCHANGED <<pc, next, held, late, trouble, alive, scanning, acl, userVars, loopVars>>

LinkCloses ==
    /\ \/ acl = "closing" /\ UNCHANGED trouble
       \/ acl = "up" /\ Trouble     \* out of range, or switched off
    /\ acl' = "none" /\ events' = Append(events, "closed")
    /\ UNCHANGED <<pc, next, held, late, alive, scanning, initiating, userVars, loopVars>>

ReaderDies ==
    /\ alive /\ Trouble
    /\ alive' = FALSE
    /\ UNCHANGED <<pc, next, held, late, scanning, initiating, acl, events, userVars, loopVars>>

\* Disconnect, Unpair, adapter off or quit: the reading thread tells the worker.
UserCancels ==
    /\ pc # "idle" /\ ~cancelled
    /\ (pc = "play" /\ UNCHANGED trouble) \/ Trouble
    /\ cancelled' = TRUE
    /\ UNCHANGED <<pc, next, held, late, disk, favourite, adapterVars, loopVars>>

\* The settings file is written by the reading thread at any time.
UserTogglesPolicy ==
    /\ Trouble
    /\ disk' = ~disk /\ unwanted' = 0
    /\ UNCHANGED <<pc, next, held, late, cancelled, favourite, adapterVars, attempt, bonded,
                   confirmed, policy, announced>>
-----------------------------------------------------------------------------
(* Agent::connect: the loop.                                               *)

Goto(step) == pc' = step /\ UNCHANGED <<next, held>>

Still == UNCHANGED <<late, trouble, adapterVars, userVars>>

ConnectCommand ==
    /\ pc = "idle"
    /\ confirmed' \in BOOLEAN
    /\ attempt' = 0 /\ cancelled' = FALSE /\ unwanted' = 0
    /\ Goto("round")
    /\ UNCHANGED <<bonded, policy, announced, late, trouble, adapterVars, disk, favourite>>

\* A user who has stopped the playback closes the link with a command of its own.
DisconnectCommand ==
    /\ pc = "idle" /\ held
    /\ pc' = "hangup" /\ next' = "idle" /\ held' = FALSE
    /\ UNCHANGED loopVars /\ Still

\* Mutant: the policy is the one the loop began with.
PolicyAtTheStart == IF attempt = 0 THEN disk ELSE policy

PolicyNow == disk

Authorized == favourite \/ confirmed

\* The checks at the top of a round; each refusal is reported.
RoundRefused ==
    /\ pc = "round"
    /\ policy' = IF cancelled \/ (attempt > 0 /\ ~bonded) THEN policy ELSE PolicyNow
    /\ \/ cancelled
       \/ attempt > 0 /\ ~bonded
       \/ attempt >= 2 /\ ~policy'
       \/ ~Authorized
    /\ announced' = FALSE /\ confirmed' = FALSE
    /\ Goto("idle")
    /\ UNCHANGED <<attempt, bonded, unwanted>> /\ Still

\* A bond with an identity is looked for under its present address first, one without
\* is connected to as it was saved.  What is not bonded must be in the results of a
\* scan; if not, the command ends.
BeginAttempt ==
    /\ pc = "round"
    /\ ~cancelled /\ (attempt > 0 => bonded) /\ Authorized
    /\ policy' = PolicyNow
    /\ attempt >= 2 => policy'
    /\ attempt' = IF attempt < 3 THEN attempt + 1 ELSE 3
    /\ confirmed' = FALSE
    /\ unwanted' = IF disk \/ unwanted = 3 THEN unwanted ELSE unwanted + 1
    /\ pc' \in IF bonded THEN {"search", "connect"} ELSE {"connect", "idle"}
    /\ announced' = (announced /\ pc' # "idle")
    /\ UNCHANGED <<next, held, bonded>> /\ Still

\* ensure_adapter: a dead reader is replaced, and HCI Reset clears the adapter.
Reopen ==
    /\ pc \in {"search", "connect"} /\ ~alive /\ (cancelled => pc = "search")
    /\ alive' = TRUE /\ scanning' = FALSE /\ initiating' = "no" /\ acl' = "none"
    /\ events' = <<>> /\ late' = FALSE
    /\ UNCHANGED <<pc, next, held, trouble, userVars, loopVars>>

\* An error of the search is not an error of the attempt: it ends the command.
EndWithError == announced' = FALSE /\ Goto("idle")
               /\ UNCHANGED <<attempt, bonded, confirmed, policy, unwanted>>

ReopenFails ==
    /\ pc \in {"search", "connect"} /\ ~alive /\ Trouble
    /\ IF pc = "search" THEN EndWithError ELSE Goto("failed") /\ UNCHANGED loopVars
    /\ UNCHANGED <<late, adapterVars, userVars>>

\* find_bond: extended scanning, or legacy where that is refused.
StartScan ==
    /\ pc = "search" /\ alive
    /\ \/ cancelled /\ Goto("connect") /\ UNCHANGED <<scanning, loopVars>>
       \/ ~cancelled /\ scanning /\ EndWithError /\ UNCHANGED scanning
       \/ ~cancelled /\ ~scanning /\ scanning' = TRUE /\ Goto("searching") /\ UNCHANGED loopVars
    /\ UNCHANGED <<late, trouble, alive, initiating, acl, events, userVars>>

\* The headset was seen, the window is over or a newer command came; scanning is
\* stopped in any case, unless the controller does not answer.
StopScan ==
    /\ pc = "searching"
    /\ \/ alive /\ scanning' = FALSE /\ Goto("connect") /\ UNCHANGED <<loopVars, late, trouble>>
       \/ alive /\ Trouble /\ late' = TRUE /\ EndWithError /\ UNCHANGED scanning
       \/ ~alive /\ EndWithError /\ UNCHANGED <<scanning, late, trouble>>
    /\ UNCHANGED <<alive, initiating, acl, events, userVars>>
-----------------------------------------------------------------------------
(* Controller::connect_until.                                              *)

Completions == {"linked", "failed"}

Answered == \E i \in DOMAIN events : events[i] \in Completions

\* A wait takes the first event it is for, wherever that stands in the queue.
First(i, kinds) == events[i] \in kinds /\ \A j \in 1..(i - 1) : events[j] \notin kinds

Without(i) == SubSeq(events, 1, i - 1) \o SubSeq(events, i + 1, Len(events))

Abandoned ==
    /\ pc = "connect" /\ cancelled
    /\ Goto("failed")
    /\ UNCHANGED loopVars /\ Still

\* What an earlier attempt left is dropped, then the request is sent.  The
\* controller refuses a second one, and one for a link it already has.
CreateConnection ==
    /\ pc = "connect" /\ alive /\ ~cancelled
    /\ events' = <<>>
    /\ \/ /\ initiating = "no" /\ acl = "none"
          /\ initiating' = "yes"
          /\ \/ Goto("await") /\ UNCHANGED <<late, trouble>>
             \/ Trouble /\ late' = TRUE /\ Goto("failed")
       \/ /\ initiating # "no" \/ acl # "none"
          /\ Goto("failed") /\ UNCHANGED <<initiating, late, trouble>>
    /\ UNCHANGED <<alive, scanning, acl, userVars, loopVars>>

\* The wait for the completion, and its end: it came, or the window is over, or
\* the user wants something else, or nobody reads events any more.
Await ==
    /\ pc = "await"
    /\ \/ /\ alive
          /\ \E i \in DOMAIN events :
                /\ First(i, Completions) /\ events' = Without(i)
                /\ Goto(IF events[i] = "linked" THEN "setup" ELSE "failed")
       \/ ~Answered /\ alive /\ Goto("cancel") /\ UNCHANGED events
       \/ ~alive /\ Goto("failed") /\ UNCHANGED events
    /\ UNCHANGED <<late, trouble, alive, scanning, initiating, acl, userVars, loopVars>>

\* Mutant: the Cancel is sent, and what it aborts is left to report by itself.
CancelAndGo ==
    /\ pc = "cancel"
    /\ initiating' = IF alive /\ initiating = "yes" THEN "cancelling" ELSE initiating
    /\ Goto("failed")
    /\ UNCHANGED <<late, trouble, alive, scanning, acl, events, userVars, loopVars>>

\* An answer of the controller is not asked for: an attempt that has just
\* succeeded cannot be cancelled.
Cancel ==
    /\ pc = "cancel"
    /\ initiating' = IF alive /\ initiating = "yes" THEN "cancelling" ELSE initiating
    /\ Goto("settle")
    /\ UNCHANGED <<late, trouble, alive, scanning, acl, events, userVars, loopVars>>

\* Mutant: a cancelled attempt has failed, whatever its completion says.
AlwaysFailed == "failed"

\* Create Connection can win the race: adopted after a timeout, closed after a
\* cancel.
LateWinner == IF cancelled THEN "drop" ELSE "setup"

Settle ==
    /\ pc = "settle"
    /\ \/ /\ alive
          /\ \E i \in DOMAIN events :
                LET outcome == IF events[i] = "linked" THEN LateWinner ELSE "failed" IN
                /\ First(i, Completions) /\ Goto(outcome)
                /\ events' = IF outcome = "failed" THEN <<>> ELSE Without(i)
          /\ UNCHANGED <<late, trouble>>
       \/ ~Answered /\ alive /\ Trouble /\ late' = TRUE /\ Goto("failed") /\ events' = <<>>
       \/ ~alive /\ Goto("failed") /\ UNCHANGED <<events, late, trouble>>
    /\ UNCHANGED <<alive, scanning, initiating, acl, userVars, loopVars>>

\* A Disconnect nobody answers leaves the link to itself, taken or not.
Drop ==
    /\ pc = "drop"
    /\ \/ alive /\ acl = "up" /\ acl' = "closing" /\ Goto("dropping") /\ UNCHANGED <<late, trouble>>
       \/ /\ alive /\ acl = "up" /\ acl' \in {"up", "closing"} /\ Goto("failed")
          /\ Trouble /\ late' = TRUE
       \/ (~alive \/ acl # "up") /\ Goto("failed") /\ UNCHANGED <<acl, late, trouble>>
    /\ UNCHANGED <<alive, scanning, initiating, events, userVars, loopVars>>

HasClosed == \E i \in DOMAIN events : events[i] = "closed"

Dropped ==
    /\ pc = "dropping"
    /\ \/ HasClosed /\ alive /\ events' = <<>> /\ UNCHANGED <<late, trouble>>
       \/ ~HasClosed /\ alive /\ Trouble /\ late' = TRUE /\ events' = <<>>
       \/ ~alive /\ UNCHANGED <<events, late, trouble>>
    /\ Goto("failed")
    /\ UNCHANGED <<alive, scanning, initiating, acl, userVars, loopVars>>
-----------------------------------------------------------------------------
(* On the link.                                                            *)

\* open_link, encryption or pairing, capabilities, control point: connect_device
\* closes the link itself when one of them fails, and a bond may be kept.
SetUpFails ==
    /\ pc = "setup" /\ Trouble
    /\ bonded' \in {bonded, TRUE}
    /\ pc' = "hangup" /\ next' = "decide" /\ UNCHANGED held
    /\ UNCHANGED <<attempt, confirmed, policy, announced, unwanted, late, adapterVars, userVars>>

SetUp ==
    /\ pc = "setup" /\ alive /\ acl = "up"
    /\ bonded' = TRUE /\ announced' = FALSE
    /\ pc' = "play" /\ held' = TRUE /\ UNCHANGED next
    /\ UNCHANGED <<attempt, confirmed, policy, unwanted>> /\ Still

SetUpLost ==
    /\ pc = "setup" /\ (~alive \/ acl # "up")
    /\ bonded' \in {bonded, TRUE}
    /\ pc' = "hangup" /\ next' = "decide" /\ UNCHANGED held
    /\ UNCHANGED <<attempt, confirmed, policy, announced, unwanted>> /\ Still

\* Stopped by the user: the link stays, and the agent holds it.
PlayStops ==
    /\ pc = "play" /\ cancelled
    /\ Goto("idle")
    /\ UNCHANGED loopVars /\ Still

\* connect_device disconnects after a failed play.
PlayFails ==
    /\ pc = "play"
    /\ \/ ~alive /\ UNCHANGED trouble
       \/ Trouble
    /\ pc' = "hangup" /\ next' = "decide" /\ held' = FALSE
    /\ UNCHANGED <<late, adapterVars, userVars, loopVars>>

\* Mutant: a reconnect is announced whether there will be one or not.
AnnounceAnyLoss == TRUE

AnnounceLoss == disk

\* The link was lost: counted from here, an attempt is a first one again, if the
\* reason is one to reconnect after.
PlayLost ==
    /\ pc = "play" /\ alive
    /\ \E i \in DOMAIN events : First(i, {"closed"}) /\ events' = Without(i)
    /\ held' = FALSE /\ UNCHANGED next
    /\ \/ /\ policy' = disk /\ attempt' = 0 /\ announced' = AnnounceLoss
          /\ pc' = "pause"
       \/ /\ pc' = "idle" /\ UNCHANGED <<policy, attempt, announced>>
    /\ UNCHANGED <<bonded, confirmed, unwanted, late, trouble, alive, scanning, initiating, acl,
                   userVars>>
-----------------------------------------------------------------------------
(* Closing a link, and what follows a failure.                             *)

\* Session::disconnect: an unknown handle is closed already, and a command that is
\* not answered costs the adapter, whether it was taken or not.
HangUp ==
    /\ pc = "hangup"
    /\ \/ alive /\ acl = "none" /\ pc' = next /\ UNCHANGED <<acl, alive, trouble>>
       \/ /\ alive /\ acl # "none" /\ acl' = "closing" /\ pc' = "hanging"
          /\ UNCHANGED <<alive, trouble>>
       \/ /\ alive /\ Trouble /\ alive' = FALSE /\ pc' = next
          /\ acl' \in IF acl = "none" THEN {"none"} ELSE {acl, "closing"}
       \/ ~alive /\ pc' = next /\ UNCHANGED <<acl, alive, trouble>>
    /\ UNCHANGED <<next, held, late, scanning, initiating, events, userVars, loopVars>>

\* A teardown that was not confirmed costs the adapter: the next command opens
\* it again.
HungUp ==
    /\ pc = "hanging"
    /\ \/ /\ alive
          /\ \E i \in DOMAIN events : First(i, {"closed"}) /\ events' = Without(i)
          /\ UNCHANGED <<alive, trouble>>
       \/ alive /\ ~HasClosed /\ Trouble /\ alive' = FALSE /\ UNCHANGED events
       \/ ~alive /\ UNCHANGED <<alive, events, trouble>>
    /\ pc' = next
    /\ UNCHANGED <<next, held, late, scanning, initiating, acl, userVars, loopVars>>

\* reset_after_failure: a link still held is closed.
Reset ==
    /\ pc = "failed"
    /\ pc' = IF held THEN "hangup" ELSE "decide"
    /\ next' = "decide" /\ held' = FALSE
    /\ UNCHANGED loopVars /\ Still

\* One immediate retry, then a report, then the policy.
AfterFailure ==
    /\ pc = "decide"
    /\ \/ /\ attempt = 1
          /\ Goto(IF cancelled THEN "idle" ELSE "round") /\ UNCHANGED announced
       \/ attempt = 2 /\ ~policy /\ announced' = FALSE /\ Goto("idle")
       \/ attempt = 2 /\ policy /\ announced' = TRUE /\ Goto("pause")
       \/ attempt > 2 /\ Goto("pause") /\ UNCHANGED announced
    /\ UNCHANGED <<attempt, bonded, confirmed, policy, unwanted>> /\ Still

\* Settings the headset cannot do are not retried.
NotRetried ==
    /\ pc = "decide" /\ Trouble
    /\ announced' = FALSE /\ Goto("idle")
    /\ UNCHANGED <<attempt, bonded, confirmed, policy, unwanted, late, adapterVars, userVars>>

\* Between two attempts; the window of the policy may be over.
Pause ==
    /\ pc = "pause"
    /\ \/ ~policy /\ Goto("idle") /\ UNCHANGED announced
       \/ policy /\ cancelled /\ announced' = FALSE /\ Goto("idle")
       \/ policy /\ ~cancelled /\ Goto("round") /\ UNCHANGED announced
    /\ UNCHANGED <<attempt, bonded, confirmed, policy, unwanted>> /\ Still

WindowOver ==
    /\ pc = "pause" /\ policy
    /\ announced' = FALSE /\ Goto("idle")
    /\ UNCHANGED <<attempt, bonded, confirmed, policy, unwanted>> /\ Still
-----------------------------------------------------------------------------
Loop == RoundRefused \/ BeginAttempt \/ AfterFailure \/ Pause \/ Reset
Search == Reopen \/ StartScan \/ StopScan
Request == Abandoned \/ CreateConnection \/ Await \/ Cancel \/ Settle \/ Drop \/ Dropped
OnLink == SetUp \/ SetUpLost \/ PlayLost \/ HangUp \/ HungUp

Next ==
    \/ PeerAnswers \/ AttemptAborted \/ LinkCloses \/ ReaderDies
    \/ UserCancels \/ UserTogglesPolicy \/ ConnectCommand \/ DisconnectCommand
    \/ Loop \/ Search \/ ReopenFails \/ Request \/ OnLink
    \/ SetUpFails \/ PlayStops \/ PlayFails \/ NotRetried \/ WindowOver

Spec == Init /\ [][Next]_vars

\* The worker's thread runs; the controller ends what it was told to end; and a
\* headset that is asked again and again answers in the end.
FairSpec ==
    /\ Spec
    /\ WF_vars(Loop) /\ WF_vars(Search) /\ WF_vars(Request) /\ WF_vars(OnLink)
    /\ WF_vars(PlayStops) /\ WF_vars(AttemptAborted) /\ WF_vars(LinkCloses)
    /\ SF_vars(PeerAnswers)
-----------------------------------------------------------------------------
(* Properties.                                                             *)

\* When no command runs, the controller is at rest too, or holds the one link the
\* agent knows: no request goes on, no search, and no link that nobody owns,
\* though a request may succeed while it is being cancelled.  An answer that
\* did not come in its time is excepted; opening the adapter again heals it.
\* (controller.rs connect_until, scan_until, session.rs disconnect)
NothingOrphaned ==
    (pc = "idle" /\ alive /\ ~late) =>
        /\ initiating = "no" /\ ~scanning
        /\ acl # "none" => held

\* A reconnect the app was told of is taken back by an event when it is given up,
\* unless the user has given it up.  (agent.rs connect: "Announcing a reconnect
\* and then returning because the feature is off leaves the app waiting")
AnnouncedEnds == (pc = "idle" /\ ~cancelled) => ~announced

\* Once automatic reconnect is switched off, one attempt and its immediate retry
\* are the most that follow, wherever the loop was.  (agent.rs connect)
OffMeansOff == unwanted <= 2

\* An announced reconnect comes back to the headset, or to an end, as long as
\* answers come in their time: an attempt that was given up does not spoil the
\* next one.  (controller.rs connect_until)
ComesBack == (pc = "pause" /\ announced) ~> (pc \in {"play", "idle"} \/ late)
=============================================================================
