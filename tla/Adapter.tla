------------------------------ MODULE Adapter ------------------------------
(***************************************************************************)
(* Who holds the USB interface, and how it is given back: the two reader   *)
(* threads of HciPump (dev/core/src/link.rs), the transfers they block in  *)
(* (winusb.rs), HciPump::stop, and the session that opens the controller,  *)
(* reopens it when a reader has died (ensure_adapter) and shuts it down    *)
(* when a teardown was not confirmed.                                      *)
(*                                                                         *)
(* WinUSB gives one handle per device; the handle is closed when the last  *)
(* of its users lets go: the controller, the two threads, and a Link.      *)
(***************************************************************************)
EXTENDS Naturals

CONSTANTS GiveUpAfter,      \* failed reads in a row that end a reader (200)
          MaxTrouble,       \* bound: failures of reads, commands and the device
          MaxBackground     \* background commands unanswered at a time (16)

ASSUME AdapterAssumption ==
    GiveUpAfter \in Nat \ {0} /\ MaxTrouble \in Nat /\ MaxBackground \in Nat

VARIABLES
    at,         \* reader -> "check", "submit", "pending" or "ended"
    failures,   \* reader -> failed reads in a row
    alive,      \* no reader has given up
    stopped,    \* stop() has begun
    background, \* background commands the controller has not answered
    gone,       \* the device behind the handle has been unplugged
    pc,         \* the worker: what it is doing with the controller
    then,       \* where it goes when stop() has returned
    link,       \* a Link exists: "no", in a "call", or kept "idle" by the agent
    trouble

readerVars == <<at, failures, alive, background>>
adapterVars == <<readerVars, stopped, gone, pc, then, link, trouble>>

Reader == {"event", "acl"}
Stopping == {"abort event", "abort acl", "join event", "join acl"}

Trouble == trouble < MaxTrouble /\ trouble' = trouble + 1

AdapterInit ==
    /\ at = [r \in Reader |-> "ended"] /\ failures = [r \in Reader |-> 0]
    /\ alive = FALSE /\ stopped = FALSE /\ background = 0 /\ gone = FALSE
    /\ pc = "off" /\ then = "off" /\ link = "no" /\ trouble = 0
-----------------------------------------------------------------------------
(* A reader: the loop condition, the submission of a read, its outcome.    *)

To(r, place) == at' = [at EXCEPT ![r] = place]
Reset(r) == failures' = [failures EXCEPT ![r] = 0]
OfReaders == UNCHANGED <<stopped, gone, pc, then, link>>

\* Mutant: the reader that ends does not tell the other one.
LeaveSilently(r) == To(r, "ended") /\ UNCHANGED <<failures, alive, background>>

\* The thread ends: its sender and its share of the interface go with it.
Leave(r) == To(r, "ended") /\ alive' = FALSE /\ UNCHANGED <<failures, background>>

Check(r) ==
    /\ at[r] = "check"
    /\ IF ~stopped /\ alive
       THEN To(r, "submit") /\ UNCHANGED <<failures, alive, background>>
       ELSE Leave(r)
    /\ OfReaders /\ UNCHANGED trouble

Submit(r) ==
    /\ at[r] = "submit"
    /\ To(r, "pending")
    /\ OfReaders /\ UNCHANGED <<failures, alive, background, trouble>>

Pending(r) == at[r] = "pending" /\ OfReaders

\* Something has been read.  The answer to a background command is consumed in
\* read_event, which reads again without a look at the flags; an event that asks
\* for link parameters makes the reader queue one.
Reads(r) ==
    /\ Pending(r) /\ ~gone
    /\ Reset(r)
    /\ \/ To(r, "check") /\ background' = background
       \/ r = "event" /\ background > 0 /\ To(r, "submit") /\ background' = background - 1
       \/ /\ r = "event" /\ background < MaxBackground
          /\ To(r, "check") /\ background' = background + 1
    /\ UNCHANGED <<alive, trouble>>

\* Nothing came for a second: silence is not a failure.
TimesOut(r) ==
    /\ Pending(r)
    /\ Reset(r) /\ To(r, "check")
    /\ UNCHANGED <<alive, background, trouble>>

\* A stall, or a transfer somebody aborted: clear the pipe and read again, a
\* bounded number of times.
Failed(r) ==
    IF stopped \/ failures[r] + 1 >= GiveUpAfter THEN Leave(r)
    ELSE /\ To(r, "check") /\ failures' = [failures EXCEPT ![r] = @ + 1]
         /\ UNCHANGED <<alive, background>>

Fails(r) == Pending(r) /\ Trouble /\ Failed(r)

DeviceGone(r) == Pending(r) /\ gone /\ Leave(r) /\ UNCHANGED trouble

Unplug ==
    /\ pc # "off" /\ ~gone /\ gone' = TRUE /\ Trouble
    /\ UNCHANGED <<readerVars, stopped, pc, then, link>>
-----------------------------------------------------------------------------
(* The worker.                                                             *)

Goto(place) == pc' = place /\ UNCHANGED <<readerVars, stopped, gone, then, link>>

\* Mutant: the readers' threads are not waited for.
NotJoined(r) == TRUE

Joined(r) == at[r] = "ended"

\* HciPump::stop: the flags before the abort, so that a read the abort misses is
\* the last one.
Stop(place, l) ==
    /\ pc' = "abort event" /\ then' = place /\ link' = l
    /\ stopped' = TRUE /\ alive' = FALSE
    /\ UNCHANGED <<at, failures, background, gone>>

AbortsPipe(r, next) ==
    /\ IF at[r] = "pending" THEN Failed(r) ELSE UNCHANGED readerVars
    /\ pc' = next
    /\ UNCHANGED <<stopped, gone, then, link, trouble>>

AbortReads ==
    \/ pc = "abort event" /\ AbortsPipe("event", "abort acl")
    \/ pc = "abort acl" /\ AbortsPipe("acl", "join event")

\* The last join returned: the controller is dropped, and with the call that
\* failed its own link.
JoinReaders ==
    \/ pc = "join event" /\ Joined("event") /\ Goto("join acl") /\ UNCHANGED trouble
    \/ /\ pc = "join acl" /\ Joined("acl")
       /\ pc' = then /\ link' = IF link = "call" THEN "no" ELSE link
       /\ UNCHANGED <<readerVars, stopped, gone, then, trouble>>

Holders ==
    {r \in Reader : at[r] # "ended"}
      \cup (IF link = "no" THEN {} ELSE {"link"})
      \cup (IF pc \in {"off", "open"} THEN {} ELSE {"controller"})

\* adapter(on), and every operation of a session without a controller.
WantsController == pc = "off" /\ Goto("open") /\ UNCHANGED trouble

\* UsbTransport::open_first and HciPump::start.
Open ==
    /\ pc = "open" /\ Holders = {}
    /\ pc' = "initialize"
    /\ at' = [r \in Reader |-> "check"] /\ failures' = [r \in Reader |-> 0]
    /\ alive' = TRUE /\ stopped' = FALSE /\ background' = 0 /\ gone' = FALSE
    /\ UNCHANGED <<then, link, trouble>>

\* No such device, or the interface is taken, by another program or by ourselves.
OpenRefused ==
    /\ pc = "open"
    /\ Goto("off")
    /\ IF Holders # {} THEN UNCHANGED trouble ELSE Trouble

\* Controller::initialize: a command that fails drops the controller.
Initialize ==
    /\ pc = "initialize"
    /\ \/ alive /\ Goto("ready") /\ UNCHANGED trouble
       \/ ~alive /\ Stop("off", link) /\ UNCHANGED trouble
       \/ alive /\ Stop("off", link) /\ Trouble

\* connect_device, or play on the link that was kept.
CallBegins ==
    /\ pc = "ready" /\ alive /\ link # "call"
    /\ link' = "call"
    /\ UNCHANGED <<readerVars, stopped, gone, pc, then, trouble>>

\* Playback ended and the connection is kept.
CallEnds ==
    /\ pc = "ready" /\ link = "call"
    /\ link' = "idle"
    /\ UNCHANGED <<readerVars, stopped, gone, pc, then, trouble>>

\* Session::disconnect.  The link goes before it, or with the call that failed;
\* a teardown the controller does not confirm closes the adapter.
HangUp ==
    /\ pc = "ready" /\ link # "no"
    /\ \/ alive /\ link' = "no" /\ UNCHANGED <<readerVars, stopped, gone, pc, then, trouble>>
       \/ /\ IF alive THEN Trouble ELSE UNCHANGED trouble
          /\ \/ Stop("off", "no")
             \/ link = "call" /\ Stop("off", link)

\* ensure_adapter, at the start of a scan, a search or a connection.
EnsureAdapter ==
    /\ pc = "ready" /\ ~alive /\ link # "call"
    /\ Stop("open", link) /\ UNCHANGED trouble

\* The adapter is switched off, or the program ends.
SwitchOff ==
    /\ pc = "ready"
    /\ Stop("off", "no") /\ UNCHANGED trouble

\* A hang-up when the controller is gone already.
DropLink ==
    /\ pc = "off" /\ link # "no"
    /\ link' = "no"
    /\ UNCHANGED <<readerVars, stopped, gone, pc, then, trouble>>

Reading(r) == Check(r) \/ Submit(r) \/ DeviceGone(r)

AdapterNext ==
    \/ \E r \in Reader : Reading(r) \/ Reads(r) \/ TimesOut(r) \/ Fails(r)
    \/ Unplug
    \/ AbortReads \/ JoinReaders
    \/ WantsController \/ Open \/ OpenRefused \/ Initialize
    \/ CallBegins \/ CallEnds \/ HangUp \/ EnsureAdapter \/ SwitchOff \/ DropLink

AdapterSpec == AdapterInit /\ [][AdapterNext]_adapterVars

\* The threads run, WinUSB completes a transfer by its timeout, and the worker
\* goes through what it has begun.  Nothing is asked of the user or the device.
Fairness ==
    /\ \A r \in Reader : WF_adapterVars(Reading(r)) /\ WF_adapterVars(TimesOut(r))
    /\ WF_adapterVars(AbortReads) /\ WF_adapterVars(JoinReaders)

FairAdapterSpec == AdapterSpec /\ Fairness
-----------------------------------------------------------------------------
(* Properties.                                                             *)

\* Whoever opens the interface finds that nobody of our own holds it, the threads
\* of the controller before in particular (HciPump::stop, abort_pipe: "the next
\* attempt to open the adapter is told it belongs to another driver.  It does: to
\* us").  One holder is left by the code: the link the agent keeps while nothing
\* plays, when ensure_adapter replaces a controller whose reader has died.
OpensFree == pc = "open" => Holders = {} \/ (Holders = {"link"} /\ link = "idle")

ReadersEndTogether ==
    (\E r \in Reader : at[r] = "ended") ~> (\A r \in Reader : at[r] = "ended")

StopReturns == pc \in Stopping ~> pc \notin Stopping

\* One reader's end becomes the other's, and stop() returns although the abort
\* misses a read submitted right after it, and although read_event reads on after
\* the answer to a background command (HciPump::start and stop).
ThreadsEnd == ReadersEndTogether /\ StopReturns
=============================================================================
