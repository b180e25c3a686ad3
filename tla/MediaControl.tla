---------------------------- MODULE MediaControl ----------------------------
(***************************************************************************)
(* The media control server (dev/core/src/media.rs): a headset's buttons   *)
(* drive the player of Windows.  One Server behind a mutex is used by four *)
(* threads: the session worker serves the headset's ATT requests and hands *)
(* over notifications, media_worker takes accepted commands to the app,    *)
(* the command reader brings back the app's answers and snapshots, and a   *)
(* new or ended connection resets it.  The server is looked after only     *)
(* while the session worker is in one of its loops or in an ATT procedure: *)
(* in between it waits for a command of the app and nobody serves.         *)
(*                                                                         *)
(* A command is one of Ops; Position stands for a write of the track       *)
(* position, which is queued like a command and gets no result.            *)
(***************************************************************************)
EXTENDS Integers, Sequences, Functions

CONSTANTS
    Ops,          \* control point opcodes
    Position,
    MaxSerial,    \* bound: commands accepted in a behaviour
    MaxLinks,     \* bound: resets
    NoteLimit     \* notifications kept (64 in the code)

ASSUME MediaAssumption ==
    /\ Position \notin Ops
    /\ MaxSerial \in Nat /\ MaxLinks \in Nat /\ NoteLimit \in Nat \ {0}

VARIABLES
    encrypted, enabled,
    active,       \* snapshot.state is not 0
    supported,    \* snapshot.supported
    subscribed,   \* the headset wants results of the control point
    pending,      \* Server.pending, and whether its three seconds have passed
    serial,
    commands,     \* accepted and not yet taken by media_worker
    notes,        \* Server.notifications
    serving,      \* the session worker: "loop", "procedure" or "elsewhere"
    taken,        \* drained by media_worker and not yet written to the app
    given,        \* serials the app has and has not answered
    \* history
    link,         \* how many times the link was reset
    madeOn,       \* the link on which each command was accepted
    confirmed,    \* serials Windows said yes to
    told          \* results the headset was sent, and on which link

peerVars == <<encrypted, subscribed, link>>
playerVars == <<enabled, active, supported>>
appVars == <<taken, given, confirmed>>
vars == <<peerVars, playerVars, appVars, pending, serial, madeOn, commands, notes, serving, told>>

NonePending == [id |-> 0, op |-> Position, old |-> FALSE]

\* A notification: the result of command id, a refusal, or a changed value.
Result(n, success) == [kind |-> IF success THEN "success" ELSE "failed", id |-> n]
Refusal == [kind |-> "refused", id |-> 0]
Changed == [kind |-> "changed", id |-> 0]
IsResult(note) == note.kind \in {"success", "failed"}

\* The results among the first k notifications, as the headset gets them now.
Sent(queue, k) ==
    {[kind |-> queue[i].kind, id |-> queue[i].id, link |-> link] :
        i \in {j \in 1..k : IsResult(queue[j])}}

Init ==
    /\ encrypted = FALSE /\ enabled = TRUE /\ active = FALSE /\ supported = {}
    /\ subscribed = FALSE
    /\ pending = NonePending /\ serial = 0
    /\ commands = <<>> /\ notes = <<>> /\ serving = "elsewhere" /\ taken = <<>> /\ given = {}
    /\ link = 0 /\ madeOn = <<>> /\ confirmed = {} /\ told = {}
-----------------------------------------------------------------------------
\* The push inside notify: at the limit a notification is dropped.
Note(queue, note) == IF Len(queue) < NoteLimit THEN Append(queue, note) ELSE queue

\* notify, for the control point.
Notified(queue, note) == IF encrypted /\ subscribed THEN Note(queue, note) ELSE queue

\* What is queued once command n has ended; position writes end silently.
Ended(queue, n, success) ==
    IF pending.op = Position THEN queue ELSE Notified(queue, Result(n, success))

\* Why the server refuses a command; a busy server and one that is switched off
\* answer alike.
Refused(op) ==
    \/ ~enabled
    \/ op # Position /\ op \notin supported
    \/ ~active
    \/ pending # NonePending

\* Writing the drained notifications: one that fails ends the worker's loop or
\* procedure, and those not yet written are lost with it.
Write(queue) ==
    \E k \in 0..Len(queue) :
      /\ told' = told \cup Sent(queue, k)
      /\ serving' = IF k < Len(queue) THEN "elsewhere" ELSE serving

\* Mutant: the time that has passed is not looked at.
ServeForEver(queue, ended) ==
    /\ Write(queue)
    /\ notes' = <<>>
    /\ pending' = ended

\* notifications(): a command older than three seconds has failed, and all that
\* is queued goes to the headset.
Serve(queue, ended) ==
    LET late == ended # NonePending /\ ended.old
    IN /\ Write(IF late THEN Ended(queue, ended.id, FALSE) ELSE queue)
       /\ notes' = <<>>
       /\ pending' = IF late THEN NonePending ELSE ended

\* serve without a request, once per pass of the playback and waiting loops.
Poll ==
    /\ serving = "loop"
    /\ Serve(notes, pending)
    /\ UNCHANGED <<peerVars, playerVars, appVars, serial, madeOn, commands>>

\* serve with a write to the control point or to the position.
Accept ==
    /\ serving # "elsewhere" /\ encrypted /\ serial < MaxSerial
    /\ \E op \in Ops \cup {Position} :
         /\ ~Refused(op)
         /\ serial' = serial + 1 /\ madeOn' = Append(madeOn, link)
         /\ commands' = Append(commands, [id |-> serial + 1, op |-> op])
         /\ Serve(notes, [id |-> serial + 1, op |-> op, old |-> FALSE])
    /\ UNCHANGED <<peerVars, playerVars, appVars>>

Refuse ==
    /\ serving # "elsewhere" /\ encrypted
    /\ \E op \in Ops \cup {Position} :
         /\ Refused(op)
         /\ Serve(IF op = Position THEN notes ELSE Notified(notes, Refusal), pending)
    /\ UNCHANGED <<peerVars, playerVars, appVars, serial, madeOn, commands>>

\* serve with a write to the control point's configuration descriptor.
Subscribe ==
    /\ serving # "elsewhere" /\ encrypted
    /\ subscribed' \in BOOLEAN
    /\ Serve(notes, pending)
    /\ UNCHANGED <<encrypted, link, playerVars, appVars, serial, madeOn, commands>>

\* The session worker enters or leaves a loop or an ATT procedure, for reasons
\* of its own.
Turn ==
    /\ serving' \in {"loop", "procedure", "elsewhere"} \ {serving}
    /\ UNCHANGED <<peerVars, playerVars, appVars, pending, serial, madeOn, commands, notes, told>>
-----------------------------------------------------------------------------
\* media_worker, every 25 ms: take_commands empties the queue under the lock ...
TakeCommands ==
    /\ taken = <<>> /\ commands # <<>>
    /\ taken' = [i \in DOMAIN commands |-> [id |-> commands[i].id, link |-> link]]
    /\ commands' = <<>>
    /\ UNCHANGED <<peerVars, playerVars, pending, serial, madeOn, notes, serving, given,
                   confirmed, told>>

\* ... and what was taken is written to the app, whatever has happened since.
EmitCommand ==
    /\ taken # <<>>
    /\ given' = given \cup {Head(taken).id} /\ taken' = Tail(taken)
    /\ UNCHANGED <<peerVars, playerVars, pending, serial, madeOn, commands, notes, serving,
                   confirmed, told>>

\* Mutant: whatever is pending is what the answer is for.
FinishAny(n, success) ==
    IF pending # NonePending
    THEN /\ notes' = Ended(notes, pending.id, success) /\ pending' = NonePending
    ELSE UNCHANGED <<notes, pending>>

\* Mutant: the command stays pending.
FinishKeeping(n, success) ==
    /\ notes' = IF pending.id = n THEN Ended(notes, n, success) ELSE notes
    /\ UNCHANGED pending

\* finish: an answer that is not for the pending command changes nothing.
Finish(n, success) ==
    IF pending.id = n
    THEN /\ notes' = Ended(notes, n, success) /\ pending' = NonePending
    ELSE UNCHANGED <<notes, pending>>

\* media-result from the app, which answers a command once or never.
Answer ==
    /\ \E n \in given, success \in BOOLEAN :
         /\ given' = given \ {n}
         /\ confirmed' = IF success THEN confirmed \cup {n} ELSE confirmed
         /\ Finish(n, success)
    /\ UNCHANGED <<peerVars, playerVars, taken, serial, madeOn, commands, serving, told>>

\* media-status, and the setting that switches the service: the player changes
\* and the headset hears of the values that did, as far as it subscribed to them.
Update ==
    /\ active' \in BOOLEAN /\ supported' \in SUBSET Ops /\ enabled' \in BOOLEAN
    /\ \/ encrypted /\ notes' = Note(notes, Changed)
       \/ UNCHANGED notes
    /\ UNCHANGED <<peerVars, appVars, pending, serial, madeOn, commands, serving, told>>
-----------------------------------------------------------------------------
\* Mutant: the command that waits for its result is kept.
ResetKeepingPending ==
    /\ link < MaxLinks /\ link' = link + 1
    /\ encrypted' = FALSE /\ subscribed' = FALSE /\ serving' = "elsewhere"
    /\ commands' = <<>> /\ notes' = <<>>
    /\ UNCHANGED <<playerVars, appVars, pending, serial, madeOn, told>>

\* reset_link: before a connection is made, when one is given up, at shutdown,
\* always by the session worker.
ResetLink ==
    /\ link < MaxLinks /\ link' = link + 1
    /\ encrypted' = FALSE /\ subscribed' = FALSE /\ serving' = "elsewhere"
    /\ pending' = NonePending /\ commands' = <<>> /\ notes' = <<>>
    /\ UNCHANGED <<playerVars, appVars, serial, madeOn, told>>

\* authorize: the link is encrypted, after pairing or with a stored key.
Authorize ==
    /\ ~encrypted /\ encrypted' = TRUE
    /\ UNCHANGED <<subscribed, link, playerVars, appVars, pending, serial, madeOn, commands,
                   notes, serving, told>>

\* Three seconds since the command was accepted.
GrowOld ==
    /\ pending # NonePending /\ ~pending.old
    /\ pending' = [pending EXCEPT !.old = TRUE]
    /\ UNCHANGED <<peerVars, playerVars, appVars, serial, madeOn, commands, notes, serving,
                   told>>
-----------------------------------------------------------------------------
Next == Poll \/ Accept \/ Refuse \/ Subscribe \/ Turn \/ TakeCommands \/ EmitCommand
        \/ Answer \/ Update \/ ResetLink \/ Authorize \/ GrowOld

Spec == Init /\ [][Next]_vars

(***************************************************************************)
(* Time passes, and a loop that the session worker is in comes round.      *)
(* Nothing says that the worker enters a loop or stays in one, or that the *)
(* app ever answers.                                                       *)
(***************************************************************************)
FairSpec == Spec /\ WF_vars(Poll) /\ WF_vars(GrowOld)
-----------------------------------------------------------------------------
(***************************************************************************)
(* Every variable has its type and the queue of notifications its limit.   *)
(***************************************************************************)
Notes == [kind : {"success", "failed", "refused", "changed"}, id : 0..MaxSerial]
Told == [kind : {"success", "failed"}, id : 1..MaxSerial, link : 0..MaxLinks]
TypeOK ==
    /\ encrypted \in BOOLEAN /\ enabled \in BOOLEAN /\ active \in BOOLEAN
    /\ subscribed \in BOOLEAN /\ supported \subseteq Ops
    /\ serving \in {"loop", "procedure", "elsewhere"}
    /\ pending \in [id : 0..MaxSerial, op : Ops \cup {Position}, old : BOOLEAN]
    /\ serial \in 0..MaxSerial /\ link \in 0..MaxLinks
    /\ madeOn \in [1..serial -> 0..MaxLinks]
    /\ commands \in Seq([id : 1..MaxSerial, op : Ops \cup {Position}])
    /\ notes \in Seq(Notes) /\ Len(notes) <= NoteLimit
    /\ taken \in Seq([id : 1..MaxSerial, link : 0..MaxLinks])
    /\ given \subseteq 1..MaxSerial /\ confirmed \subseteq 1..MaxSerial
    /\ told \subseteq Told

(***************************************************************************)
(* "Only confirmed Windows actions receive SUCCESS": no late answer, of a  *)
(* command that timed out or of an earlier connection, is taken for the    *)
(* confirmation of another command.                                        *)
(***************************************************************************)
SuccessIsConfirmed ==
    /\ \A i \in DOMAIN notes : notes[i].kind = "success" => notes[i].id \in confirmed
    /\ \A a \in told : a.kind = "success" => a.id \in confirmed

(***************************************************************************)
(* A command has one result: the headset never hears that it failed and    *)
(* later that it succeeded, however the timeout and the answer race.       *)
(***************************************************************************)
OneResult ==
    /\ \A a \in told, b \in told : a.id = b.id => a = b
    /\ \A i \in DOMAIN notes : IsResult(notes[i]) =>
         /\ \A j \in DOMAIN notes : notes[j].id = notes[i].id => j = i
         /\ \A a \in told : a.id # notes[i].id
    /\ pending # NonePending =>
         /\ \A a \in told : a.id # pending.id
         /\ \A i \in DOMAIN notes : notes[i].id # pending.id

(***************************************************************************)
(* "The server is scoped to the one active ACL link": a headset that comes *)
(* back, or another one, never hears how a command of an earlier link      *)
(* ended - whether the app answers late, the three seconds run out or the  *)
(* result was queued when the link went - and media_worker takes no        *)
(* command once the link it was given on has been reset.                   *)
(***************************************************************************)
NothingCrossesLinks ==
    /\ \A a \in told : a.link = madeOn[a.id]
    /\ \A i \in DOMAIN taken : taken[i].link = madeOn[taken[i].id]

(***************************************************************************)
(* A headset that listens for results gets one for each accepted command,  *)
(* whether or not the app ever answers, as long as the session worker      *)
(* stays in one of its loops - unless the headset stops listening, its     *)
(* link goes, or the queue of notifications has room for less than a       *)
(* refusal and the result.                                                 *)
(***************************************************************************)
CommandAnswered ==
    \A n \in 1..MaxSerial :
        (pending.id = n /\ pending.op # Position /\ subscribed /\ serving = "loop")
            ~> \/ \E a \in told : a.id = n
               \/ ~subscribed \/ serving # "loop" \/ Len(notes) >= NoteLimit - 1
=============================================================================
