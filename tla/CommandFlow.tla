----------------------------- MODULE CommandFlow -----------------------------
(***************************************************************************)
(* HCI command flow control: struct CommandFlow and the methods of         *)
(* UsbTransport that use it (dev/core/src/transport.rs), together with the *)
(* one caller that waits for answers, Controller::command                  *)
(* (dev/core/src/controller.rs).                                           *)
(*                                                                         *)
(* Three threads meet here.  The worker issues foreground commands, one at *)
(* a time, and waits for a credit and then for the answer.  Either thread  *)
(* queues background commands (answers to the peer's parameter requests)   *)
(* and never waits.  The event reader takes every acknowledgement, updates *)
(* the credits, keeps the acknowledgements of background commands to       *)
(* itself and passes the rest on.  The controller executes commands in     *)
(* order; it is external and modelled from the HCI rules the code relies   *)
(* on.                                                                     *)
(***************************************************************************)
EXTENDS Integers, Sequences

CONSTANTS
    Op,           \* opcodes
    Slots,        \* commands the controller can hold (one on these adapters)
    QueueLimit,   \* background commands that may wait (16 in the code)
    MaxCommands,  \* bound: commands issued in a behaviour
    NoCommand

ASSUME FlowAssumption ==
    /\ Slots \in Nat \ {0} /\ QueueLimit \in Nat /\ MaxCommands \in Nat
    /\ NoCommand \notin [id : 1..MaxCommands, op : Op, background : BOOLEAN]

VARIABLES
    credits,     \* CommandFlow.credits
    queued,      \* CommandFlow.queued
    pending,     \* CommandFlow.pending, each entry with the command it is for
    caller,      \* what the worker is doing: "idle", "credit", "answer"
    call,        \* the command it is doing it for
    waits,       \* it waits for the answer (command) or not (a diagnostic)
    inbox,       \* events passed on by the reader, not yet received
    accepted,    \* the last answer the worker took: <<its call, what was answered>>
    abandoned,   \* commands sent that nobody waits for any more
    inside,      \* controller: commands it holds, in order
    owes,        \* controller: it reported no credit and must report one later
    wire,        \* controller: events sent and not yet read
    issued       \* how many commands have been issued

hostVars   == <<credits, queued, pending>>
callerVars == <<caller, call, waits, accepted, abandoned>>
controllerVars == <<inside, owes>>
vars == <<hostVars, callerVars, controllerVars, inbox, wire, issued>>

Command == [id : 1..MaxCommands, op : Op, background : BOOLEAN]

\* An acknowledgement: of a command, or the opcode-less one that only carries
\* credits.
Ack(command, n) == [answers |-> command, credits |-> n]
Acks == [answers : Command \cup {NoCommand}, credits : 0..Slots]

Init ==
    /\ credits = 1 /\ queued = <<>> /\ pending = <<>>
    /\ caller = "idle" /\ call = NoCommand /\ waits = FALSE
    /\ inbox = <<>> /\ accepted = <<NoCommand, NoCommand>> /\ abandoned = {}
    /\ inside = <<>> /\ owes = FALSE /\ wire = <<>>
    /\ issued = 0
-----------------------------------------------------------------------------
(* flush_commands, as a relation.  Of the queue q, with c credits, the        *)
(* commands at the places "at" are written; writing one in front of or       *)
(* between these failed, and it is dropped.  It stops when the credits or    *)
(* the queue run out.                                                        *)

Flush(q, c, p, u) ==
    \E n \in 0..c : \E at \in [1..n -> DOMAIN q] :
        LET written == [i \in 1..n |-> q[at[i]]]
            taken   == IF n < c THEN Len(q) ELSE IF n = 0 THEN 0 ELSE at[n]
        IN /\ \A i, j \in 1..n : i < j => at[i] < at[j]
           /\ queued'  = SubSeq(q, taken + 1, Len(q))
           /\ credits' = c - n
           /\ pending' = p \o written
           /\ inside'  = u \o written
-----------------------------------------------------------------------------
(* The worker. *)

\* Controller::command and the diagnostics of the audio loop both begin by
\* waiting for a credit.
Issue ==
    /\ caller = "idle" /\ issued < MaxCommands
    /\ issued' = issued + 1
    /\ \E op \in Op :
         call' = [id |-> issued + 1, op |-> op, background |-> FALSE]
    /\ waits' \in BOOLEAN
    /\ caller' = "credit"
    /\ UNCHANGED <<hostVars, controllerVars, inbox, wire, accepted, abandoned>>

Done == caller' = "idle" /\ call' = NoCommand /\ waits' = FALSE

\* Mutant: the credit is not taken.
SendKeepingCredit ==
    /\ caller = "credit" /\ credits > 0
    /\ pending' = Append(pending, call)
    /\ inside' = Append(inside, call)
    /\ \/ waits /\ caller' = "answer" /\ UNCHANGED <<call, waits, abandoned>>
       \/ ~waits /\ Done /\ abandoned' = abandoned \cup {call}
    /\ UNCHANGED <<credits, queued, owes, inbox, wire, accepted, issued>>

Send ==
    /\ caller = "credit" /\ credits > 0
    /\ credits' = credits - 1
    /\ pending' = Append(pending, call)
    /\ inside' = Append(inside, call)
    /\ \/ waits /\ caller' = "answer" /\ UNCHANGED <<call, waits, abandoned>>
       \/ ~waits /\ Done /\ abandoned' = abandoned \cup {call}
    /\ UNCHANGED <<queued, owes, inbox, wire, accepted, issued>>

\* The control transfer fails: the credit is given back.
SendFails ==
    /\ caller = "credit" /\ credits > 0
    /\ Done
    /\ UNCHANGED <<hostVars, controllerVars, inbox, wire, accepted, abandoned, issued>>

\* Two seconds without a credit.
NoCredit ==
    /\ caller = "credit" /\ credits = 0
    /\ Done
    /\ UNCHANGED <<hostVars, controllerVars, inbox, wire, accepted, abandoned, issued>>

\* Mutant: any acknowledgement ends the call.
ReceiveAny ==
    /\ caller = "answer" /\ inbox # <<>>
    /\ inbox' = Tail(inbox)
    /\ LET answered == Head(inbox).answers IN
       IF answered # NoCommand
       THEN accepted' = <<call, answered>> /\ Done /\ abandoned' = abandoned \cup {call}
       ELSE UNCHANGED callerVars
    /\ UNCHANGED <<hostVars, controllerVars, wire, issued>>

\* Events in order; the first acknowledgement with the opcode of the call ends
\* it, anything else moves to queued_events.
Receive ==
    /\ caller = "answer" /\ inbox # <<>>
    /\ inbox' = Tail(inbox)
    /\ LET answered == Head(inbox).answers IN
       IF answered # NoCommand /\ answered.op = call.op
       THEN /\ accepted' = <<call, answered>> /\ Done
            /\ abandoned' = abandoned \cup {call}
       ELSE UNCHANGED callerVars
    /\ UNCHANGED <<hostVars, controllerVars, wire, issued>>

\* COMMAND_TIMEOUT: NoResponse.
GiveUp ==
    /\ caller = "answer" /\ inbox = <<>>
    /\ abandoned' = abandoned \cup {call}
    /\ Done
    /\ UNCHANGED <<hostVars, controllerVars, inbox, wire, accepted, issued>>

\* A step that reads events by other means (scan, wait_for_event): answers of
\* diagnostics do not stay in front of the next call for ever.
DiscardEvent ==
    /\ caller = "idle" /\ inbox # <<>>
    /\ inbox' = Tail(inbox)
    /\ UNCHANGED <<hostVars, callerVars, controllerVars, wire, issued>>
-----------------------------------------------------------------------------
(* Background commands and the reader. *)

QueueCommand ==
    /\ issued < MaxCommands
    /\ Len(queued) < QueueLimit
    /\ issued' = issued + 1
    /\ \E op \in Op :
         Flush(Append(queued, [id |-> issued + 1, op |-> op, background |-> TRUE]),
               credits, pending, inside)
    /\ UNCHANGED <<callerVars, owes, inbox, wire>>

QueueFull ==
    /\ issued < MaxCommands
    /\ Len(queued) >= QueueLimit
    /\ issued' = issued + 1
    /\ UNCHANGED <<hostVars, callerVars, controllerVars, inbox, wire>>

\* acknowledge: the first pending entry with the opcode is the one that ends.
Owner(op) ==
    LET at == {i \in DOMAIN pending : pending[i].op = op} IN
    IF at = {} THEN 0 ELSE CHOOSE i \in at : \A j \in at : i <= j

Without(s, i) == SubSeq(s, 1, i - 1) \o SubSeq(s, i + 1, Len(s))

\* Mutant: new credits do not send what is queued.
ReadWithoutFlush ==
    /\ wire # <<>>
    /\ wire' = Tail(wire)
    /\ LET ack   == Head(wire)
           owner == IF ack.answers = NoCommand THEN 0 ELSE Owner(ack.answers.op)
       IN /\ credits' = ack.credits
          /\ pending' = IF owner = 0 THEN pending ELSE Without(pending, owner)
          /\ inbox' = IF owner # 0 /\ pending[owner].background
                      THEN inbox ELSE Append(inbox, ack)
    /\ UNCHANGED <<queued, inside, callerVars, owes, issued>>

\* Mutant: acknowledgements of background commands are passed on too.
ReadPassingAll ==
    /\ wire # <<>>
    /\ wire' = Tail(wire)
    /\ LET ack   == Head(wire)
           owner == IF ack.answers = NoCommand THEN 0 ELSE Owner(ack.answers.op)
           rest  == IF owner = 0 THEN pending ELSE Without(pending, owner)
       IN /\ Flush(queued, ack.credits, rest, inside)
          /\ inbox' = Append(inbox, ack)
    /\ UNCHANGED <<callerVars, owes, issued>>

ReadEvent ==
    /\ wire # <<>>
    /\ wire' = Tail(wire)
    /\ LET ack   == Head(wire)
           owner == IF ack.answers = NoCommand THEN 0 ELSE Owner(ack.answers.op)
           rest  == IF owner = 0 THEN pending ELSE Without(pending, owner)
       IN /\ Flush(queued, ack.credits, rest, inside)
          /\ inbox' = IF owner # 0 /\ pending[owner].background
                      THEN inbox ELSE Append(inbox, ack)
    /\ UNCHANGED <<callerVars, owes, issued>>
-----------------------------------------------------------------------------
(* The controller. *)

\* It answers its oldest command and reports its free slots, or none for now.
Answer ==
    /\ inside # <<>>
    /\ inside' = Tail(inside)
    /\ \E n \in {0, Slots - Len(inside')} \cap Nat :
         /\ wire' = Append(wire, Ack(Head(inside), n))
         /\ owes' = (n = 0)
    /\ UNCHANGED <<hostVars, callerVars, inbox, issued>>

ReportCredit ==
    /\ owes /\ Len(inside) < Slots
    /\ owes' = FALSE
    /\ wire' = Append(wire, Ack(NoCommand, Slots - Len(inside)))
    /\ UNCHANGED <<hostVars, callerVars, inside, inbox, issued>>
-----------------------------------------------------------------------------
Worker     == Issue \/ Send \/ SendFails \/ NoCredit \/ Receive \/ GiveUp \/ DiscardEvent
Background == QueueCommand \/ QueueFull
Controller == Answer \/ ReportCredit

Next == Worker \/ Background \/ ReadEvent \/ Controller

Spec == Init /\ [][Next]_vars

(***************************************************************************)
(* The reader thread is never descheduled for ever and the controller      *)
(* answers.  The worker may stop.                                          *)
(***************************************************************************)
FairSpec == Spec /\ WF_vars(ReadEvent) /\ WF_vars(Answer) /\ WF_vars(ReportCredit)
-----------------------------------------------------------------------------
(***************************************************************************)
(* The credits do their work: the controller is never given a command it   *)
(* has no room for, however foreground and background sends interleave     *)
(* with acknowledgements on their way.                                     *)
(***************************************************************************)
NoOverrun == Len(inside) <= Slots

(***************************************************************************)
(* Whose acknowledgement an event is gets decided by opcode and order      *)
(* alone.  Still the answer to a background command never surfaces as an   *)
(* event, and the answer to a foreground one is never swallowed, also when *)
(* both use the same opcode and a call has been given up on.               *)
(***************************************************************************)
IsAnswer(ack) == ack.answers # NoCommand
RightOwner ==
    [][\A ack \in Acks :
         (wire # <<>> /\ wire' = Tail(wire) /\ ack = Head(wire) /\ IsAnswer(ack)) =>
            (inbox' = inbox <=> ack.answers.background)]_vars

(***************************************************************************)
(* "Read events until this command is acknowledged": what a call returns   *)
(* is the answer to that call - or, the code allows no more than this, the *)
(* late answer to an earlier command with its opcode that had been given   *)
(* up on or that nobody waited for, never to a background or a later one.  *)
(***************************************************************************)
OwnAnswerUnlessAbandoned ==
    LET mine == accepted[1]  got == accepted[2] IN
    got # mine => got.op = mine.op /\ got \in abandoned /\ got.id < mine.id

(***************************************************************************)
(* Background commands are served: the reader sends them ahead of any      *)
(* foreground call, so a queue never stays blocked behind the worker.      *)
(***************************************************************************)
BackgroundServed ==
    \A n \in 1..MaxCommands :
        (\E i \in DOMAIN queued : queued[i].id = n)
            ~> ~(\E i \in DOMAIN queued : queued[i].id = n)
=============================================================================
