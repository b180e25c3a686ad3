------------------------- MODULE AgentControlProofs -------------------------
(***************************************************************************)
(* For every set of devices and any number of commands: what the worker    *)
(* holds is bonded, the playing flag means playback, and a link is left    *)
(* behind only by holding another device in its place.                     *)
(***************************************************************************)
EXTENDS AgentControl, TLAPS

(***************************************************************************)
(* A lost link is down by the time the worker lets go of it: between       *)
(* run_audio noticing the loss and the release nothing can bring it up.    *)
(***************************************************************************)
LostIsDown ==
    wpc = "ended" /\ verdict = "lost" => held = NoDevice \/ acl[held] # "up"

IInv == TypeOK /\ HeldIsBonded /\ PlayingMeansAudio /\ LostIsDown
-----------------------------------------------------------------------------
(***************************************************************************)
(* A stamped command of a kind that names a device does name one.          *)
(***************************************************************************)
LEMMA NamesDevice ==
    ASSUME NEW c \in Stamped(Nat), c.cmd \in {"connect", "forget"}
    PROVE  c.dev \in Device
  BY DEF Stamped

(***************************************************************************)
(* An accepted command is stamped with whatever the epoch then is.         *)
(***************************************************************************)
LEMMA Stampable ==
    ASSUME NEW c \in Command, NEW e \in Nat
    PROVE  [c EXCEPT !.epoch = e] \in Stamped(Nat)
  <1> DEFINE d == [c EXCEPT !.epoch = e]
  <1>1. CASE c \in [cmd : {"disconnect", "scan", "on", "off", "stop", "quit"}, dev : {NoDevice},
                    confirmed : {FALSE}, epoch : {0}]
    <2>1. d = [cmd |-> c.cmd, dev |-> c.dev, confirmed |-> c.confirmed, epoch |-> e]
      BY <1>1
    <2>2. QED BY <1>1, <2>1 DEF Stamped
  <1>2. CASE c \in [cmd : {"connect"}, dev : Device, confirmed : BOOLEAN, epoch : {0}]
    <2>1. d = [cmd |-> c.cmd, dev |-> c.dev, confirmed |-> c.confirmed, epoch |-> e]
      BY <1>2
    <2>2. QED BY <1>2, <2>1 DEF Stamped
  <1>3. CASE c \in [cmd : {"forget"}, dev : Device, confirmed : {FALSE}, epoch : {0}]
    <2>1. d = [cmd |-> c.cmd, dev |-> c.dev, confirmed |-> c.confirmed, epoch |-> e]
      BY <1>3
    <2>2. QED BY <1>3, <2>1 DEF Stamped
  <1>4. QED BY <1>1, <1>2, <1>3 DEF Command, Stamped

(***************************************************************************)
(* The fields of a stamped command.                                        *)
(***************************************************************************)
LEMMA StampedFields ==
    ASSUME NEW c \in Stamped(Nat)
    PROVE  /\ c.cmd \in {"connect", "disconnect", "scan", "forget", "on", "off", "stop", "quit"}
           /\ c.epoch \in Nat /\ c.dev \in Device \cup {NoDevice}
  BY DEF Stamped

(***************************************************************************)
(* Consent is a Boolean in every stamped command.                          *)
(***************************************************************************)
LEMMA StampedConsent ==
    ASSUME NEW c \in Stamped(Nat)
    PROVE  c.confirmed \in BOOLEAN
  BY DEF Stamped
-----------------------------------------------------------------------------
(* Type correctness, one part of the state at a time. *)

(***************************************************************************)
(* Every step keeps the types of the reading thread's variables, the shared flags and the queue.*)
(***************************************************************************)
LEMMA ReaderTypesPreserved ==
  ASSUME TypeOK, [Next]_vars
  PROVE  ReaderTypes'
  <1> USE DEF TypeOK, ReaderTypes
  <1>1. CASE ReadCommand
    BY <1>1, AgentAssumption DEF ReadCommand, workerVars, connectVars, playVars, storeVars,
       adapterVars
  <1>2. CASE InputEnds
    BY <1>2 DEF InputEnds, workerVars, connectVars, playVars, storeVars, adapterVars
  <1>3. CASE Reader
    <2>1. CASE Enqueue
      BY <2>1, Stampable DEF Enqueue, workerVars, connectVars, playVars, storeVars,
         adapterVars
    <2>2. CASE RaiseEpoch
      BY <2>2 DEF RaiseEpoch, workerVars, connectVars, playVars, storeVars, adapterVars
    <2>3. CASE EofEpoch
      BY <2>3 DEF EofEpoch, workerVars, connectVars, playVars, storeVars, adapterVars
    <2>4. CASE LowerPlaying \/ RaiseInterrupt \/ EofPlaying \/ EofInterrupt
      BY <2>4 DEF LowerPlaying, RaiseInterrupt, EofPlaying, EofInterrupt, workerVars,
         connectVars, playVars, storeVars, adapterVars
    <2>5. QED BY <1>3, <2>1, <2>2, <2>3, <2>4 DEF Reader
  <1>4. CASE ShortCommand
    <2>1. CASE Dequeue
      BY <2>1 DEF Dequeue, Move, readerVars, connectVars, playVars, storeVars, adapterVars
    <2>2. CASE Disconnect \/ Forget \/ AdapterOff \/ AdapterOn \/ ScanBegins \/
               ScanEnds \/ Exit
      BY <2>2 DEF Disconnect, Forget, AdapterOff, AdapterOn, ScanBegins, ScanEnds, Exit,
         Move, Finish, FreshLocals, LetGo, LetGoAndClose, Hangup, Severed, Reopen,
         sharedVars, commandVars, readerVars, connectVars, playVars, storeVars, adapterVars
    <2>3. QED BY <1>4, <2>1, <2>2 DEF ShortCommand
  <1>5. CASE Connecting
    BY <1>5 DEF Connecting, ClearInterrupt, LoadEpoch, LoopEnds, LoopContinues, TargetFound,
       WindowOpens, WindowFails, LinkUp, SetupFails, Hold, Move, Finish, FreshLocals,
       Hangup, Severed, Reopen, Searched, quietVars, sharedVars, commandVars, readerVars,
       connectVars, playVars, storeVars, adapterVars
  <1>6. CASE Playing
    BY <1>6 DEF Playing, PlayEndsEarly, StartAudio, RaisePlaying, AudioStops, AudioLost,
       AudioEnded, LossSeenAfter, AfterPlay, RecoveryStops, RecoveryLost, WaitSound,
       QuietStops, QuietLost, PlayFailed, Move, LetGo, Hangup, Severed, Audio, Recovering,
       Retryable, quietVars, sharedVars, commandVars, readerVars, connectVars, playVars,
       storeVars, adapterVars
  <1>7. CASE Between
    BY <1>7 DEF Between, Returned, AttemptFailed, WaitCancelled, WaitOver, Move, Finish,
       FreshLocals, Hangup, Severed, quietVars, sharedVars, commandVars, readerVars,
       connectVars, playVars, storeVars, adapterVars
  <1>8. CASE Chance
    BY <1>8 DEF Chance, TargetFails, AudioEnds, RecoveryEnds, QuietEnds, AclLost, Move,
       Finish, FreshLocals, Reopen, Audio, Searched, quietVars, sharedVars, commandVars,
       readerVars, connectVars, playVars, storeVars, adapterVars
  <1>9. CASE UNCHANGED vars
    BY <1>9 DEF vars, readerVars, connectVars, playVars, storeVars, adapterVars
  <1>10. QED BY <1>1, <1>2, <1>3, <1>4, <1>5, <1>6, <1>7, <1>8, <1>9 DEF Next, Forced

(***************************************************************************)
(* Every step keeps the types of what the worker holds, runs and stores.   *)
(***************************************************************************)
LEMMA WorkerTypesPreserved ==
  ASSUME TypeOK, [Next]_vars
  PROVE  WorkerTypes'
  <1> USE DEF TypeOK, WorkerTypes
  <1>1. CASE ReadCommand
    BY <1>1 DEF ReadCommand, workerVars, connectVars, playVars, storeVars, adapterVars
  <1>2. CASE InputEnds
    BY <1>2 DEF InputEnds, workerVars, connectVars, playVars, storeVars, adapterVars
  <1>3. CASE Reader
    BY <1>3 DEF Reader, LowerPlaying, RaiseInterrupt, RaiseEpoch, Enqueue, EofEpoch,
       EofPlaying, EofInterrupt, workerVars, connectVars, playVars, storeVars, adapterVars
  <1>4. CASE ShortCommand
    <2>1. CASE Dequeue
      BY <2>1, StampedFields DEF Dequeue, Move, readerVars, connectVars, playVars,
         storeVars, adapterVars, InConnect, ReaderTypes
    <2>2. CASE Disconnect \/ Forget \/ AdapterOff \/ AdapterOn \/ ScanBegins \/
               ScanEnds \/ Exit
      BY <2>2 DEF Disconnect, Forget, AdapterOff, AdapterOn, ScanBegins, ScanEnds, Exit,
         Move, Finish, FreshLocals, LetGo, LetGoAndClose, Hangup, Severed, Reopen,
         sharedVars, commandVars, readerVars, connectVars, playVars, storeVars, adapterVars,
         InConnect
    <2>3. QED BY <1>4, <2>1, <2>2 DEF ShortCommand
  <1>5. CASE Connecting
    BY <1>5, NamesDevice DEF Connecting, ClearInterrupt, LoadEpoch, LoopEnds, LoopContinues,
       TargetFound, WindowOpens, WindowFails, LinkUp, SetupFails, Hold, Move, Finish,
       FreshLocals, Hangup, Severed, Reopen, Searched, quietVars, sharedVars, commandVars,
       readerVars, connectVars, playVars, storeVars, adapterVars, InConnect, Nothing
  <1>6. CASE Playing
    BY <1>6 DEF Playing, PlayEndsEarly, StartAudio, RaisePlaying, AudioStops, AudioLost,
       AudioEnded, LossSeenAfter, AfterPlay, RecoveryStops, RecoveryLost, WaitSound,
       QuietStops, QuietLost, PlayFailed, Move, LetGo, Hangup, Severed, Audio, Recovering,
       Retryable, quietVars, sharedVars, commandVars, readerVars, connectVars, playVars,
       storeVars, adapterVars, InConnect
  <1>7. CASE Between
    BY <1>7 DEF Between, Returned, AttemptFailed, WaitCancelled, WaitOver, Move, Finish,
       FreshLocals, Hangup, Severed, quietVars, sharedVars, commandVars, readerVars,
       connectVars, playVars, storeVars, adapterVars, InConnect
  <1>8. CASE Chance
    BY <1>8 DEF Chance, TargetFails, AudioEnds, RecoveryEnds, QuietEnds, AclLost, Move,
       Finish, FreshLocals, Reopen, Audio, Searched, quietVars, sharedVars, commandVars,
       readerVars, connectVars, playVars, storeVars, adapterVars, InConnect
  <1>9. CASE UNCHANGED vars
    BY <1>9 DEF vars, readerVars, connectVars, playVars, storeVars, adapterVars
  <1>10. QED BY <1>1, <1>2, <1>3, <1>4, <1>5, <1>6, <1>7, <1>8, <1>9 DEF Next, Forced

(***************************************************************************)
(* Every step keeps the types of the locals of connect and play.           *)
(***************************************************************************)
LEMMA LocalTypesPreserved ==
  ASSUME TypeOK, [Next]_vars
  PROVE  LocalTypes'
  <1> USE DEF TypeOK, LocalTypes
  <1>1. CASE ReadCommand
    BY <1>1 DEF ReadCommand, workerVars, connectVars, playVars, storeVars, adapterVars
  <1>2. CASE InputEnds
    BY <1>2 DEF InputEnds, workerVars, connectVars, playVars, storeVars, adapterVars
  <1>3. CASE Reader
    BY <1>3 DEF Reader, LowerPlaying, RaiseInterrupt, RaiseEpoch, Enqueue, EofEpoch,
       EofPlaying, EofInterrupt, workerVars, connectVars, playVars, storeVars, adapterVars
  <1>4. CASE ShortCommand
    BY <1>4 DEF ShortCommand, Dequeue, Disconnect, Forget, AdapterOff, AdapterOn,
       ScanBegins, ScanEnds, Exit, Move, Finish, FreshLocals, LetGo, LetGoAndClose, Hangup,
       Severed, Reopen, sharedVars, commandVars, readerVars, connectVars, playVars,
       storeVars, adapterVars
  <1>5. CASE Connecting
    <2>1. CASE LoadEpoch
      BY <2>1 DEF LoadEpoch, Move, quietVars, readerVars, playVars, storeVars, adapterVars,
         ReaderTypes
    <2>2. CASE ClearInterrupt \/ LoopEnds \/ LoopContinues \/ TargetFound \/
               WindowOpens \/ WindowFails \/ LinkUp \/ SetupFails \/ Hold
      BY <2>2 DEF ClearInterrupt, LoopEnds, LoopContinues, TargetFound, WindowOpens,
         WindowFails, LinkUp, SetupFails, Hold, Move, Finish, FreshLocals, Hangup, Severed,
         Reopen, Searched, quietVars, sharedVars, commandVars, readerVars, connectVars,
         playVars, storeVars, adapterVars
    <2>3. QED BY <1>5, <2>1, <2>2 DEF Connecting
  <1>6. CASE Playing
    BY <1>6 DEF Playing, PlayEndsEarly, StartAudio, RaisePlaying, AudioStops, AudioLost,
       AudioEnded, LossSeenAfter, AfterPlay, RecoveryStops, RecoveryLost, WaitSound,
       QuietStops, QuietLost, PlayFailed, Move, LetGo, Hangup, Severed, Audio, Recovering,
       Retryable, quietVars, sharedVars, commandVars, readerVars, connectVars, playVars,
       storeVars, adapterVars
  <1>7. CASE Between
    BY <1>7 DEF Between, Returned, AttemptFailed, WaitCancelled, WaitOver, Move, Finish,
       FreshLocals, Hangup, Severed, quietVars, sharedVars, commandVars, readerVars,
       connectVars, playVars, storeVars, adapterVars
  <1>8. CASE Chance
    BY <1>8 DEF Chance, TargetFails, AudioEnds, RecoveryEnds, QuietEnds, AclLost, Move,
       Finish, FreshLocals, Reopen, Audio, Searched, quietVars, sharedVars, commandVars,
       readerVars, connectVars, playVars, storeVars, adapterVars
  <1>9. CASE UNCHANGED vars
    BY <1>9 DEF vars, readerVars, connectVars, playVars, storeVars, adapterVars
  <1>10. QED BY <1>1, <1>2, <1>3, <1>4, <1>5, <1>6, <1>7, <1>8, <1>9 DEF Next, Forced

(***************************************************************************)
(* Every step keeps the types of its Boolean locals.                       *)
(***************************************************************************)
LEMMA FlagTypesPreserved ==
  ASSUME TypeOK, [Next]_vars
  PROVE  FlagTypes'
  <1> USE DEF TypeOK, FlagTypes
  <1>1. CASE ReadCommand
    BY <1>1 DEF ReadCommand, workerVars, connectVars, playVars, storeVars, adapterVars
  <1>2. CASE InputEnds
    BY <1>2 DEF InputEnds, workerVars, connectVars, playVars, storeVars, adapterVars
  <1>3. CASE Reader
    BY <1>3 DEF Reader, LowerPlaying, RaiseInterrupt, RaiseEpoch, Enqueue, EofEpoch,
       EofPlaying, EofInterrupt, workerVars, connectVars, playVars, storeVars, adapterVars
  <1>4. CASE ShortCommand
    BY <1>4 DEF ShortCommand, Dequeue, Disconnect, Forget, AdapterOff, AdapterOn,
       ScanBegins, ScanEnds, Exit, Move, Finish, FreshLocals, LetGo, LetGoAndClose, Hangup,
       Severed, Reopen, sharedVars, commandVars, readerVars, connectVars, playVars,
       storeVars, adapterVars
  <1>5. CASE Connecting
    <2>1. CASE ClearInterrupt
      BY <2>1, StampedConsent DEF ClearInterrupt, Move, quietVars, readerVars, playVars,
         storeVars, adapterVars, WorkerTypes, InConnect, Nothing
    <2>2. CASE LoadEpoch \/ LoopEnds \/ LoopContinues \/ TargetFound \/ WindowOpens \/
               WindowFails \/ LinkUp \/ SetupFails \/ Hold
      BY <2>2 DEF LoadEpoch, LoopEnds, LoopContinues, TargetFound, WindowOpens, WindowFails,
         LinkUp, SetupFails, Hold, Move, Finish, FreshLocals, Hangup, Severed, Reopen,
         Searched, quietVars, sharedVars, commandVars, readerVars, connectVars, playVars,
         storeVars, adapterVars
    <2>3. QED BY <1>5, <2>1, <2>2 DEF Connecting
  <1>6. CASE Playing
    BY <1>6 DEF Playing, PlayEndsEarly, StartAudio, RaisePlaying, AudioStops, AudioLost,
       AudioEnded, LossSeenAfter, AfterPlay, RecoveryStops, RecoveryLost, WaitSound,
       QuietStops, QuietLost, PlayFailed, Move, LetGo, Hangup, Severed, Audio, Recovering,
       Retryable, quietVars, sharedVars, commandVars, readerVars, connectVars, playVars,
       storeVars, adapterVars
  <1>7. CASE Between
    BY <1>7 DEF Between, Returned, AttemptFailed, WaitCancelled, WaitOver, Move, Finish,
       FreshLocals, Hangup, Severed, quietVars, sharedVars, commandVars, readerVars,
       connectVars, playVars, storeVars, adapterVars
  <1>8. CASE Chance
    BY <1>8 DEF Chance, TargetFails, AudioEnds, RecoveryEnds, QuietEnds, AclLost, Move,
       Finish, FreshLocals, Reopen, Audio, Searched, quietVars, sharedVars, commandVars,
       readerVars, connectVars, playVars, storeVars, adapterVars
  <1>9. CASE UNCHANGED vars
    BY <1>9 DEF vars, readerVars, connectVars, playVars, storeVars, adapterVars
  <1>10. QED BY <1>1, <1>2, <1>3, <1>4, <1>5, <1>6, <1>7, <1>8, <1>9 DEF Next, Forced

(***************************************************************************)
(* Every step keeps the types of the adapter and its links.                *)
(***************************************************************************)
LEMMA AdapterTypesPreserved ==
  ASSUME TypeOK, [Next]_vars
  PROVE  AdapterTypes'
  <1> USE DEF TypeOK, AdapterTypes
  <1>1. CASE ReadCommand
    BY <1>1 DEF ReadCommand, workerVars, connectVars, playVars, storeVars, adapterVars
  <1>2. CASE InputEnds
    BY <1>2 DEF InputEnds, workerVars, connectVars, playVars, storeVars, adapterVars
  <1>3. CASE Reader
    BY <1>3 DEF Reader, LowerPlaying, RaiseInterrupt, RaiseEpoch, Enqueue, EofEpoch,
       EofPlaying, EofInterrupt, workerVars, connectVars, playVars, storeVars, adapterVars
  <1>4. CASE ShortCommand
    BY <1>4 DEF ShortCommand, Dequeue, Disconnect, Forget, AdapterOff, AdapterOn,
       ScanBegins, ScanEnds, Exit, Move, Finish, FreshLocals, LetGo, LetGoAndClose, Hangup,
       Severed, Reopen, sharedVars, commandVars, readerVars, connectVars, playVars,
       storeVars, adapterVars
  <1>5. CASE Connecting
    BY <1>5 DEF Connecting, ClearInterrupt, LoadEpoch, LoopEnds, LoopContinues, TargetFound,
       WindowOpens, WindowFails, LinkUp, SetupFails, Hold, Move, Finish, FreshLocals,
       Hangup, Severed, Reopen, Searched, quietVars, sharedVars, commandVars, readerVars,
       connectVars, playVars, storeVars, adapterVars
  <1>6. CASE Playing
    BY <1>6 DEF Playing, PlayEndsEarly, StartAudio, RaisePlaying, AudioStops, AudioLost,
       AudioEnded, LossSeenAfter, AfterPlay, RecoveryStops, RecoveryLost, WaitSound,
       QuietStops, QuietLost, PlayFailed, Move, LetGo, Hangup, Severed, Audio, Recovering,
       Retryable, quietVars, sharedVars, commandVars, readerVars, connectVars, playVars,
       storeVars, adapterVars
  <1>7. CASE Between
    BY <1>7 DEF Between, Returned, AttemptFailed, WaitCancelled, WaitOver, Move, Finish,
       FreshLocals, Hangup, Severed, quietVars, sharedVars, commandVars, readerVars,
       connectVars, playVars, storeVars, adapterVars
  <1>8. CASE Chance
    BY <1>8 DEF Chance, TargetFails, AudioEnds, RecoveryEnds, QuietEnds, AclLost, Move,
       Finish, FreshLocals, Reopen, Audio, Searched, quietVars, sharedVars, commandVars,
       readerVars, connectVars, playVars, storeVars, adapterVars
  <1>9. CASE UNCHANGED vars
    BY <1>9 DEF vars, readerVars, connectVars, playVars, storeVars, adapterVars
  <1>10. QED BY <1>1, <1>2, <1>3, <1>4, <1>5, <1>6, <1>7, <1>8, <1>9 DEF Next, Forced

(***************************************************************************)
(* The agent starts with every variable of its type, and every step keeps  *)
(* it so.                                                                  *)
(***************************************************************************)
THEOREM TypeCorrect == Spec => []TypeOK
  <1>1. ASSUME Init PROVE TypeOK
    <2>1. ReaderTypes
      <3>1. sent \in 0..MaxCommands
        BY <1>1, AgentAssumption DEF Init
      <3>2. queue \in Seq(Stamped(Nat)) /\ epoch \in Nat
        BY <1>1 DEF Init
      <3>3. QED BY <1>1, <3>1, <3>2 DEF Init, ReaderTypes
    <2>2. WorkerTypes
      BY <1>1, AgentAssumption DEF Init, WorkerTypes, InConnect
    <2>3. LocalTypes
      BY <1>1 DEF Init, LocalTypes
    <2>4. FlagTypes /\ AdapterTypes
      BY <1>1 DEF Init, FlagTypes, AdapterTypes
    <2>5. QED BY <2>1, <2>2, <2>3, <2>4 DEF TypeOK
  <1>2. TypeOK /\ [Next]_vars => TypeOK'
    BY ReaderTypesPreserved, WorkerTypesPreserved, LocalTypesPreserved, FlagTypesPreserved,
       AdapterTypesPreserved DEF TypeOK
  <1>3. QED BY <1>1, <1>2, PTL DEF Spec
-----------------------------------------------------------------------------
(* The safety invariants. *)

(***************************************************************************)
(* No step lets a held device lose its bond: connect holds a device it has *)
(* just bonded, and unpairing lets go of it first.                         *)
(***************************************************************************)
LEMMA HeldIsBondedPreserved ==
  ASSUME TypeOK, HeldIsBonded, [Next]_vars
  PROVE  HeldIsBonded'
  <1> USE DEF TypeOK, WorkerTypes, HeldIsBonded
  <1>1. CASE ReadCommand
    BY <1>1 DEF ReadCommand, workerVars, connectVars, playVars, storeVars, adapterVars
  <1>2. CASE InputEnds
    BY <1>2 DEF InputEnds, workerVars, connectVars, playVars, storeVars, adapterVars
  <1>3. CASE Reader
    BY <1>3 DEF Reader, LowerPlaying, RaiseInterrupt, RaiseEpoch, Enqueue, EofEpoch,
       EofPlaying, EofInterrupt, workerVars, connectVars, playVars, storeVars, adapterVars
  <1>4. CASE ShortCommand
    BY <1>4 DEF ShortCommand, Dequeue, Disconnect, Forget, AdapterOff, AdapterOn,
       ScanBegins, ScanEnds, Exit, Move, Finish, FreshLocals, LetGo, LetGoAndClose, Hangup,
       Severed, Reopen, sharedVars, commandVars, readerVars, connectVars, playVars,
       storeVars, adapterVars
  <1>5. CASE Connecting
    BY <1>5 DEF Connecting, ClearInterrupt, LoadEpoch, LoopEnds, LoopContinues, TargetFound,
       WindowOpens, WindowFails, LinkUp, SetupFails, Hold, Move, Finish, FreshLocals,
       Hangup, Severed, Reopen, Searched, quietVars, sharedVars, commandVars, readerVars,
       connectVars, playVars, storeVars, adapterVars
  <1>6. CASE Playing
    BY <1>6 DEF Playing, PlayEndsEarly, StartAudio, RaisePlaying, AudioStops, AudioLost,
       AudioEnded, LossSeenAfter, AfterPlay, RecoveryStops, RecoveryLost, WaitSound,
       QuietStops, QuietLost, PlayFailed, Move, LetGo, Hangup, Severed, Audio, Recovering,
       Retryable, quietVars, sharedVars, commandVars, readerVars, connectVars, playVars,
       storeVars, adapterVars
  <1>7. CASE Between
    BY <1>7 DEF Between, Returned, AttemptFailed, WaitCancelled, WaitOver, Move, Finish,
       FreshLocals, Hangup, Severed, quietVars, sharedVars, commandVars, readerVars,
       connectVars, playVars, storeVars, adapterVars
  <1>8. CASE Chance
    BY <1>8 DEF Chance, TargetFails, AudioEnds, RecoveryEnds, QuietEnds, AclLost, Move,
       Finish, FreshLocals, Reopen, Audio, Searched, quietVars, sharedVars, commandVars,
       readerVars, connectVars, playVars, storeVars, adapterVars
  <1>9. CASE UNCHANGED vars
    BY <1>9 DEF vars, readerVars, connectVars, playVars, storeVars, adapterVars
  <1>10. QED BY <1>1, <1>2, <1>3, <1>4, <1>5, <1>6, <1>7, <1>8, <1>9 DEF Next, Forced

(***************************************************************************)
(* Every step that leaves playback lowers the flag, and the flag is raised *)
(* only by a step that enters it.                                          *)
(***************************************************************************)
LEMMA PlayingMeansAudioPreserved ==
  ASSUME TypeOK, PlayingMeansAudio, [Next]_vars
  PROVE  PlayingMeansAudio'
  <1> USE DEF TypeOK, WorkerTypes, PlayingMeansAudio
  <1>1. CASE ReadCommand
    BY <1>1 DEF ReadCommand, workerVars, connectVars, playVars, storeVars, adapterVars
  <1>2. CASE InputEnds
    BY <1>2 DEF InputEnds, workerVars, connectVars, playVars, storeVars, adapterVars
  <1>3. CASE Reader
    BY <1>3 DEF Reader, LowerPlaying, RaiseInterrupt, RaiseEpoch, Enqueue, EofEpoch,
       EofPlaying, EofInterrupt, workerVars, connectVars, playVars, storeVars, adapterVars
  <1>4. CASE ShortCommand
    BY <1>4 DEF ShortCommand, Dequeue, Disconnect, Forget, AdapterOff, AdapterOn,
       ScanBegins, ScanEnds, Exit, Move, Finish, FreshLocals, LetGo, LetGoAndClose, Hangup,
       Severed, Reopen, sharedVars, commandVars, readerVars, connectVars, playVars,
       storeVars, adapterVars
  <1>5. CASE Connecting
    BY <1>5 DEF Connecting, ClearInterrupt, LoadEpoch, LoopEnds, LoopContinues, TargetFound,
       WindowOpens, WindowFails, LinkUp, SetupFails, Hold, Move, Finish, FreshLocals,
       Hangup, Severed, Reopen, Searched, quietVars, sharedVars, commandVars, readerVars,
       connectVars, playVars, storeVars, adapterVars
  <1>6. CASE Playing
    BY <1>6 DEF Playing, PlayEndsEarly, StartAudio, RaisePlaying, AudioStops, AudioLost,
       AudioEnded, LossSeenAfter, AfterPlay, RecoveryStops, RecoveryLost, WaitSound,
       QuietStops, QuietLost, PlayFailed, Move, LetGo, Hangup, Severed, Audio, Recovering,
       Retryable, quietVars, sharedVars, commandVars, readerVars, connectVars, playVars,
       storeVars, adapterVars
  <1>7. CASE Between
    BY <1>7 DEF Between, Returned, AttemptFailed, WaitCancelled, WaitOver, Move, Finish,
       FreshLocals, Hangup, Severed, quietVars, sharedVars, commandVars, readerVars,
       connectVars, playVars, storeVars, adapterVars
  <1>8. CASE Chance
    BY <1>8 DEF Chance, TargetFails, AudioEnds, RecoveryEnds, QuietEnds, AclLost, Move,
       Finish, FreshLocals, Reopen, Audio, Searched, quietVars, sharedVars, commandVars,
       readerVars, connectVars, playVars, storeVars, adapterVars
  <1>9. CASE UNCHANGED vars
    BY <1>9 DEF vars, readerVars, connectVars, playVars, storeVars, adapterVars
  <1>10. QED BY <1>1, <1>2, <1>3, <1>4, <1>5, <1>6, <1>7, <1>8, <1>9 DEF Next, Forced

(***************************************************************************)
(* The link that run_audio found lost stays lost until it is released.     *)
(***************************************************************************)
LEMMA LostIsDownPreserved ==
  ASSUME TypeOK, LostIsDown, [Next]_vars
  PROVE  LostIsDown'
  <1> USE DEF TypeOK, WorkerTypes, AdapterTypes, LostIsDown
  <1>1. CASE ReadCommand
    BY <1>1 DEF ReadCommand, workerVars, connectVars, playVars, storeVars, adapterVars
  <1>2. CASE InputEnds
    BY <1>2 DEF InputEnds, workerVars, connectVars, playVars, storeVars, adapterVars
  <1>3. CASE Reader
    BY <1>3 DEF Reader, LowerPlaying, RaiseInterrupt, RaiseEpoch, Enqueue, EofEpoch,
       EofPlaying, EofInterrupt, workerVars, connectVars, playVars, storeVars, adapterVars
  <1>4. CASE ShortCommand
    BY <1>4, StampedFields DEF ShortCommand, Dequeue, Disconnect, Forget, AdapterOff,
       AdapterOn, ScanBegins, ScanEnds, Exit, Move, Finish, FreshLocals, LetGo,
       LetGoAndClose, Hangup, Severed, Reopen, sharedVars, commandVars, readerVars,
       connectVars, playVars, storeVars, adapterVars, ReaderTypes
  <1>5. CASE Connecting
    BY <1>5 DEF Connecting, ClearInterrupt, LoadEpoch, LoopEnds, LoopContinues, TargetFound,
       WindowOpens, WindowFails, LinkUp, SetupFails, Hold, Move, Finish, FreshLocals,
       Hangup, Severed, Reopen, Searched, quietVars, sharedVars, commandVars, readerVars,
       connectVars, playVars, storeVars, adapterVars
  <1>6. CASE Playing
    BY <1>6 DEF Playing, PlayEndsEarly, StartAudio, RaisePlaying, AudioStops, AudioLost,
       AudioEnded, LossSeenAfter, AfterPlay, RecoveryStops, RecoveryLost, WaitSound,
       QuietStops, QuietLost, PlayFailed, Move, LetGo, Hangup, Severed, Audio, Recovering,
       Retryable, quietVars, sharedVars, commandVars, readerVars, connectVars, playVars,
       storeVars, adapterVars
  <1>7. CASE Between
    BY <1>7 DEF Between, Returned, AttemptFailed, WaitCancelled, WaitOver, Move, Finish,
       FreshLocals, Hangup, Severed, quietVars, sharedVars, commandVars, readerVars,
       connectVars, playVars, storeVars, adapterVars
  <1>8. CASE Chance
    BY <1>8 DEF Chance, TargetFails, AudioEnds, RecoveryEnds, QuietEnds, AclLost, Move,
       Finish, FreshLocals, Reopen, Audio, Searched, quietVars, sharedVars, commandVars,
       readerVars, connectVars, playVars, storeVars, adapterVars
  <1>9. CASE UNCHANGED vars
    BY <1>9 DEF vars, readerVars, connectVars, playVars, storeVars, adapterVars
  <1>10. QED BY <1>1, <1>2, <1>3, <1>4, <1>5, <1>6, <1>7, <1>8, <1>9 DEF Next, Forced

(***************************************************************************)
(* What the worker holds is bonded, and playing means audio is running or  *)
(* awaited, in every reachable state.                                      *)
(***************************************************************************)
THEOREM Invariance == Spec => []IInv
  <1>1. Init => HeldIsBonded /\ PlayingMeansAudio /\ LostIsDown
    BY DEF Init, HeldIsBonded, PlayingMeansAudio, LostIsDown
  <1>2. IInv /\ [Next]_vars => (HeldIsBonded /\ PlayingMeansAudio /\ LostIsDown)'
    BY HeldIsBondedPreserved, PlayingMeansAudioPreserved, LostIsDownPreserved DEF IInv
  <1>3. QED BY <1>1, <1>2, TypeCorrect, PTL DEF Spec, IInv

(***************************************************************************)
(* The device the worker holds always has a bond.                          *)
(***************************************************************************)
THEOREM HeldDeviceBonded == Spec => []HeldIsBonded
  BY Invariance, PTL DEF IInv

(***************************************************************************)
(* The playing flag is raised only while audio runs or is awaited.         *)
(***************************************************************************)
THEOREM FlagMeansAudio == Spec => []PlayingMeansAudio
  BY Invariance, PTL DEF IInv
-----------------------------------------------------------------------------
(* Links left behind. *)

(***************************************************************************)
(* A step that leaves a link standing that the worker does not hold is one *)
(* that holds another device instead. The rest either keep what they hold, *)
(* hang up, find the link already down, or close the adapter.              *)
(***************************************************************************)
LEMMA LinksKept ==
  ASSUME IInv, [Next]_vars, NEW d \in Device, Ghost(d)', ~Ghost(d)
  PROVE  held = d /\ held' \in Device \ {d}
  <1> USE DEF IInv, TypeOK, WorkerTypes, AdapterTypes, LostIsDown, Ghost
  <1>1. CASE ReadCommand
    BY <1>1 DEF ReadCommand, workerVars, connectVars, playVars, storeVars, adapterVars
  <1>2. CASE InputEnds
    BY <1>2 DEF InputEnds, workerVars, connectVars, playVars, storeVars, adapterVars
  <1>3. CASE Reader
    BY <1>3 DEF Reader, LowerPlaying, RaiseInterrupt, RaiseEpoch, Enqueue, EofEpoch,
       EofPlaying, EofInterrupt, workerVars, connectVars, playVars, storeVars, adapterVars
  <1>4. CASE ShortCommand
    BY <1>4 DEF ShortCommand, Dequeue, Disconnect, Forget, AdapterOff, AdapterOn,
       ScanBegins, ScanEnds, Exit, Move, Finish, FreshLocals, LetGo, LetGoAndClose, Hangup,
       Severed, Reopen, sharedVars, commandVars, readerVars, connectVars, playVars,
       storeVars, adapterVars, InConnect
  <1>5. CASE Connecting
    <2>1. CASE LinkUp
      BY <2>1 DEF LinkUp, Move, sharedVars, commandVars, readerVars, connectVars, playVars,
         storeVars, InConnect
    <2>2. CASE SetupFails
      BY <2>2, AgentAssumption DEF SetupFails, Move, Hangup, Severed, sharedVars,
         commandVars, readerVars, connectVars, playVars, InConnect
    <2>3. CASE Hold
      <3>1. cur.dev \in Device
        BY <2>3, NamesDevice DEF Hold, InConnect, Nothing
      <3>2. QED BY <2>3, <3>1, AgentAssumption DEF Hold, Move, sharedVars, commandVars, connectVars,
         playVars, adapterVars
    <2>4. CASE ClearInterrupt \/ LoadEpoch \/ LoopEnds \/ LoopContinues \/ TargetFound \/
               WindowOpens \/ WindowFails
      BY <2>4 DEF ClearInterrupt, LoadEpoch, LoopEnds, LoopContinues, TargetFound,
         WindowOpens, WindowFails, Move, Finish, FreshLocals, Reopen, Searched, quietVars,
         sharedVars, commandVars, readerVars, connectVars, playVars, storeVars, adapterVars,
         InConnect
    <2>5. QED BY <1>5, <2>1, <2>2, <2>3, <2>4 DEF Connecting
  <1>6. CASE Playing
    BY <1>6 DEF Playing, PlayEndsEarly, StartAudio, RaisePlaying, AudioStops, AudioLost,
       AudioEnded, LossSeenAfter, AfterPlay, RecoveryStops, RecoveryLost, WaitSound,
       QuietStops, QuietLost, PlayFailed, Move, LetGo, Hangup, Severed, Audio, Recovering,
       Retryable, quietVars, sharedVars, commandVars, readerVars, connectVars, playVars,
       storeVars, adapterVars, InConnect
  <1>7. CASE Between
    BY <1>7 DEF Between, Returned, AttemptFailed, WaitCancelled, WaitOver, Move, Finish,
       FreshLocals, Hangup, Severed, quietVars, sharedVars, commandVars, readerVars,
       connectVars, playVars, storeVars, adapterVars, InConnect
  <1>8. CASE Chance
    BY <1>8 DEF Chance, TargetFails, AudioEnds, RecoveryEnds, QuietEnds, AclLost, Move,
       Finish, FreshLocals, Reopen, Audio, Searched, quietVars, sharedVars, commandVars,
       readerVars, connectVars, playVars, storeVars, adapterVars, InConnect
  <1>9. CASE UNCHANGED vars
    BY <1>9 DEF vars, readerVars, connectVars, playVars, storeVars, adapterVars
  <1>10. QED BY <1>1, <1>2, <1>3, <1>4, <1>5, <1>6, <1>7, <1>8, <1>9 DEF Next, Forced

(***************************************************************************)
(* Only holding another device in place of this one leaves a link behind.  *)
(***************************************************************************)
THEOREM GhostsExplained == Spec => GhostOnlyByReplacement
  <1>1. IInv /\ [Next]_vars
          => [\A d \in Device : Ghost(d)' /\ ~Ghost(d) => held = d /\ held' \in Device \ {d}]_vars
    BY LinksKept
  <1>2. QED BY <1>1, Invariance, PTL DEF Spec, GhostOnlyByReplacement
-----------------------------------------------------------------------------
(* Stops have a cause. *)

(***************************************************************************)
(* Something accepted is on its way to the worker, or the input is closed. *)
(***************************************************************************)
OnItsWay == queue # <<>> \/ rpc # "read"

\* ClearInterrupt and RaisePlaying leave nothing of what was served before.
Caused ==
    /\ wpc \in InConnect /\ interrupt => OnItsWay
    /\ wpc = "audio" /\ ~playing => OnItsWay

\* Within connect nothing is taken from the queue, and accepting a command
\* ends with putting it there.
LEMMA CausedPreserved ==
  ASSUME TypeOK, Caused, [Next]_vars
  PROVE  Caused'
  <1> USE DEF Caused, OnItsWay
  <1>1. CASE ReadCommand
    BY <1>1 DEF ReadCommand
  <1>2. CASE InputEnds
    BY <1>2 DEF InputEnds
  <1>3. CASE Reader
    <2>1. CASE Enqueue
      <3>1. queue \in Seq(Stamped(Nat)) /\ queue' # <<>>
        BY <2>1 DEF Enqueue, TypeOK, ReaderTypes
      <3>2. QED BY <3>1
    <2>2. CASE LowerPlaying \/ RaiseInterrupt \/ RaiseEpoch
      BY <2>2 DEF LowerPlaying, RaiseInterrupt, RaiseEpoch
    <2>3. CASE EofEpoch \/ EofPlaying \/ EofInterrupt
      BY <2>3 DEF EofEpoch, EofPlaying, EofInterrupt
    <2>4. QED BY <1>3, <2>1, <2>2, <2>3 DEF Reader
  <1>4. CASE ShortCommand
    <2>1. CASE Dequeue
      <3>1. wpc' \notin InConnect
        BY <2>1, StampedFields DEF Dequeue, Move, TypeOK, ReaderTypes, InConnect
      <3>2. QED BY <3>1 DEF InConnect
    <2>2. CASE Disconnect \/ Forget \/ AdapterOff \/ AdapterOn \/ ScanBegins \/
               ScanEnds \/ Exit
      <3>1. wpc' \notin InConnect
        BY <2>2 DEF Disconnect, Forget, AdapterOff, AdapterOn, ScanBegins, ScanEnds, Exit,
           Move, Finish, InConnect
      <3>2. QED BY <3>1 DEF InConnect
    <2>3. QED BY <1>4, <2>1, <2>2 DEF ShortCommand
  <1>5. CASE Connecting
    BY <1>5 DEF Connecting, ClearInterrupt, LoadEpoch, LoopEnds, LoopContinues, TargetFound,
       WindowOpens, WindowFails, LinkUp, SetupFails, Hold, Move, Finish,
       quietVars, sharedVars, readerVars, InConnect
  <1>6. CASE Playing
    <2>1. CASE RaisePlaying
      BY <2>1, Zenon DEF RaisePlaying, Move, sharedVars, readerVars, InConnect
    <2>2. CASE PlayEndsEarly \/ StartAudio \/ AudioStops \/ AudioLost
               \/ AudioEnded \/ LossSeenAfter \/ AfterPlay \/ RecoveryStops \/ RecoveryLost
               \/ WaitSound \/ QuietStops \/ QuietLost \/ PlayFailed
      <3>1. wpc' # "audio" /\ wpc \in InConnect /\ UNCHANGED <<interrupt, queue, rpc>>
        BY <2>2 DEF PlayEndsEarly, StartAudio, AudioStops, AudioLost,
           AudioEnded, LossSeenAfter, AfterPlay, RecoveryStops, RecoveryLost, WaitSound,
           QuietStops, QuietLost, PlayFailed, Move, Audio, Recovering,
           quietVars, sharedVars, readerVars, InConnect
      <3>2. QED BY <3>1
    <2>3. QED BY <1>6, <2>1, <2>2 DEF Playing
  <1>7. CASE Between
    BY <1>7 DEF Between, Returned, AttemptFailed, WaitCancelled, WaitOver, Move, Finish,
       quietVars, sharedVars, readerVars, InConnect
  <1>8. CASE Chance
    BY <1>8 DEF Chance, TargetFails, AudioEnds, RecoveryEnds, QuietEnds, AclLost, Move,
       Finish, Audio, quietVars, sharedVars, readerVars, InConnect
  <1>9. CASE UNCHANGED vars
    BY <1>9 DEF vars, readerVars
  <1>10. QED BY <1>1, <1>2, <1>3, <1>4, <1>5, <1>6, <1>7, <1>8, <1>9 DEF Next, Forced

(***************************************************************************)
(* Playback is never told to stop by what is left of an earlier command,   *)
(* however many commands come and wherever in connect they find the worker.*)
(***************************************************************************)
THEOREM StopsAreAskedFor == Spec => NoSpuriousStop
  <1>1. Init => Caused
    BY DEF Init, Caused, InConnect
  <1>2. TypeOK /\ Caused /\ [Next]_vars => Caused'
    BY CausedPreserved
  <1>3. ASSUME TypeOK, Caused, [Next]_vars
        PROVE  [wpc = "audio" /\ wpc' = "ended" /\ verdict' = "stopped" => Waiting # {}]_vars
    <2> SUFFICES ASSUME Next, wpc = "audio", wpc' = "ended", verdict' = "stopped"
                 PROVE  Waiting # {}
      BY <1>3
    <2>1. ShouldStop
      <3>1. CASE ReadCommand \/ InputEnds \/ Reader
        BY <3>1 DEF ReadCommand, InputEnds, Reader, LowerPlaying, RaiseInterrupt, RaiseEpoch,
           Enqueue, EofEpoch, EofPlaying, EofInterrupt, workerVars
      <3>2. CASE ShortCommand \/ Connecting \/ Between
        BY <3>2 DEF ShortCommand, Connecting, Between, Dequeue, Disconnect, Forget, AdapterOff,
           AdapterOn, ScanBegins, ScanEnds, Exit, ClearInterrupt, LoadEpoch, LoopEnds,
           LoopContinues, TargetFound, WindowOpens, WindowFails, LinkUp, SetupFails, Hold,
           Returned, AttemptFailed, WaitCancelled, WaitOver
      <3>3. CASE Playing
        BY <3>3 DEF Playing, PlayEndsEarly, StartAudio, RaisePlaying, AudioStops, AudioLost,
           AudioEnded, LossSeenAfter, AfterPlay, RecoveryStops, RecoveryLost, WaitSound,
           QuietStops, QuietLost, PlayFailed, Audio
      <3>4. CASE Chance
        BY <3>4 DEF Chance, TargetFails, AudioEnds, RecoveryEnds, QuietEnds, AclLost, Audio
      <3>5. QED BY <3>1, <3>2, <3>3, <3>4 DEF Next, Forced
    <2>2. OnItsWay
      BY <1>3, <2>1 DEF ShouldStop, Caused, InConnect
    <2>3. CASE rpc # "read"
      BY <2>3 DEF Waiting
    <2>4. CASE queue # <<>>
      <3>1. 1 \in DOMAIN queue
        BY <1>3, <2>4 DEF TypeOK, ReaderTypes
      <3>2. QED BY <3>1 DEF Waiting
    <2>5. QED BY <2>2, <2>3, <2>4 DEF OnItsWay
  <1>4. QED BY <1>1, <1>2, <1>3, TypeCorrect, PTL DEF Spec, NoSpuriousStop
=============================================================================
