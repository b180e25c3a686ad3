-------------------------- MODULE EndpointsProofs --------------------------
(***************************************************************************)
(* Proofs about Endpoints, for any plans and whatever the bounds on trouble*)
(* and rounds: every operation reaches endpoints that allow it and a       *)
(* rejection never ends a later attempt (OperationsFit), play leaves       *)
(* nothing behind (NothingLeft), and audio starts only with every endpoint *)
(* on its own open channel (EarsConfirmed).                                *)
(*                                                                         *)
(* The invariant has a part for each of the ways in which the agent's      *)
(* picture can differ from the peers': Flow, where it stands and what      *)
(* follows; Clean, what is not configured is handed back; Handles and      *)
(* Tracked, the channels and their ends; Confirming and States, the        *)
(* endpoints while nothing but the agent moves them; Off and Rejected, the *)
(* rejections that are still under way when an attempt ends.               *)
(*                                                                         *)
(* Each part has a lemma of its own, with a case for each action; actions  *)
(* that do not touch what a part speaks of share a case.  The flags        *)
(* (linked, slipped, ...) are used as truth values only and need no type.  *)
(***************************************************************************)
EXTENDS Endpoints, FiniteSetTheorems, SequenceTheorems, TLAPS

\* The values that the variables take.
AseStates == {"idle", "codec", "qos", "enabling", "streaming", "releasing"}
Ases == [state : AseStates, fits : BOOLEAN, ch : 0..2]
Operations == {"codec", "qos", "enable", "ready", "release"}
Notes == [op : Operations, ok : BOOLEAN, round : 0..1]
Reports == [ch : 1..2, kind : {"up", "failed", "closed"}]

\* A read-back that confirms the last endpoint starts the next step: never all are
\* confirmed.
AgentTypes ==
    /\ plan \in [Endpoint -> {"sink", "source"}]
    /\ confirmed \subseteq Endpoint /\ confirmed # Endpoint /\ asked \subseteq Endpoint
    /\ opcode \in Begun \cup {"none"} /\ notes \in Seq(Notes)
    /\ known \subseteq Channels /\ pending \subseteq Channels
    /\ round \in Nat /\ trouble \in Nat

HeadsetTypes == ase \in [Endpoint -> Ases] /\ air \in Seq(Notes)

ControllerTypes ==
    /\ waiting \subseteq Channels /\ open \subseteq Channels
    /\ closing \subseteq open \cup waiting
    /\ events \in Seq(Reports) /\ reported \in Seq(Reports)

TypeOK == AgentTypes /\ HeadsetTypes /\ ControllerTypes

-----------------------------------------------------------------------------
\* There are one or two channels, and every endpoint has one.
LEMMA ChannelOf ==
  ASSUME TypeOK
  PROVE  /\ Endpoint = {1, 2}
         /\ Channels = {1} \/ Channels = {1, 2}
         /\ \A e \in Endpoint : Channel(e) \in Channels
<1>1. Endpoint = {1, 2}
  BY DEF Endpoint
<1>2. plan \in [Endpoint -> {"sink", "source"}]
  BY DEF TypeOK, AgentTypes
<1>3. Channel(1) = 1 /\ Channel(2) \in {1, 2}
  BY <1>1, <1>2 DEF Channel
<1>4. Channels = {Channel(1), Channel(2)}
  BY <1>1 DEF Channels
<1>5. Channels = {1} \/ Channels = {1, 2}
  BY <1>3, <1>4
<1>6. ASSUME NEW e \in Endpoint
      PROVE  Channel(e) \in Channels
  BY <1>1, <1>4
<1> QED BY <1>1, <1>5, <1>6

\* There is always an endpoint whose turn it is.
LEMMA PendingOf ==
  ASSUME TypeOK
  PROVE  Pending \in Endpoint \ confirmed
<1>1. confirmed \subseteq {1, 2} /\ confirmed # {1, 2} /\ Endpoint = {1, 2}
  BY ChannelOf DEF TypeOK, AgentTypes
<1>2. 1 \notin confirmed \/ 2 \notin confirmed
  BY <1>1
<1>3. \E e \in Endpoint \ confirmed : \A f \in Endpoint \ confirmed : e <= f
  <2>1. CASE 1 \notin confirmed
    BY <1>1, <2>1
  <2>2. CASE 1 \in confirmed
    BY <1>1, <1>2, <2>2
  <2> QED BY <2>1, <2>2
<1> QED BY <1>3 DEF Pending

\* The plan, and with it the channels, stay what they are.
LEMMA PlanStays ==
  ASSUME [Next]_vars
  PROVE  plan' = plan /\ Channels' = Channels /\ \A e : Channel(e)' = Channel(e)
<1>1. plan' = plan
  <2>1. CASE PlanStream \/ Interrupted \/ FallsSilent \/ ReleaseStreams \/ NothingToRelease \/
            Polled \/
              ReadBack
    BY <2>1 DEF PlanStream, Interrupted, FallsSilent, ReleaseStreams, NothingToRelease, Polled,
       ReadBack,
       Fail, Trouble, OutOfTime, Unanswered, Unreachable, NotDone, NotesKept, Blames, Write,
       WriteChecked, Handle, Rest, StepVars, flowVars, agentVars, peerVars,
       controllerVars, ghostVars
  <2>7. CASE ReadBackFails \/ Configure \/ ConfigureFails \/ Prepare \/ TearDown \/
              ChannelEnds
    BY <2>7 DEF ReadBackFails, Configure, ConfigureFails, Prepare, TearDown, ChannelEnds,
       Fail, Trouble, OutOfTime, Unanswered, Unreachable, NotDone, NotesKept, Blames, Write,
       WriteChecked, Handle, Rest, StepVars, flowVars, agentVars, peerVars,
       controllerVars, ghostVars
  <2>13. CASE TornDown \/ CreateGroup \/ CreateChannels \/ ChannelReports \/ Established
              \/ StartReceivers
    BY <2>13 DEF TornDown, CreateGroup, CreateChannels, ChannelReports, Established,
       StartReceivers, Fail, Trouble, OutOfTime, Unanswered, Unreachable, NotDone, NotesKept,
          Blames,
       Write, WriteChecked, Handle, Rest, StepVars, flowVars, agentVars, peerVars,
       controllerVars, ghostVars
  <2>19. CASE AudioEnds \/ AudioLost \/ CleanUp \/ Decide \/ Recover \/ SoundHeard
    BY <2>19 DEF AudioEnds, AudioLost, CleanUp, Decide, Recover, SoundHeard, Fail, Trouble,
       OutOfTime,
       Unanswered, Unreachable, NotDone, NotesKept, Blames, Write, WriteChecked, Handle,
       Rest, StepVars, flowVars, agentVars, peerVars, controllerVars, ghostVars
  <2>25. CASE WaitEnds \/ AseMoves \/ AseSlips \/ ChannelOpens \/ ChannelCloses \/
              LinkLost
    BY <2>25 DEF WaitEnds, AseMoves, AseSlips, ChannelOpens, ChannelCloses, LinkLost, Fail,
       Trouble, OutOfTime, Unanswered, Unreachable, NotDone, NotesKept, Blames, Write, WriteChecked,
       Handle, Rest, StepVars, flowVars, agentVars, peerVars, controllerVars, ghostVars
  <2>99. CASE UNCHANGED vars
    BY <2>99 DEF vars, agentVars, peerVars, controllerVars, ghostVars
  <2> QED BY <2>1, <2>7, <2>13, <2>19, <2>25, <2>99 DEF Next
<1> QED BY <1>1 DEF Channels, Channel

\* A sequence without one of its elements.
LEMMA Removed ==
  ASSUME NEW S, NEW s \in Seq(S), NEW i \in 1..Len(s)
  PROVE  /\ RemoveAt(s, i) \in Seq(S)
         /\ Len(s) \in Nat /\ Len(RemoveAt(s, i)) = Len(s) - 1
         /\ \A j \in 1..(Len(s) - 1) : RemoveAt(s, i)[j] = IF j < i THEN s[j] ELSE s[j + 1]
<1> DEFINE a == SubSeq(s, 1, i - 1)  b == SubSeq(s, i + 1, Len(s))
<1>1. Len(s) \in Nat /\ \A k \in 1..Len(s) : s[k] \in S
  BY LenProperties, ElementOfSeq
<1>2. /\ a \in Seq(S) /\ Len(a) = i - 1
      /\ \A k \in 1..(i - 1) : a[k] = s[k]
  <2>1. \A k \in 1..(i - 1) : s[k] \in S
    BY <1>1
  <2>2. /\ a \in Seq(S) /\ Len(a) = IF 1 <= i - 1 THEN (i - 1) - 1 + 1 ELSE 0
        /\ \A k \in 1..((i - 1) - 1 + 1) : a[k] = s[1 + k - 1]
    <3> HIDE DEF a
    <3> QED BY <2>1, SubSeqProperties DEF a
  <2> HIDE DEF a
  <2> QED BY <2>2
<1>3. /\ b \in Seq(S) /\ Len(b) = Len(s) - i
      /\ \A k \in 1..(Len(s) - i) : b[k] = s[i + k]
  <2>1. \A k \in (i + 1)..Len(s) : s[k] \in S
    BY <1>1
  <2>2. /\ b \in Seq(S) /\ Len(b) = IF i + 1 <= Len(s) THEN Len(s) - (i + 1) + 1 ELSE 0
        /\ \A k \in 1..(Len(s) - (i + 1) + 1) : b[k] = s[(i + 1) + k - 1]
    <3> HIDE DEF b
    <3> QED BY <1>1, <2>1, SubSeqProperties DEF b
  <2> HIDE DEF b
  <2> QED BY <1>1, <2>2
<1>4. /\ a \o b \in Seq(S) /\ Len(a \o b) = Len(a) + Len(b)
      /\ \A k \in 1..(Len(a) + Len(b)) : (a \o b)[k] = IF k <= Len(a) THEN a[k] ELSE b[k - Len(a)]
  BY <1>2, <1>3, ConcatProperties
<1>5. RemoveAt(s, i) = a \o b
  BY DEF RemoveAt
<1> HIDE DEF a, b
<1>6. ASSUME NEW j \in 1..(Len(s) - 1)
      PROVE  (a \o b)[j] = IF j < i THEN s[j] ELSE s[j + 1]
  <2>1. j \in 1..(Len(a) + Len(b)) /\ (j <= Len(a) <=> j < i)
    BY <1>1, <1>2, <1>3
  <2>2. CASE j < i
    <3>1. (a \o b)[j] = a[j] /\ j \in 1..(i - 1)
      BY <1>4, <2>1, <2>2
    <3> QED BY <1>2, <2>2, <3>1
  <2>3. CASE ~(j < i)
    <3>1. (a \o b)[j] = b[j - (i - 1)] /\ j - (i - 1) \in 1..(Len(s) - i)
      BY <1>1, <1>2, <1>4, <2>1, <2>3
    <3>2. i + (j - (i - 1)) = j + 1
      BY <1>1
    <3> QED BY <1>3, <2>3, <3>1, <3>2
  <2> QED BY <2>2, <2>3
<1>7. Len(a \o b) = Len(s) - 1
  BY <1>1, <1>2, <1>3, <1>4
<1> QED BY <1>1, <1>4, <1>5, <1>6, <1>7

\* An order of the elements of a set is a sequence of them.
LEMMA Orders ==
  ASSUME NEW S, IsFiniteSet(S), NEW o \in SetToSeqs(S)
  PROVE  o \in Seq(S)
<1>1. Cardinality(S) \in Nat
  BY FS_CardinalityType
<1>2. o \in [1..Cardinality(S) -> S]
  BY DEF SetToSeqs
<1> QED BY <1>1, <1>2, SeqDef

\* A write leaves the headset and the opcode well-typed and the controller alone.
LEMMA Written ==
  ASSUME TypeOK, NEW op \in Operations, NEW es \in SUBSET Endpoint, Write(op, es)
  PROVE  /\ ase' \in [Endpoint -> Ases] /\ air' \in Seq(Notes)
         /\ opcode' \in Begun \cup {"none"} /\ trouble' \in Nat
         /\ UNCHANGED <<controllerVars, late>>
<1> USE DEF TypeOK, AgentTypes, HeadsetTypes
<1>1. PICK willing \in BOOLEAN, exactly \in BOOLEAN : 
          /\ Handle(op, es, willing, exactly) /\ trouble' \in Nat
          /\ slipped' = (slipped \/ ~willing)
  BY DEF Write, Trouble
<1>2. \A e \in Endpoint : Obeys(op, e, exactly) \in Ases
  BY ChannelOf DEF Obeys, Ases, AseStates, Ase, Operations
<1>3. ase' \in [Endpoint -> Ases]
  BY <1>1, <1>2 DEF Handle
<1>4. air' \in Seq(Notes)
  <2>1. round % 2 \in 0..1
    OBVIOUS
  <2>2. \A ok \in BOOLEAN : [op |-> op, ok |-> ok, round |-> round % 2] \in Notes
    BY <2>1 DEF Notes
  <2>3. PICK ok \in BOOLEAN : air' = <<[op |-> op, ok |-> ok, round |-> round % 2]>>
    BY <1>1 DEF Handle
  <2> QED BY <2>2, <2>3
<1> QED BY <1>1, <1>3, <1>4 DEF Write

\* Types, party by party.
LEMMA AgentStep ==
  ASSUME TypeOK, [Next]_vars
  PROVE  AgentTypes'
<1> USE DEF TypeOK, AgentTypes, HeadsetTypes, ControllerTypes
<1>0. plan' = plan /\ Channels' = Channels
  BY PlanStays
<1>100. {} \subseteq Endpoint /\ {} # Endpoint
  BY ChannelOf
<1>1. CASE PlanStream \/ Interrupted \/ FallsSilent \/ NothingToRelease \/ ReadBackFails \/
            ConfigureFails \/ Prepare
  BY <1>1, <1>0, <1>100 DEF PlanStream, Interrupted, FallsSilent, NothingToRelease, ReadBackFails,
     ConfigureFails, Prepare, Fail, Trouble, OutOfTime, Unanswered, Unreachable, NotDone,
     NotesKept, Blames, Write, WriteChecked, Handle, Rest, StepVars, flowVars,
     agentVars, peerVars, controllerVars, ghostVars
<1>3. CASE ReleaseStreams
  <2>1. PICK es \in SUBSET Endpoint : 
           \/ Write("release", es) /\ asked' = es /\ notes' = notes \o air /\ UNCHANGED dead
           \/ UNCHANGED <<asked, opcode, notes, Rest>> /\ trouble' \in Nat
    <3>1. PICK es \in ToRelease :
           \/ Write("release", es) /\ asked' = es /\ notes' = notes \o air /\ UNCHANGED dead
           \/ UNCHANGED <<asked, opcode, notes, Rest>> /\ (UNCHANGED trouble \/ Trouble)
      BY <1>3 DEF ReleaseStreams, Unanswered
    <3>2. Trouble => trouble' \in Nat
      BY DEF Trouble
    <3>3. es \in SUBSET Endpoint
      BY DEF ToRelease
    <3> QED BY <3>1, <3>2, <3>3
  <2>2. CASE Write("release", es) /\ asked' = es /\ notes' = notes \o air
    <3>1. opcode' \in Begun \cup {"none"} /\ trouble' \in Nat
      BY <2>2, Written DEF Operations
    <3>2. notes' \in Seq(Notes)
      BY <2>2, ConcatProperties
    <3> QED BY <2>2, <3>1, <3>2, <1>3, <1>0, <1>100 DEF ReleaseStreams
  <2>3. CASE UNCHANGED <<asked, opcode, notes, Rest>> /\ trouble' \in Nat
    BY <2>3, <1>3, <1>0, <1>100 DEF ReleaseStreams
  <2> QED BY <2>1, <2>2, <2>3
<1>5. CASE Polled
  BY <1>5, <1>0, ConcatProperties DEF Polled, Fail, Trouble, OutOfTime, Unanswered, Unreachable,
     NotDone, NotesKept, Blames, Write, WriteChecked, Handle, Rest, StepVars, flowVars,
     agentVars, peerVars, controllerVars, ghostVars
<1>6. CASE ReadBack
  <2>1. notes' = <<>>
    BY <1>6 DEF ReadBack
  <2>2. confirmed' \subseteq Endpoint /\ confirmed' # Endpoint
    <3>1. \/ confirmed' = {}
          \/ confirmed' = confirmed \cup {Pending} /\ confirmed \cup {Pending} # Endpoint
      BY <1>6 DEF ReadBack, Fail
    <3> QED BY <3>1, ChannelOf, PendingOf
  <2>3. UNCHANGED <<plan, asked, opcode, known, pending, round, trouble>>
    BY <1>6 DEF ReadBack
  <2> QED BY <1>0, <2>1, <2>2, <2>3
<1>8. CASE Configure
  <2>1. PICK op \in Begun : Write(op, Endpoint)
    BY <1>8 DEF Configure, WriteChecked, Begun
  <2>4. {} \subseteq Endpoint /\ {} # Endpoint
    BY ChannelOf
  <2>2. opcode' \in Begun \cup {"none"} /\ trouble' \in Nat
    BY <2>1, Written DEF Operations, Begun
  <2>3. notes' = <<>> /\ confirmed' = {}
    BY <1>8 DEF Configure, WriteChecked, Fail
  <2> QED BY <2>2, <2>3, <2>4, <1>8, <1>0, <1>100 DEF Configure
<1>11. CASE TearDown \/ ChannelEnds \/ CreateChannels \/ ChannelReports \/ Established
            \/ AudioEnds
  BY <1>11, <1>0, <1>100 DEF TearDown, ChannelEnds, CreateChannels, ChannelReports,
     Established, AudioEnds, Fail, Trouble, OutOfTime, Unanswered, Unreachable, NotDone, NotesKept,
     Blames, Write, WriteChecked, Handle, Rest, StepVars, flowVars, agentVars, peerVars,
     controllerVars, ghostVars
<1>13. CASE TornDown
  <2>1. known' \subseteq Channels /\ pending' = {}
    BY <1>13 DEF TornDown, Remembered
  <2>2. UNCHANGED <<plan, asked, opcode, notes, round>>
    BY <1>13 DEF TornDown, peerVars
  <2>3. (UNCHANGED confirmed \/ Fail) /\ (UNCHANGED trouble \/ Trouble)
    BY <1>13 DEF TornDown, OutOfTime
  <2>4. trouble' \in Nat
    BY <2>3 DEF Trouble
  <2>5. confirmed' \subseteq Endpoint /\ confirmed' # Endpoint
    BY <2>3, ChannelOf DEF Fail
  <2> QED BY <1>0, <2>1, <2>2, <2>4, <2>5
<1>14. CASE CreateGroup
  <2>1. known' = Channels \/ known' = known
    BY <1>14 DEF CreateGroup
  <2>2. UNCHANGED <<plan, asked, opcode, notes, pending, round>>
    BY <1>14 DEF CreateGroup, peerVars
  <2>3. (UNCHANGED confirmed \/ Fail) /\ (UNCHANGED trouble \/ Trouble)
    BY <1>14 DEF CreateGroup
  <2>4. trouble' \in Nat
    BY <2>3 DEF Trouble
  <2>5. confirmed' \subseteq Endpoint /\ confirmed' # Endpoint
    BY <2>3, ChannelOf DEF Fail
  <2> QED BY <1>0, <2>1, <2>2, <2>4, <2>5
<1>18. CASE StartReceivers
  <2>1. PICK es \in SUBSET Endpoint : 
           \/ Write("ready", es) /\ notes' = notes \o air
           \/ UNCHANGED <<opcode, notes>> /\ trouble' \in Nat
    <3> DEFINE sources == {e \in Endpoint : plan[e] = "source"}
    <3>1. \/ Write("ready", sources) /\ notes' = notes \o air
          \/ UNCHANGED <<opcode, notes>> /\ (UNCHANGED trouble \/ Trouble)
      BY <1>18 DEF StartReceivers, Unanswered
    <3>2. Trouble => trouble' \in Nat
      BY DEF Trouble
    <3> HIDE DEF sources
    <3>3. sources \in SUBSET Endpoint
      BY DEF sources
    <3> QED BY <3>1, <3>2, <3>3
  <2>2. CASE Write("ready", es) /\ notes' = notes \o air
    <3>1. opcode' \in Begun \cup {"none"} /\ trouble' \in Nat
      BY <2>2, Written DEF Operations
    <3>2. notes' \in Seq(Notes)
      BY <2>2, ConcatProperties
    <3> QED BY <2>2, <3>1, <3>2, <1>18, <1>0, <1>100 DEF StartReceivers, flowVars
  <2>3. CASE UNCHANGED <<opcode, notes>> /\ trouble' \in Nat
    BY <2>3, <1>18, <1>0, <1>100 DEF StartReceivers, flowVars
  <2> QED BY <2>1, <2>2, <2>3
<1>20. CASE AudioLost
  BY <1>20, <1>0, <1>100 DEF AudioLost, Fail, Trouble, OutOfTime, Unanswered, Unreachable, NotDone,
     NotesKept, Blames, Write, WriteChecked, Handle, Rest, StepVars, flowVars,
     agentVars, peerVars, controllerVars, ghostVars
<1>21. CASE CleanUp
  BY <1>21, <1>0, <1>100 DEF CleanUp, Fail, Trouble, OutOfTime, Unanswered, Unreachable, NotDone,
     NotesKept, Blames, Write, WriteChecked, Handle, Rest, StepVars, flowVars,
     agentVars, peerVars, controllerVars, ghostVars
<1>22. CASE Decide
  BY <1>22, <1>0, <1>100 DEF Decide, Fail, Trouble, OutOfTime, Unanswered, Unreachable, NotDone,
     NotesKept, Blames, Write, WriteChecked, Handle, Rest, StepVars, flowVars,
     agentVars, peerVars, controllerVars, ghostVars
<1>23. CASE Recover
  BY <1>23, <1>0, <1>100 DEF Recover, Collected, controllerVars
<1>24. CASE SoundHeard
  BY <1>24, <1>0, <1>100 DEF SoundHeard, Fail, Trouble, OutOfTime, Unanswered, Unreachable, NotDone,
     NotesKept, Blames, Write, WriteChecked, Handle, Rest, StepVars, flowVars,
     agentVars, peerVars, controllerVars, ghostVars
<1>25. CASE WaitEnds
  BY <1>25, <1>0, <1>100 DEF WaitEnds, Fail, Trouble, OutOfTime, Unanswered, Unreachable, NotDone,
     NotesKept, Blames, Write, WriteChecked, Handle, Rest, StepVars, flowVars,
     agentVars, peerVars, controllerVars, ghostVars
<1>26. CASE AseMoves
  BY <1>26, <1>0, <1>100 DEF AseMoves, Fail, Trouble, OutOfTime, Unanswered, Unreachable, NotDone,
     NotesKept, Blames, Write, WriteChecked, Handle, Rest, StepVars, flowVars,
     agentVars, peerVars, controllerVars, ghostVars
<1>27. CASE AseSlips \/ ChannelOpens \/ ChannelCloses \/ LinkLost
  BY <1>27, <1>0, <1>100 DEF AseSlips, ChannelOpens, ChannelCloses, LinkLost, Fail,
     Trouble, OutOfTime, Unanswered, Unreachable, NotDone, NotesKept, Blames, Write, WriteChecked,
     Handle, Rest, StepVars, flowVars, agentVars, peerVars, controllerVars, ghostVars
<1>99. CASE UNCHANGED vars
  BY <1>99, <1>0, <1>100 DEF vars, agentVars
<1> QED BY <1>1, <1>3, <1>5, <1>6, <1>8, <1>11, <1>13, <1>14, <1>18, <1>20, <1>21,
       <1>22, <1>23, <1>24, <1>25, <1>26, <1>27, <1>99 DEF Next

\* The headset's part of it.
LEMMA HeadsetStep ==
  ASSUME TypeOK, [Next]_vars
  PROVE  HeadsetTypes'
<1> USE DEF TypeOK, HeadsetTypes
<1>0. plan' = plan /\ Channels' = Channels
  BY PlanStays
<1>1. CASE PlanStream
  BY <1>1, <1>0 DEF PlanStream, Rest, agentVars, peerVars
<1>2. CASE Interrupted \/ FallsSilent
  BY <1>2, <1>0 DEF Interrupted, FallsSilent, Rest, agentVars, peerVars
<1>3. CASE ReleaseStreams
  <2>1. CASE \E es \in SUBSET Endpoint : Write("release", es)
    BY <2>1, Written DEF Operations
  <2>2. CASE ~(\E es \in SUBSET Endpoint : Write("release", es))
    <3>1. UNCHANGED peerVars
      BY <1>3, <2>2 DEF ReleaseStreams, ToRelease, Rest
    <3> QED BY <3>1 DEF peerVars
  <2> QED BY <2>1, <2>2
<1>4. CASE NothingToRelease
  BY <1>4, <1>0 DEF NothingToRelease, Rest, agentVars, peerVars
<1>5. CASE Polled
  BY <1>5, <1>0 DEF Polled, Rest, agentVars, peerVars
<1>6. CASE ReadBack
  BY <1>6 DEF ReadBack
<1>7. CASE ReadBackFails
  BY <1>7, <1>0 DEF ReadBackFails, Rest, agentVars, peerVars
<1>8. CASE Configure
  <2>1. PICK op \in Begun : Write(op, Endpoint)
    BY <1>8 DEF Configure, WriteChecked, Begun
  <2> QED BY <2>1, Written DEF Operations, Begun
<1>9. CASE ConfigureFails
  BY <1>9, <1>0 DEF ConfigureFails, Rest, agentVars, peerVars
<1>10. CASE Prepare \/ TearDown \/ ChannelEnds \/ TornDown \/ CreateGroup \/
            CreateChannels
  BY <1>10, <1>0 DEF Prepare, TearDown, ChannelEnds, TornDown, CreateGroup,
     CreateChannels, Rest, agentVars, peerVars
<1>16. CASE ChannelReports \/ Established \/ AudioEnds \/ AudioLost \/ CleanUp \/ Decide
  BY <1>16, <1>0 DEF ChannelReports, Established, AudioEnds, AudioLost, CleanUp, Decide,
     Rest, agentVars, peerVars
<1>18. CASE StartReceivers
  <2>1. CASE \E es \in SUBSET Endpoint : Write("ready", es)
    BY <2>1, Written DEF Operations
  <2>2. CASE ~(\E es \in SUBSET Endpoint : Write("ready", es))
    <3>1. UNCHANGED peerVars
      BY <1>18, <2>2 DEF StartReceivers, ToRelease, Rest
    <3> QED BY <3>1 DEF peerVars
  <2> QED BY <2>1, <2>2
<1>23. CASE Recover
  BY <1>23, <1>0 DEF Recover, Rest, agentVars, peerVars
<1>24. CASE SoundHeard
  BY <1>24, <1>0 DEF SoundHeard, Rest, agentVars, peerVars
<1>25. CASE WaitEnds
  BY <1>25, <1>0 DEF WaitEnds, Rest, agentVars, peerVars
<1>26. CASE AseMoves
  <2>1. PICK e \in Endpoint : 
           \/ ase' \in {[ase EXCEPT ![e] = Idle], [ase EXCEPT ![e].state = "codec"]}
           \/ ase' = [ase EXCEPT ![e].state = "streaming"]
    BY <1>26 DEF AseMoves
  <2>2. Idle \in Ases /\ [ase[e] EXCEPT !.state = "codec"] \in Ases
        /\ [ase[e] EXCEPT !.state = "streaming"] \in Ases
    BY DEF Idle, Ase, Ases, AseStates
  <2>3. UNCHANGED air
    BY <1>26 DEF AseMoves
  <2> QED BY <2>1, <2>2, <2>3
<1>27. CASE AseSlips
  <2>1. PICK e \in Endpoint : ase' = [ase EXCEPT ![e].state = "releasing"]
    BY <1>27 DEF AseSlips
  <2>2. [ase[e] EXCEPT !.state = "releasing"] \in Ases
    BY DEF Ases, AseStates
  <2>3. UNCHANGED air
    BY <1>27 DEF AseSlips
  <2> QED BY <2>1, <2>2, <2>3
<1>28. CASE ChannelOpens
  BY <1>28, <1>0 DEF ChannelOpens, Rest, agentVars, peerVars
<1>29. CASE ChannelCloses
  <2>1. PICK ch : ase' = [e \in Endpoint |-> IF ase[e].state = "streaming" /\ ase[e].ch = ch
                                        THEN [ase[e] EXCEPT !.state = "qos"] ELSE ase[e]]
    BY <1>29 DEF ChannelCloses
  <2>2. \A e \in Endpoint : [ase[e] EXCEPT !.state = "qos"] \in Ases
    BY DEF Ases, AseStates
  <2>3. UNCHANGED air
    BY <1>29 DEF ChannelCloses
  <2> QED BY <2>1, <2>2, <2>3
<1>30. CASE LinkLost
  <2>1. Idle \in Ases
    BY DEF Idle, Ase, Ases, AseStates
  <2> QED BY <1>30, <2>1 DEF LinkLost
<1>99. CASE UNCHANGED vars
  BY <1>99 DEF vars, agentVars, peerVars, controllerVars, ghostVars
<1> QED BY <1>1, <1>2, <1>3, <1>4, <1>5, <1>6, <1>7, <1>8, <1>9, <1>10, <1>16, <1>18,
       <1>23, <1>24, <1>25, <1>26, <1>27, <1>28, <1>29, <1>30, <1>99 DEF Next

\* The controller's.
LEMMA ControllerStep ==
  ASSUME TypeOK, [Next]_vars
  PROVE  ControllerTypes'
<1> USE DEF TypeOK, ControllerTypes
<1>0. plan' = plan /\ Channels' = Channels
  BY PlanStays
<1>1. CASE PlanStream \/ Interrupted \/ FallsSilent \/ NothingToRelease \/ Polled \/ ReadBack \/
            ReadBackFails
  BY <1>1, <1>0 DEF PlanStream, Interrupted, FallsSilent, NothingToRelease, Polled, ReadBack,
     ReadBackFails, Rest, StepVars, agentVars, controllerVars
<1>3. CASE ReleaseStreams
  <2>1. UNCHANGED controllerVars
    BY <1>3 DEF ReleaseStreams, Write, Rest
  <2>2. UNCHANGED reported
    BY <1>3 DEF ReleaseStreams
  <2> QED BY <1>0, <2>1, <2>2 DEF controllerVars
<1>8. CASE Configure
  <2>1. UNCHANGED controllerVars
    BY <1>8 DEF Configure, WriteChecked, Write
  <2>2. UNCHANGED reported
    BY <1>8 DEF Configure
  <2> QED BY <1>0, <2>1, <2>2 DEF controllerVars
<1>9. CASE ConfigureFails \/ Prepare \/ TornDown \/ CreateGroup \/ Established \/
            AudioEnds
  BY <1>9, <1>0 DEF ConfigureFails, Prepare, TornDown, CreateGroup, Established,
     AudioEnds, Rest, StepVars, agentVars, controllerVars
<1>11. CASE TearDown
  <2>1. closing' \subseteq closing \cup pending' /\ pending' \subseteq open \cup waiting
    BY <1>11 DEF TearDown
  <2>2. UNCHANGED <<open, waiting, events, reported>>
    BY <1>11 DEF TearDown
  <2> QED BY <1>0, <2>1, <2>2
<1>12. CASE ChannelEnds
  <2>1. PICK i \in DOMAIN events : events' = RemoveAt(events, i)
    BY <1>12 DEF ChannelEnds
  <2>2. events' \in Seq(Reports)
    BY <2>1, Removed, LenProperties
  <2>3. UNCHANGED <<open, waiting, closing, reported>>
    BY <1>12 DEF ChannelEnds
  <2> QED BY <1>0, <2>2, <2>3
<1>15. CASE CreateChannels
  <2>1. \/ waiting' = Channels /\ reported' = <<>>
        \/ UNCHANGED <<waiting, reported>>
    BY <1>15 DEF CreateChannels
  <2>2. UNCHANGED <<open, closing, events>>
    BY <1>15 DEF CreateChannels
  <2>3. waiting' \subseteq Channels
    BY <2>1
  <2>6. reported' \in Seq(Reports)
    BY <2>1, EmptySeq
  <2>4. closing \subseteq Channels /\ (waiting' = Channels \/ waiting' = waiting)
    BY <2>1
  <2>5. closing' \subseteq open' \cup waiting'
    BY <2>2, <2>4
  <2> QED BY <1>0, <2>2, <2>3, <2>5, <2>6
<1>16. CASE ChannelReports
  <2>1. PICK i \in DOMAIN events : events' = RemoveAt(events, i) /\ reported' = Append(reported, events[i])
    BY <1>16 DEF ChannelReports
  <2>2. events' \in Seq(Reports) /\ events[i] \in Reports
    BY <2>1, Removed, LenProperties, ElementOfSeq
  <2>3. UNCHANGED <<open, waiting, closing>>
    BY <1>16 DEF ChannelReports
  <2>4. reported' \in Seq(Reports)
    BY <2>1, <2>2
  <2> QED BY <1>0, <2>2, <2>3, <2>4
<1>18. CASE StartReceivers
  <2>1. UNCHANGED controllerVars
    BY <1>18 DEF StartReceivers, Write, Rest
  <2>2. UNCHANGED reported
    BY <1>18 DEF StartReceivers
  <2> QED BY <1>0, <2>1, <2>2 DEF controllerVars
<1>20. CASE AudioLost
  BY <1>20, <1>0 DEF AudioLost, Rest, StepVars, agentVars, controllerVars
<1>21. CASE CleanUp
  BY <1>21, <1>0 DEF CleanUp, Rest, StepVars, agentVars, controllerVars
<1>22. CASE Decide
  BY <1>22, <1>0 DEF Decide, Rest, StepVars, agentVars, controllerVars
<1>23. CASE Recover
  BY <1>23, <1>0 DEF Recover, Rest, StepVars, agentVars, controllerVars
<1>24. CASE SoundHeard
  BY <1>24, <1>0 DEF SoundHeard, Rest, StepVars, agentVars, controllerVars
<1>25. CASE WaitEnds
  BY <1>25, <1>0 DEF WaitEnds, Rest, StepVars, agentVars, controllerVars
<1>26. CASE AseMoves \/ AseSlips
  BY <1>26, <1>0 DEF AseMoves, AseSlips, Rest, StepVars, agentVars, controllerVars
<1>28. CASE ChannelOpens
  <2>1. PICK ch \in waiting : 
          /\ waiting' = waiting \ {ch}
          /\ \/ open' = open \cup {ch} /\ closing' = closing /\ events' = Append(events, Ch(ch, "up"))
             \/ open' = open /\ closing' = closing \ {ch} /\ events' = Append(events, Ch(ch, "failed"))
    BY <1>28 DEF ChannelOpens
  <2>2. ch \in 1..2
    BY ChannelOf
  <2>3. Ch(ch, "up") \in Reports /\ Ch(ch, "failed") \in Reports
    BY <2>2 DEF Ch, Reports
  <2>4. events' \in Seq(Reports)
    BY <2>1, <2>3
  <2>5. UNCHANGED reported
    BY <1>28 DEF ChannelOpens, agentVars
  <2> QED BY <1>0, <2>1, <2>4, <2>5
<1>29. CASE ChannelCloses
  <2>1. PICK ch \in closing :
          /\ closing' = closing \ {ch} /\ open' = open \ {ch} /\ waiting' = waiting \ {ch}
          /\ events' = Append(events, Ch(ch, "closed"))
    BY <1>29 DEF ChannelCloses
  <2>2. ch \in 1..2
    BY ChannelOf
  <2>3. Ch(ch, "closed") \in Reports
    BY <2>2 DEF Ch, Reports
  <2>4. events' \in Seq(Reports)
    BY <2>1, <2>3
  <2>5. UNCHANGED reported
    BY <1>29 DEF ChannelCloses, agentVars
  <2> QED BY <1>0, <2>1, <2>4, <2>5
<1>30. CASE LinkLost
  <2> DEFINE G == {Ch(ch, "closed") : ch \in open}
  <2>1. PICK order \in SetToSeqs(G) : events' = events \o order
    BY <1>30 DEF LinkLost
  <2>2. G \subseteq Reports
    BY ChannelOf DEF Ch, Reports
  <2>3. IsFiniteSet(G)
    <3>1. G \subseteq {Ch(1, "closed")} \cup {Ch(2, "closed")}
      BY ChannelOf
    <3>2. IsFiniteSet({Ch(1, "closed")} \cup {Ch(2, "closed")})
      BY FS_Singleton, FS_Union
    <3> HIDE DEF G
    <3> QED BY <3>1, <3>2, FS_Subset
  <2> HIDE DEF G
  <2>4. order \in Seq(Reports)
    BY <2>1, <2>2, <2>3, Orders, SeqMonotonic
  <2>5. events' \in Seq(Reports)
    BY <2>1, <2>4, ConcatProperties
  <2>6. open' = {} /\ waiting' = {} /\ closing' = {} /\ UNCHANGED reported
    BY <1>30 DEF LinkLost, agentVars
  <2> QED BY <2>5, <2>6
<1>99. CASE UNCHANGED vars
  BY <1>99, <1>0 DEF vars, agentVars, controllerVars
<1> QED BY <1>1, <1>3, <1>8, <1>9, <1>11, <1>12, <1>15, <1>16, <1>18, <1>20, <1>21,
       <1>22, <1>23, <1>24, <1>25, <1>26, <1>28, <1>29, <1>30, <1>99 DEF Next

\* All three together.
LEMMA TypeStep ==
  ASSUME TypeOK, [Next]_vars
  PROVE  TypeOK'
BY AgentStep, HeadsetStep, ControllerStep DEF TypeOK

-----------------------------------------------------------------------------
\* The agent's steps before it has a group, those with one, and how audio ends.
BeforeGroup == {"free", "freed", "codec", "codecs", "prepare"}
OnGroup == {"create group", "qos", "qoses", "enable", "create", "await", "ready", "streams",
            "playing"}
Sounded == {"stopped", "yielded", "recover", "lost"}

\* Where the agent stands, what follows and what has been configured agree.
Flow ==
    /\ pc \in {"plan", "recover", "sound", "over"} =>
          then = "none" /\ after = "none" /\ result = "none" /\ ~configured
    /\ pc \in BeforeGroup =>
          then = "freed" /\ after = "none" /\ result = "none" /\ configured
    /\ pc \in OnGroup =>
          then = "freed" /\ after = "prepared" /\ result = "none" /\ configured
    /\ pc = "polling" =>
          \/ then = "freed" /\ after = "none" /\ result = "none" /\ configured
          \/ /\ then = "teardown" /\ after = "decide" /\ ~configured
             /\ result \in Sounded \cup {"failed"}
    /\ pc \in {"teardown", "closing"} =>
          \/ then = "freed" /\ after = "prepared" /\ result = "none" /\ configured
          \/ then = "freed" /\ after = "cleanup" /\ result = "failed" /\ configured
          \/ /\ then = "teardown" /\ after = "decide" /\ ~configured
             /\ result \in Sounded \cup {"failed"}
    /\ pc = "handback" =>
          then = "teardown" /\ after = "decide" /\ result \in Sounded /\ configured
    /\ pc = "cleanup" =>
          /\ result = "failed"
          /\ \/ then = "none" /\ ~configured
             \/ then = "freed" /\ configured
             \/ then = "teardown" /\ after = "decide"
    /\ pc = "decide" =>
          /\ then = "teardown" /\ after = "decide" /\ ~configured
          /\ result \in Sounded \cup {"failed"}
    /\ result = "lost" => ~linked

\* Every step leads where Flow says.
LEMMA FlowStep ==
  ASSUME Flow, [Next]_vars
  PROVE  Flow'
<1> USE DEF Flow, BeforeGroup, OnGroup, Sounded
<1>1. CASE PlanStream
  <2>1. \/ pc' = "free" /\ then' = "freed" /\ configured' /\ UNCHANGED result
        \/ Fail /\ UNCHANGED then /\ (configured' <=> configured)
    BY <1>1 DEF PlanStream
  <2>2. pc = "plan" /\ UNCHANGED <<after, linked>>
    BY <1>1 DEF PlanStream, controllerVars
  <2> QED BY <2>1, <2>2 DEF Fail
<1>31. CASE FallsSilent
  <2>1. UNCHANGED <<pc, then, after, result, configured, known, pending, reported, route>>
    BY <1>31 DEF FallsSilent, StepVars
  <2>2. UNCHANGED <<controllerVars, ghostVars, dead>>
    BY <1>31 DEF FallsSilent, Rest
  <2> QED BY <2>1, <2>2 DEF controllerVars, ghostVars
<1>2. CASE Interrupted
  BY <1>2 DEF Interrupted, Fail, Reading, Releasing, NextStep, Begun, HandsBack,
     WriteChecked, Write, Rest, flowVars, agentVars, StepVars, controllerVars
<1>3. CASE ReleaseStreams
  BY <1>3 DEF ReleaseStreams, Fail, Reading, Releasing, NextStep, Begun, HandsBack,
     WriteChecked, Write, Rest, flowVars, agentVars, StepVars, controllerVars
<1>4. CASE NothingToRelease
  BY <1>4 DEF NothingToRelease, Fail, Reading, Releasing, NextStep, Begun, HandsBack,
     WriteChecked, Write, Rest, flowVars, agentVars, StepVars, controllerVars
<1>5. CASE Polled
  BY <1>5 DEF Polled, Fail, Reading, Releasing, NextStep, Begun, HandsBack, WriteChecked,
     Write, Rest, flowVars, agentVars, StepVars, controllerVars
<1>6. CASE ReadBack
  BY <1>6 DEF ReadBack, Fail, Reading, Releasing, NextStep, Begun, HandsBack,
     WriteChecked, Write, Rest, flowVars, agentVars, StepVars, controllerVars
<1>7. CASE ReadBackFails
  BY <1>7 DEF ReadBackFails, Fail, Reading, Releasing, NextStep, Begun, HandsBack,
     WriteChecked, Write, Rest, flowVars, agentVars, StepVars, controllerVars
<1>8. CASE Configure
  BY <1>8 DEF Configure, Fail, Reading, Releasing, NextStep, Begun, HandsBack,
     WriteChecked, Write, Rest, flowVars, agentVars, StepVars, controllerVars
<1>9. CASE ConfigureFails
  BY <1>9 DEF ConfigureFails, Fail, Reading, Releasing, NextStep, Begun, HandsBack,
     WriteChecked, Write, Rest, flowVars, agentVars, StepVars, controllerVars
<1>10. CASE Prepare
  BY <1>10 DEF Prepare, Fail, Reading, Releasing, NextStep, Begun, HandsBack,
     WriteChecked, Write, Rest, flowVars, agentVars, StepVars, controllerVars
<1>11. CASE TearDown
  BY <1>11 DEF TearDown, Fail, Reading, Releasing, NextStep, Begun, HandsBack,
     WriteChecked, Write, Rest, flowVars, agentVars, StepVars, controllerVars
<1>12. CASE ChannelEnds
  BY <1>12 DEF ChannelEnds, Fail, Reading, Releasing, NextStep, Begun, HandsBack,
     WriteChecked, Write, Rest, flowVars, agentVars, StepVars, controllerVars
<1>13. CASE TornDown
  BY <1>13 DEF TornDown, Fail, Reading, Releasing, NextStep, Begun, HandsBack,
     WriteChecked, Write, Rest, flowVars, agentVars, StepVars, controllerVars
<1>14. CASE CreateGroup
  BY <1>14 DEF CreateGroup, Fail, Reading, Releasing, NextStep, Begun, HandsBack,
     WriteChecked, Write, Rest, flowVars, agentVars, StepVars, controllerVars
<1>15. CASE CreateChannels
  BY <1>15 DEF CreateChannels, Fail, Reading, Releasing, NextStep, Begun, HandsBack,
     WriteChecked, Write, Rest, flowVars, agentVars, StepVars, controllerVars
<1>16. CASE ChannelReports
  BY <1>16 DEF ChannelReports, Fail, Reading, Releasing, NextStep, Begun, HandsBack,
     WriteChecked, Write, Rest, flowVars, agentVars, StepVars, controllerVars
<1>17. CASE Established
  BY <1>17 DEF Established, Fail, Reading, Releasing, NextStep, Begun, HandsBack,
     WriteChecked, Write, Rest, flowVars, agentVars, StepVars, controllerVars
<1>18. CASE StartReceivers
  BY <1>18 DEF StartReceivers, Fail, Reading, Releasing, NextStep, Begun, HandsBack,
     WriteChecked, Write, Rest, flowVars, agentVars, StepVars, controllerVars
<1>19. CASE AudioEnds
  BY <1>19 DEF AudioEnds, Fail, Reading, Releasing, NextStep, Begun, HandsBack,
     WriteChecked, Write, Rest, flowVars, agentVars, StepVars, controllerVars
<1>20. CASE AudioLost
  BY <1>20 DEF AudioLost, Fail, Reading, Releasing, NextStep, Begun, HandsBack,
     WriteChecked, Write, Rest, flowVars, agentVars, StepVars, controllerVars
<1>21. CASE CleanUp
  BY <1>21 DEF CleanUp, Fail, Reading, Releasing, NextStep, Begun, HandsBack,
     WriteChecked, Write, Rest, flowVars, agentVars, StepVars, controllerVars
<1>22. CASE Decide
  BY <1>22 DEF Decide, Fail, Reading, Releasing, NextStep, Begun, HandsBack, WriteChecked,
     Write, Rest, flowVars, agentVars, StepVars, controllerVars
<1>23. CASE Recover
  BY <1>23 DEF Recover, Fail, Reading, Releasing, NextStep, Begun, HandsBack,
     WriteChecked, Write, Rest, flowVars, agentVars, StepVars, controllerVars
<1>24. CASE SoundHeard
  BY <1>24 DEF SoundHeard, Fail, Reading, Releasing, NextStep, Begun, HandsBack,
     WriteChecked, Write, Rest, flowVars, agentVars, StepVars, controllerVars
<1>25. CASE WaitEnds
  BY <1>25 DEF WaitEnds, Fail, Reading, Releasing, NextStep, Begun, HandsBack,
     WriteChecked, Write, Rest, flowVars, agentVars, StepVars, controllerVars
<1>26. CASE AseMoves
  BY <1>26 DEF AseMoves, Fail, Reading, Releasing, NextStep, Begun, HandsBack,
     WriteChecked, Write, Rest, flowVars, agentVars, StepVars, controllerVars
<1>27. CASE AseSlips
  BY <1>27 DEF AseSlips, Fail, Reading, Releasing, NextStep, Begun, HandsBack,
     WriteChecked, Write, Rest, flowVars, agentVars, StepVars, controllerVars
<1>28. CASE ChannelOpens
  BY <1>28 DEF ChannelOpens, Fail, Reading, Releasing, NextStep, Begun, HandsBack,
     WriteChecked, Write, Rest, flowVars, agentVars, StepVars, controllerVars
<1>29. CASE ChannelCloses
  BY <1>29 DEF ChannelCloses, Fail, Reading, Releasing, NextStep, Begun, HandsBack,
     WriteChecked, Write, Rest, flowVars, agentVars, StepVars, controllerVars
<1>30. CASE LinkLost
  BY <1>30 DEF LinkLost, Fail, Reading, Releasing, NextStep, Begun, HandsBack,
     WriteChecked, Write, Rest, flowVars, agentVars, StepVars, controllerVars
<1>99. CASE UNCHANGED vars
  BY <1>99 DEF vars, agentVars, peerVars, controllerVars, ghostVars
<1> QED BY <1>1, <1>2, <1>3, <1>4, <1>5, <1>6, <1>7, <1>8, <1>9, <1>10, <1>11, <1>12,
       <1>13, <1>14, <1>15, <1>16, <1>17, <1>18, <1>19, <1>20, <1>21, <1>22, <1>23,
       <1>24, <1>25, <1>26, <1>27, <1>28, <1>29, <1>30, <1>31, <1>99 DEF Next

\* What is not configured any more is free or on its way there, over a live bearer.
HandedBack(e) == ase[e].state \in {"idle", "codec", "releasing"} \/ ase[e].ch = 0
Clean == (linked /\ ~dead /\ ~configured) => \A e \in Endpoint : HandedBack(e)

\* What a Release does, and what it does to an endpoint.
LEMMA Releases ==
  ASSUME TypeOK, Write("release", Endpoint)
  PROVE  \A e \in Endpoint : HandedBack(e)'
<1>1. PICK willing \in BOOLEAN, exactly \in BOOLEAN :
          willing /\ exactly /\ Handle("release", Endpoint, willing, exactly)
  BY DEF Write
<1>2. SUFFICES ASSUME NEW e \in Endpoint PROVE HandedBack(e)'
  OBVIOUS
<1>3. ase'[e] = IF Legal("release", e) THEN Obeys("release", e, exactly) ELSE ase[e]
  BY <1>1 DEF Handle
<1>4. ase'[e].state \in {"idle", "releasing"}
  <2>1. CASE Legal("release", e)
    <3>1. ase'[e] = [ase[e] EXCEPT !.state = "releasing"]
      BY <1>3, <2>1 DEF Obeys
    <3>2. ase[e] \in Ases
      BY DEF TypeOK, HeadsetTypes
    <3> QED BY <3>1, <3>2 DEF Ases
  <2>2. CASE ~Legal("release", e)
    BY <1>3, <2>2 DEF Legal
  <2> QED BY <2>1, <2>2
<1> QED BY <1>4 DEF HandedBack

\* Only a Release that cannot be sent leaves an endpoint as it was configured.
LEMMA CleanStep ==
  ASSUME TypeOK, Flow, Clean, [Next]_vars
  PROVE  Clean'
<1> USE DEF Clean
<1>1. CASE PlanStream \/ Interrupted \/ FallsSilent \/ Polled \/ ReadBack \/ ReadBackFails \/
            ConfigureFails
  BY <1>1 DEF PlanStream, Interrupted, FallsSilent, Polled, ReadBack, ReadBackFails, ConfigureFails,
     HandedBack, Fail, NotDone, Unanswered, Unreachable, Rest, flowVars, agentVars,
     StepVars, peerVars, controllerVars
<1>3. CASE ReleaseStreams
  <2>1. CASE configured
    <3>1. CASE pc = "free"
      BY <1>3, <2>1, <3>1 DEF ReleaseStreams
    <3>2. CASE pc # "free"
      <4>1. ToRelease = {Endpoint} /\ Endpoint # {}
        BY <2>1, <3>2, ChannelOf DEF ToRelease
      <4>2. \/ Write("release", Endpoint)
            \/ ~linked' \/ dead'
        BY <1>3, <4>1 DEF ReleaseStreams, Unanswered, Rest, controllerVars
      <4>3. CASE Write("release", Endpoint)
        BY <4>3, Releases
      <4> QED BY <4>2, <4>3
    <3> QED BY <3>1, <3>2
  <2>2. CASE ~configured
    <3>1. pc \in {"cleanup", "handback"} 
      BY <1>3, <2>2 DEF ReleaseStreams, Releasing, Flow, BeforeGroup
    <3>2. ToRelease = {{}}
      BY <2>2, <3>1 DEF ToRelease
    <3>3. UNCHANGED <<ase, linked, dead>>
      BY <1>3, <3>2 DEF ReleaseStreams, Rest, peerVars, controllerVars
    <3> QED BY <2>2, <3>3 DEF HandedBack
  <2> QED BY <2>1, <2>2
<1>4. CASE NothingToRelease
  <2>1. ~linked /\ UNCHANGED linked
    BY <1>4 DEF NothingToRelease, HandsBack, Flow, Sounded, Rest, controllerVars
  <2> QED BY <2>1
<1>8. CASE Configure
  <2>1. configured /\ UNCHANGED configured
    BY <1>8 DEF Configure, Flow, BeforeGroup, OnGroup, flowVars
  <2> QED BY <2>1
<1>10. CASE Prepare \/ TearDown \/ ChannelEnds \/ TornDown \/ CreateGroup \/
            CreateChannels
  BY <1>10 DEF Prepare, TearDown, ChannelEnds, TornDown, CreateGroup, CreateChannels,
     HandedBack, Fail, NotDone, Unanswered, Unreachable, Rest, flowVars, agentVars,
     StepVars, peerVars, controllerVars
<1>16. CASE ChannelReports \/ Established \/ AudioEnds \/ AudioLost \/ CleanUp \/ Decide
  BY <1>16 DEF ChannelReports, Established, AudioEnds, AudioLost, CleanUp, Decide,
     HandedBack, Fail, NotDone, Unanswered, Unreachable, Rest, flowVars, agentVars,
     StepVars, peerVars, controllerVars
<1>18. CASE StartReceivers
  <2>1. configured /\ UNCHANGED configured
    BY <1>18 DEF StartReceivers, Flow, BeforeGroup, OnGroup, flowVars
  <2> QED BY <2>1
<1>23. CASE Recover \/ SoundHeard \/ WaitEnds \/ ChannelOpens
  BY <1>23 DEF Recover, SoundHeard, WaitEnds, ChannelOpens, HandedBack, Fail, NotDone,
     Unanswered, Unreachable, Rest, flowVars, agentVars, StepVars, peerVars,
     controllerVars
<1>26. CASE AseMoves
  <2>1. UNCHANGED <<linked, dead, configured>>
    BY <1>26 DEF AseMoves, controllerVars, agentVars
  <2>2. ASSUME NEW f \in Endpoint, HandedBack(f) PROVE HandedBack(f)'
    <3>1. PICK e \in Endpoint :
             \/ /\ ase[e].state = "releasing"
                /\ ase' \in {[ase EXCEPT ![e] = Idle], [ase EXCEPT ![e].state = "codec"]}
             \/ /\ ase[e].state = "enabling" /\ ase[e].ch \in open
                /\ ase' = [ase EXCEPT ![e].state = "streaming"]
      BY <1>26 DEF AseMoves
    <3>2. 0 \notin open
      BY ChannelOf DEF TypeOK, ControllerTypes
    <3>3. ase \in [Endpoint -> Ases]
      BY DEF TypeOK, HeadsetTypes
    <3> QED BY <2>2, <3>1, <3>2, <3>3 DEF HandedBack, Idle, Ase, Ases
  <2> QED BY <2>1, <2>2
<1>27. CASE AseSlips
  <2>1. UNCHANGED <<linked, dead, configured>>
    BY <1>27 DEF AseSlips, controllerVars, agentVars
  <2>2. ASSUME NEW f \in Endpoint, HandedBack(f) PROVE HandedBack(f)'
    <3>1. PICK e \in Endpoint : ase' = [ase EXCEPT ![e].state = "releasing"]
      BY <1>27 DEF AseSlips
    <3>3. ase \in [Endpoint -> Ases]
      BY DEF TypeOK, HeadsetTypes
    <3> QED BY <2>2, <3>1, <3>3 DEF HandedBack, Ases
  <2> QED BY <2>1, <2>2
<1>29. CASE ChannelCloses
  <2>1. UNCHANGED <<linked, dead, configured>>
    BY <1>29 DEF ChannelCloses, agentVars
  <2>2. ASSUME NEW f \in Endpoint, HandedBack(f) PROVE HandedBack(f)'
    <3>1. PICK ch : ase' = [e \in Endpoint |-> IF ase[e].state = "streaming" /\ ase[e].ch = ch
                                        THEN [ase[e] EXCEPT !.state = "qos"] ELSE ase[e]]
      BY <1>29 DEF ChannelCloses
    <3>3. ase \in [Endpoint -> Ases]
      BY DEF TypeOK, HeadsetTypes
    <3> QED BY <2>2, <3>1, <3>3 DEF HandedBack, Ases
  <2> QED BY <2>1, <2>2
<1>30. CASE LinkLost
  BY <1>30 DEF LinkLost
<1>99. CASE UNCHANGED vars
  BY <1>99 DEF HandedBack, vars, agentVars, peerVars, controllerVars, ghostVars
<1> QED BY <1>1, <1>3, <1>4, <1>8, <1>10, <1>16, <1>18, <1>23, <1>26, <1>27, <1>29,
       <1>30, <1>99 DEF Next

\* Where Decide can lead.
LEMMA DecideGoes ==
  ASSUME Flow, Decide
  PROVE  pc' \in {"over", "sound", "recover"}
<1>1. result \in {"stopped", "yielded", "recover", "lost", "failed"}
  BY DEF Decide, Flow, Sounded
<1>2. CASE ~linked \/ result \in {"stopped", "lost"}
  BY <1>2 DEF Decide
<1>3. CASE linked /\ result = "yielded"
  BY <1>3 DEF Decide
<1>4. CASE linked /\ result = "recover"
  BY <1>4 DEF Decide
<1>5. CASE linked /\ result = "failed"
  BY <1>5 DEF Decide
<1> QED BY <1>1, <1>2, <1>3, <1>4, <1>5

\* The only order there is of one channel, and of two.
LEMMA InOrderIs ==
  ASSUME TypeOK, Seen = Channels
  PROVE  \A c \in Channels : InOrder[c] = c
<1> DEFINE Sorted(s) == \A i, j \in DOMAIN s : i < j => s[i] < s[j]
<1>1. CASE Channels = {1}
  <2>1. Cardinality(Channels) = 1
    BY <1>1, FS_Singleton
  <2>2. SetToSeqs(Channels) = {f \in [1..1 -> {1}] : \A i, j \in 1..1 : i # j => f[i] # f[j]}
    BY <2>1, <1>1 DEF SetToSeqs
  <2>3. [i \in 1..1 |-> 1] \in SetToSeqs(Channels) /\ Sorted([i \in 1..1 |-> 1])
    BY <2>2
  <2>4. InOrder \in SetToSeqs(Channels)
    BY <2>3 DEF InOrder
  <2>5. QED BY <1>1, <2>2, <2>4
<1>2. CASE Channels = {1, 2}
  <2>1. Cardinality(Channels) = 2
    <3>1. IsFiniteSet({1}) /\ Cardinality({1}) = 1
      BY FS_Singleton
    <3>2. Cardinality({1} \cup {2}) = Cardinality({1}) + 1
      BY <3>1, FS_AddElement
    <3>3. Channels = {1} \cup {2}
      BY <1>2
    <3> QED BY <3>1, <3>2, <3>3
  <2>2. SetToSeqs(Channels) = {f \in [1..2 -> {1, 2}] : \A i, j \in 1..2 : i # j => f[i] # f[j]}
    BY <2>1, <1>2 DEF SetToSeqs
  <2>3. [i \in 1..2 |-> i] \in SetToSeqs(Channels) /\ Sorted([i \in 1..2 |-> i])
    BY <2>2
  <2>4. InOrder \in SetToSeqs(Channels) /\ Sorted(InOrder)
    BY <2>3 DEF InOrder
  <2>5. InOrder \in [1..2 -> {1, 2}] /\ InOrder[1] < InOrder[2]
    BY <2>2, <2>4
  <2>6. InOrder[1] \in {1, 2} /\ InOrder[2] \in {1, 2}
    BY <2>5
  <2>7. QED BY <1>2, <2>5, <2>6
<1>3. QED BY <1>1, <1>2, ChannelOf

\* The steps between the group and its channels.
Prepared == {"qos", "qoses", "enable", "create"}

\* A group is created and prepared while nothing is open; the channels of the
\* new one are asked for, and nothing closes before the next teardown.
Handles ==
    /\ pc \in Prepared \cup {"create group"} => open \cup waiting = {}
    /\ pc \in Prepared => known = Channels
    /\ pc \in OnGroup => closing = {}
    /\ pc \in {"ready", "streams"} /\ ~slipped => Channels \subseteq open
    /\ pc \in {"ready", "streams"} => \A c \in Channels : route[c] = c

\* Channels are opened for one group at a time.
LEMMA HandlesStep ==
  ASSUME TypeOK, Flow, Handles, [Next]_vars
  PROVE  Handles'
<1> USE DEF Handles, OnGroup, Prepared
<1>0. plan' = plan /\ Channels' = Channels
  BY PlanStays
<1>1. CASE PlanStream \/ Interrupted \/ FallsSilent \/ ReleaseStreams \/ NothingToRelease \/
            Polled \/
            ReadBack
  BY <1>1, <1>0 DEF PlanStream, Interrupted, FallsSilent, ReleaseStreams, NothingToRelease, Polled,
     ReadBack, Fail, Write, WriteChecked, NextStep, Begun, Reading, Flow, BeforeGroup,
     Releasing, HandsBack, Rest, flowVars, agentVars, StepVars, controllerVars,
     ghostVars
<1>7. CASE ReadBackFails \/ Configure \/ ConfigureFails \/ Prepare \/ TearDown \/
            ChannelEnds
  BY <1>7, <1>0 DEF ReadBackFails, Configure, ConfigureFails, Prepare, TearDown,
     ChannelEnds, Fail, Write, WriteChecked, NextStep, Begun, Reading, Flow,
     BeforeGroup, Releasing, HandsBack, Rest, flowVars, agentVars, StepVars,
     controllerVars, ghostVars
<1>13. CASE TornDown
  <2>1. pc' = "create group" => open \cup waiting = {}
    BY <1>13 DEF TornDown, Fail, Flow
  <2>2. pc' \in {"create group", "cleanup", "decide"}
    BY <1>13 DEF TornDown, Fail, Flow
  <2>3. UNCHANGED <<open, waiting, closing>>
    BY <1>13 DEF TornDown
  <2>4. closing \subseteq open \cup waiting
    BY DEF TypeOK, ControllerTypes
  <2> QED BY <2>1, <2>2, <2>3, <2>4
<1>14. CASE CreateGroup \/ CreateChannels \/ ChannelReports \/ StartReceivers \/
            AudioEnds \/ AudioLost
  BY <1>14, <1>0 DEF CreateGroup, CreateChannels, ChannelReports, StartReceivers,
     AudioEnds, AudioLost, Fail, Write, WriteChecked, NextStep, Begun, Reading, Flow,
     BeforeGroup, Releasing, HandsBack, Rest, flowVars, agentVars, StepVars,
     controllerVars, ghostVars
<1>17. CASE Established
  <2>1. Seen = Channels => \A c \in Channels : InOrder[c] = c
    BY InOrderIs
  <2>2. \/ /\ Seen = Channels /\ Seen \subseteq open
           /\ route' = InOrder /\ pc' = "ready"
        \/ pc' = "teardown"
    BY <1>17 DEF Established
  <2>3. pc = "await" /\ UNCHANGED <<open, waiting, closing, slipped, known>>
    BY <1>17 DEF Established, Rest, controllerVars, ghostVars
  <2> QED BY <1>0, <2>1, <2>2, <2>3
<1>21. CASE CleanUp \/ Recover \/ SoundHeard \/ WaitEnds \/ AseMoves \/ AseSlips
  BY <1>21, <1>0 DEF CleanUp, Recover, SoundHeard, WaitEnds, AseMoves, AseSlips, Fail,
     Write, WriteChecked, NextStep, Begun, Reading, Flow, BeforeGroup, Releasing,
     HandsBack, Rest, flowVars, agentVars, StepVars, controllerVars, ghostVars
<1>22. CASE Decide
  <2>1. pc' \in {"over", "sound", "recover"}
    BY <1>22, DecideGoes
  <2> QED BY <2>1
<1>28. CASE ChannelOpens
  <2>1. UNCHANGED <<pc, known, route, slipped>>
    BY <1>28 DEF ChannelOpens, agentVars, ghostVars
  <2>2. open \subseteq open' /\ closing' \subseteq closing /\ waiting # {}
    BY <1>28 DEF ChannelOpens
  <2> QED BY <1>0, <2>1, <2>2
<1>29. CASE ChannelCloses
  <2>1. UNCHANGED <<pc, known, route, slipped>>
    BY <1>29 DEF ChannelCloses, agentVars, ghostVars
  <2>2. open' \subseteq open /\ closing' \subseteq closing /\ waiting' \subseteq waiting /\ closing # {}
    BY <1>29 DEF ChannelCloses
  <2> QED BY <1>0, <2>1, <2>2
<1>30. CASE LinkLost
  <2>1. open' = {} /\ waiting' = {} /\ closing' = {} /\ slipped'
    BY <1>30 DEF LinkLost
  <2>2. UNCHANGED <<pc, known, route>>
    BY <1>30 DEF LinkLost, agentVars
  <2> QED BY <1>0, <2>1, <2>2
<1>99. CASE UNCHANGED vars
  BY <1>99, <1>0 DEF vars, agentVars, peerVars, controllerVars, ghostVars
<1> QED BY <1>1, <1>7, <1>13, <1>14, <1>17, <1>21, <1>22, <1>28, <1>29, <1>30, <1>99 DEF
       Next

\* An operation that is legal and not refused does what it says.
LEMMA Obeyed ==
  ASSUME TypeOK, NEW op \in Operations, NEW es \in SUBSET Endpoint, Write(op, es), ~slipped',
         NEW e \in Endpoint, e \in es => Legal(op, e)
  PROVE  /\ ~slipped
         /\ e \notin es => ase'[e] = ase[e]
         /\ e \in es /\ op = "codec" => ase'[e].state = "codec"
         /\ e \in es /\ op = "qos" => ase'[e].state = "qos"
         /\ e \in es /\ op = "enable" => ase'[e].state = "enabling"
         /\ e \in es /\ op = "ready" => ase'[e].state \in {"enabling", "streaming"}
         /\ op \in {"enable", "ready"} => ase'[e].ch = ase[e].ch
<1>1. PICK willing \in BOOLEAN, exactly \in BOOLEAN :
          /\ Handle(op, es, willing, exactly) /\ (slipped' <=> slipped \/ ~willing)
  BY DEF Write
<1>2. ~slipped /\ willing
  BY <1>1
<1>3. ase'[e] = IF e \in es THEN Obeys(op, e, exactly) ELSE ase[e]
  BY <1>1, <1>2 DEF Handle
<1>4. ase[e] \in Ases
  BY DEF TypeOK, HeadsetTypes
<1>5. CASE op = "codec"
  BY <1>2, <1>3, <1>5 DEF Obeys, Ase
<1>6. CASE op = "qos"
  BY <1>2, <1>3, <1>6 DEF Obeys, Ase
<1>7. CASE op = "enable"
  BY <1>2, <1>3, <1>4, <1>7 DEF Obeys, Ases
<1>8. CASE op = "ready"
  BY <1>2, <1>3, <1>4, <1>8 DEF Obeys, Ases, Legal
<1>9. CASE op = "release"
  BY <1>2, <1>3, <1>9
<1>10. QED BY <1>5, <1>6, <1>7, <1>8, <1>9 DEF Operations

-----------------------------------------------------------------------------
\* Where the endpoints are, all of them or one.
AllIn(S) == \A e \in Endpoint : ase[e].state \in S
OnChannel(e) == ase[e].ch = Channel(e)

\* Where the endpoints are while the agent proceeds, if nothing else moves them.
States ==
    ~slipped =>
       /\ pc = "freed" => \A e \in confirmed : ase[e].state \in {"idle", "codec"}
       /\ pc = "codec" => AllIn({"idle", "codec"})
       /\ \/ pc \in {"codecs", "prepare", "create group", "qos"}
          \/ pc \in {"teardown", "closing"} /\ after = "prepared"
          => AllIn({"codec"})
       /\ pc \in {"qoses", "enable"} => AllIn({"qos"})
       /\ pc = "qoses" => \A e \in confirmed : OnChannel(e)
       /\ pc \in {"enable", "create", "await", "ready", "streams"} =>
             \A e \in Endpoint : OnChannel(e)
       /\ pc \in {"create", "await", "ready", "streams"} => AllIn({"enabling", "streaming"})
       /\ pc \in {"create", "await", "ready"} =>
             \A e \in Endpoint : plan[e] = "source" => ase[e].state = "enabling"
       /\ pc = "streams" => \A e \in confirmed : ase[e].state = "streaming"

\* Read-backs are counted from nothing, whatever is read back.
Confirming == pc \notin Reading => confirmed = {}

\* Only a read-back confirms, and leaving the step forgets it.
LEMMA ConfirmingStep ==
  ASSUME Confirming, Flow, [Next]_vars
  PROVE  Confirming'
<1> USE DEF Confirming, Reading
<1>1. CASE PlanStream \/ Interrupted \/ FallsSilent \/ ReleaseStreams \/ NothingToRelease \/
            Polled \/
            ReadBack
  BY <1>1 DEF PlanStream, Interrupted, FallsSilent, ReleaseStreams, NothingToRelease, Polled,
     ReadBack,
     Fail, Flow, BeforeGroup, Releasing, Begun, WriteChecked, NextStep, StepVars,
     agentVars
<1>7. CASE ReadBackFails \/ Configure \/ ConfigureFails \/ Prepare \/ TearDown \/
            ChannelEnds
  BY <1>7 DEF ReadBackFails, Configure, ConfigureFails, Prepare, TearDown, ChannelEnds,
     Fail, Flow, BeforeGroup, Releasing, Begun, WriteChecked, NextStep, StepVars,
     agentVars
<1>13. CASE TornDown \/ CreateGroup \/ CreateChannels \/ ChannelReports \/ Established
            \/ StartReceivers
  BY <1>13 DEF TornDown, CreateGroup, CreateChannels, ChannelReports, Established,
     StartReceivers, Fail, Flow, BeforeGroup, Releasing, Begun, WriteChecked, NextStep,
     StepVars, agentVars
<1>19. CASE AudioEnds \/ AudioLost \/ CleanUp \/ Decide \/ Recover \/ SoundHeard
  BY <1>19 DEF AudioEnds, AudioLost, CleanUp, Decide, Recover, SoundHeard, Fail, Flow,
     BeforeGroup, Releasing, Begun, WriteChecked, NextStep, StepVars, agentVars
<1>25. CASE WaitEnds \/ AseMoves \/ AseSlips \/ ChannelOpens \/ ChannelCloses \/
            LinkLost
  BY <1>25 DEF WaitEnds, AseMoves, AseSlips, ChannelOpens, ChannelCloses, LinkLost, Fail,
     Flow, BeforeGroup, Releasing, Begun, WriteChecked, NextStep, StepVars, agentVars
<1>99. CASE UNCHANGED vars
  BY <1>99 DEF vars, agentVars, peerVars, controllerVars, ghostVars
<1> QED BY <1>1, <1>7, <1>13, <1>19, <1>25, <1>99 DEF Next

\* What nobody else moves stands where the agent has brought it.
LEMMA StatesStep ==
  ASSUME TypeOK, Flow, Handles, Confirming, States, [Next]_vars
  PROVE  States'
<1> USE DEF States
<1>0. plan' = plan /\ Channels' = Channels /\ \A e : Channel(e)' = Channel(e)
  BY PlanStays
<1>1. CASE PlanStream \/ Interrupted \/ FallsSilent \/ NothingToRelease \/ ReadBackFails \/
            ConfigureFails \/ Prepare
  BY <1>1, <1>0 DEF PlanStream, Interrupted, FallsSilent, NothingToRelease, ReadBackFails,
     ConfigureFails, Prepare, Fail, AllIn, OnChannel, Flow, BeforeGroup, OnGroup,
     Releasing, HandsBack, Rest, flowVars, agentVars, StepVars, peerVars,
     controllerVars, ghostVars
<1>3. CASE ReleaseStreams
  <2>1. pc' \in {"polling", "freed", "teardown"}
        /\ (pc' = "teardown" => after' # "prepared")
    BY <1>3 DEF ReleaseStreams, Flow, BeforeGroup, Releasing
  <2>2. CASE pc' = "freed"
    <3>1. pc = "free"
      BY <1>3, <2>2 DEF ReleaseStreams, Flow, BeforeGroup, Releasing
    <3>2. confirmed' = {}
      BY <1>3, <3>1 DEF ReleaseStreams, Confirming, Reading
    <3> QED BY <2>2, <3>2
  <2> QED BY <2>1, <2>2
<1>5. CASE Polled
  <2>1. pc' \in {"freed", "teardown"} /\ (pc' = "teardown" => after' # "prepared")
    BY <1>5 DEF Polled, Flow, flowVars
  <2>2. confirmed' = {}
    BY <1>5 DEF Polled, Confirming, Reading
  <2> QED BY <2>1, <2>2
<1>6. CASE ReadBack
  <2> SUFFICES ASSUME ~slipped', pc' # "cleanup" PROVE States'
    OBVIOUS
  <2>1. ~slipped /\ UNCHANGED ase
    BY <1>6 DEF ReadBack
  <2>2. AsWanted(Pending) /\ pc \in Reading
        /\ \/ confirmed \cup {Pending} = Endpoint /\ pc' = NextStep
           \/ confirmed' = confirmed \cup {Pending} /\ pc' = pc
    BY <1>6 DEF ReadBack, Fail
  <2>3. CASE pc = "freed"
    <3>1. \A e \in confirmed \cup {Pending} : ase[e].state \in {"idle", "codec"}
      BY <2>1, <2>2, <2>3 DEF AsWanted, Released
    <3> QED BY <2>1, <2>2, <2>3, <3>1 DEF NextStep, AllIn
  <2>4. CASE pc = "codecs"
    BY <2>1, <2>2, <2>4 DEF NextStep, AllIn
  <2>5. CASE pc = "qoses"
    <3>1. \A e \in confirmed \cup {Pending} : ase[e].ch = Channel(e)
      BY <2>1, <2>2, <2>5 DEF AsWanted, QosAsWanted, OnChannel
    <3> QED BY <1>0, <2>1, <2>2, <2>5, <3>1 DEF NextStep, AllIn, OnChannel
  <2>6. CASE pc = "streams"
    <3>1. \A e \in confirmed \cup {Pending} : ase[e].state = "streaming"
      BY <2>1, <2>2, <2>6 DEF AsWanted, StreamAsWanted
    <3> QED BY <1>0, <2>1, <2>2, <2>6, <3>1 DEF NextStep, AllIn, OnChannel
  <2> QED BY <2>2, <2>3, <2>4, <2>5, <2>6 DEF Reading
<1>8. CASE Configure
  <2> SUFFICES ASSUME ~slipped' PROVE States'
    OBVIOUS
  <2>1. CASE pc = "codec" /\ WriteChecked("codec", "codecs")
    <3>1. pc' \in {"cleanup", "codecs"} /\ Write("codec", Endpoint)
      BY <2>1 DEF WriteChecked, Fail
    <3>2. ~slipped
      BY <3>1 DEF Write
    <3>3. \A e \in Endpoint : Legal("codec", e)
      BY <2>1, <3>2 DEF AllIn, Legal
    <3>4. \A e \in Endpoint : ase'[e].state = "codec"
      BY <3>1, <3>3, Obeyed DEF Operations
    <3> QED BY <3>1, <3>4 DEF AllIn
  <2>2. CASE pc = "qos" /\ WriteChecked("qos", "qoses")
    <3>1. pc' \in {"cleanup", "qoses"} /\ confirmed' = {} /\ Write("qos", Endpoint)
      BY <2>2 DEF WriteChecked, Fail
    <3>2. ~slipped
      BY <3>1 DEF Write
    <3>3. \A e \in Endpoint : Legal("qos", e)
      BY <2>2, <3>2 DEF AllIn, Legal
    <3>4. \A e \in Endpoint : ase'[e].state = "qos"
      BY <3>1, <3>3, Obeyed DEF Operations
    <3> QED BY <3>1, <3>4 DEF AllIn
  <2>3. CASE pc = "enable" /\ WriteChecked("enable", "create")
    <3>1. pc' \in {"cleanup", "create"} /\ Write("enable", Endpoint)
      BY <2>3 DEF WriteChecked, Fail
    <3>2. ~slipped
      BY <3>1 DEF Write
    <3>3. \A e \in Endpoint : Legal("enable", e)
      BY <2>3, <3>2 DEF AllIn, Legal
    <3>4. \A e \in Endpoint : ase'[e].state = "enabling" /\ ase'[e].ch = ase[e].ch
      BY <3>1, <3>3, Obeyed DEF Operations
    <3>5. \A e \in Endpoint : ase[e].ch = Channel(e)
      BY <2>3, <3>2 DEF OnChannel
    <3> QED BY <1>0, <3>1, <3>4, <3>5 DEF AllIn, OnChannel
  <2> QED BY <1>8, <2>1, <2>2, <2>3 DEF Configure
<1>11. CASE TearDown \/ ChannelEnds \/ CreateGroup \/ CreateChannels \/ ChannelReports
            \/ AudioEnds
  BY <1>11, <1>0 DEF TearDown, ChannelEnds, CreateGroup, CreateChannels, ChannelReports,
     AudioEnds, Fail, AllIn, OnChannel, Flow, BeforeGroup, OnGroup, Releasing,
     HandsBack, Rest, flowVars, agentVars, StepVars, peerVars, controllerVars, ghostVars
<1>13. CASE TornDown
  <2>1. pc = "closing" /\ UNCHANGED <<ase, after, slipped>>
    BY <1>13 DEF TornDown, peerVars
  <2>2. \/ pc' = "create group" /\ after = "prepared"
        \/ pc' \in {"cleanup", "decide"}
    BY <1>13 DEF TornDown, Fail, Flow
  <2> QED BY <2>1, <2>2 DEF AllIn
<1>17. CASE Established
  <2>1. pc' \in {"ready", "teardown"} /\ pc = "await" /\ (pc' = "teardown" => after' = "cleanup")
    BY <1>17 DEF Established
  <2>2. UNCHANGED <<ase, slipped, confirmed>>
    BY <1>17 DEF Established, Rest, peerVars, ghostVars
  <2> QED BY <1>0, <2>1, <2>2 DEF AllIn, OnChannel
<1>18. CASE StartReceivers
  <2> SUFFICES ASSUME ~slipped' PROVE States'
    OBVIOUS
  <2> DEFINE sources == {e \in Endpoint : plan[e] = "source"}
  <2>1. pc = "ready" /\ pc' = "streams" /\ UNCHANGED confirmed
        /\ (Write("ready", sources) \/ UNCHANGED <<ase, slipped>>)
    BY <1>18 DEF StartReceivers, Rest, peerVars, ghostVars
  <2>2. ~slipped
    BY <2>1 DEF Write
  <2>3. \A e \in Endpoint : ase[e].state \in {"enabling", "streaming"} /\ ase[e].ch = Channel(e)
    BY <2>1, <2>2 DEF AllIn, OnChannel
  <2>4. \A e \in Endpoint : ase'[e].state \in {"enabling", "streaming"} /\ ase'[e].ch = Channel(e)
    <3>1. CASE Write("ready", sources)
      <4>1. \A e \in sources : Legal("ready", e)
        BY <2>1, <2>2 DEF Legal
      <4>2. sources \in SUBSET Endpoint
        OBVIOUS
      <4> HIDE DEF sources
      <4>3. ASSUME NEW e \in Endpoint
            PROVE ase'[e].state \in {"enabling", "streaming"} /\ ase'[e].ch = ase[e].ch
        <5>1. CASE e \in sources
          <6>1. e \in sources => Legal("ready", e)
            BY <4>1
          <6> QED BY <5>1, <6>1, <3>1, <4>2, Obeyed DEF Operations
        <5>2. CASE e \notin sources
          <6>1. ase'[e] = ase[e]
            BY <5>2, <3>1, <4>2, Obeyed DEF Operations
          <6> QED BY <2>3, <6>1
        <5> QED BY <5>1, <5>2
      <4> QED BY <2>3, <4>3
    <3>2. CASE UNCHANGED ase
      BY <2>3, <3>2
    <3> QED BY <2>1, <3>1, <3>2
  <2>5. confirmed = {}
    BY <2>1 DEF Confirming, Reading
  <2> QED BY <1>0, <2>1, <2>4, <2>5 DEF AllIn, OnChannel
<1>20. CASE AudioLost \/ CleanUp \/ Recover \/ SoundHeard \/ WaitEnds \/ ChannelOpens
  BY <1>20, <1>0 DEF AudioLost, CleanUp, Recover, SoundHeard, WaitEnds, ChannelOpens,
     Fail, AllIn, OnChannel, Flow, BeforeGroup, OnGroup, Releasing, HandsBack, Rest,
     flowVars, agentVars, StepVars, peerVars, controllerVars, ghostVars
<1>22. CASE Decide
  <2>1. pc' \in {"over", "sound", "recover"}
    BY <1>22, DecideGoes
  <2> QED BY <2>1
<1>26. CASE AseMoves
  <2>1. PICK e \in Endpoint :
           \/ ase[e].state = "releasing" /\ ase' = [ase EXCEPT ![e] = Idle]
           \/ ase[e].state = "releasing" /\ ase' = [ase EXCEPT ![e].state = "codec"]
           \/ /\ ase[e].state = "enabling" /\ plan[e] = "sink"
              /\ ase' = [ase EXCEPT ![e].state = "streaming"]
    BY <1>26 DEF AseMoves
  <2>2. ase \in [Endpoint -> Ases]
    BY DEF TypeOK, HeadsetTypes
  <2>3. UNCHANGED <<pc, after, confirmed, slipped>>
    BY <1>26 DEF AseMoves, agentVars, ghostVars
  <2>4. \A f \in Endpoint \ {e} : ase'[f] = ase[f]
    BY <2>1, <2>2
  <2>5. \/ ase[e].state = "releasing" /\ ase'[e].state \in {"idle", "codec"}
        \/ /\ ase[e].state = "enabling" /\ plan[e] = "sink"
           /\ ase'[e].state = "streaming" /\ ase'[e].ch = ase[e].ch
    <3>1. CASE ase[e].state = "releasing" /\ ase' = [ase EXCEPT ![e] = Idle]
      BY <2>2, <3>1 DEF Idle, Ase
    <3>2. CASE ase[e].state = "releasing" /\ ase' = [ase EXCEPT ![e].state = "codec"]
      BY <2>2, <3>2 DEF Ases
    <3>3. CASE /\ ase[e].state = "enabling" /\ plan[e] = "sink"
               /\ ase' = [ase EXCEPT ![e].state = "streaming"]
      BY <2>2, <3>3 DEF Ases
    <3> QED BY <2>1, <3>1, <3>2, <3>3
  <2> SUFFICES ASSUME ~slipped PROVE States'
    BY <2>3
  <2>6. CASE ase[e].state = "releasing" /\ ase'[e].state \in {"idle", "codec"}
    <3>1. confirmed \subseteq Endpoint
      BY DEF TypeOK, AgentTypes
    <3> QED BY <1>0, <2>3, <2>4, <2>6, <3>1 DEF AllIn, OnChannel
  <2>7. CASE /\ ase[e].state = "enabling" /\ plan[e] = "sink"
             /\ ase'[e].state = "streaming" /\ ase'[e].ch = ase[e].ch
    <3>1. confirmed \subseteq Endpoint
      BY DEF TypeOK, AgentTypes
    <3>2. \A f \in Endpoint : ase'[f].ch = ase[f].ch
      BY <2>4, <2>7
    <3>3. \A f \in Endpoint : ase'[f].state = ase[f].state \/ (f = e /\ ase'[f].state = "streaming")
      BY <2>4, <2>7
    <3>4. e \notin confirmed \/ pc \notin {"freed"}
      BY <2>7
    <3> QED BY <1>0, <2>3, <2>7, <3>1, <3>2, <3>3 DEF AllIn, OnChannel
  <2> QED BY <2>5, <2>6, <2>7
<1>27. CASE AseSlips \/ LinkLost
  BY <1>27 DEF AseSlips, LinkLost
<1>29. CASE ChannelCloses
  <2>1. PICK ch \in closing : ase' = [e \in Endpoint |-> IF ase[e].state = "streaming" /\ ase[e].ch = ch
                                        THEN [ase[e] EXCEPT !.state = "qos"] ELSE ase[e]]
    BY <1>29 DEF ChannelCloses
  <2>2. UNCHANGED <<pc, after, confirmed, slipped>>
    BY <1>29 DEF ChannelCloses, agentVars, ghostVars
  <2>3. pc \notin OnGroup
    BY <2>1 DEF Handles
  <2>4. \A e \in Endpoint : ase[e].state # "streaming" => ase'[e] = ase[e]
    BY <2>1
  <2>5. confirmed \subseteq Endpoint
    BY DEF TypeOK, AgentTypes
  <2> QED BY <2>2, <2>3, <2>4, <2>5 DEF AllIn, OnChannel, OnGroup
<1>99. CASE UNCHANGED vars
  BY <1>99, <1>0 DEF AllIn, OnChannel, vars, agentVars, peerVars, controllerVars, ghostVars
<1> QED BY <1>1, <1>3, <1>5, <1>6, <1>8, <1>11, <1>13, <1>17, <1>18, <1>20, <1>22,
       <1>26, <1>27, <1>29, <1>99 DEF Next

-----------------------------------------------------------------------------
\* An event that ends a channel.
IsEnd(i) == events[i].kind = "closed"

\* Channels in use are remembered, a teardown waits for all of them, and every end
\* that is to come or has come is one that it waits for, and the only one.
Tracked ==
    (~late /\ linked) =>
       /\ open \cup waiting \subseteq known
       /\ pc = "closing" => open \cup waiting \subseteq pending
       /\ closing \subseteq pending
       /\ pc # "closing" => closing = {} /\ \A i \in DOMAIN events : ~IsEnd(i)
       /\ \A i \in DOMAIN events : IsEnd(i) => events[i].ch \in pending \ (open \cup waiting)
       /\ \A i, j \in DOMAIN events :
             (IsEnd(i) /\ IsEnd(j) /\ events[i].ch = events[j].ch) => i = j

\* What an event taken out leaves of the others.
LEMMA TakenOut ==
  ASSUME TypeOK, NEW i \in DOMAIN events, events' = RemoveAt(events, i)
  PROVE  \A j \in DOMAIN events' : \E k \in DOMAIN events :
            k = (IF j < i THEN j ELSE j + 1) /\ k # i /\ events'[j] = events[k]
<1>1. events \in Seq(Reports)
  BY DEF TypeOK, ControllerTypes
<1>2. DOMAIN events = 1..Len(events) /\ Len(events) \in Nat
  BY <1>1, LenProperties
<1>3. /\ events' \in Seq(Reports) /\ Len(events') = Len(events) - 1
      /\ \A j \in 1..(Len(events) - 1) : events'[j] = IF j < i THEN events[j] ELSE events[j + 1]
  BY <1>1, <1>2, Removed
<1>4. DOMAIN events' = 1..(Len(events) - 1)
  BY <1>3, LenProperties
<1> QED BY <1>2, <1>3, <1>4

\* And what one more event adds to them.
LEMMA Added ==
  ASSUME TypeOK, NEW ch \in 1..2, NEW kind \in {"up", "failed", "closed"},
         events' = Append(events, Ch(ch, kind))
  PROVE  \A j \in DOMAIN events' :
            \/ j \in DOMAIN events /\ events'[j] = events[j]
            \/ j = Len(events) + 1 /\ j \notin DOMAIN events
               /\ events'[j].ch = ch /\ events'[j].kind = kind
<1>1. events \in Seq(Reports)
  BY DEF TypeOK, ControllerTypes
<1>2. Ch(ch, kind) \in Reports
  BY DEF Ch, Reports
<1>3. DOMAIN events = 1..Len(events) /\ Len(events) \in Nat
  BY <1>1, LenProperties
<1>4. /\ DOMAIN events' = 1..(Len(events) + 1)
      /\ \A j \in 1..Len(events) : events'[j] = events[j]
      /\ events'[Len(events) + 1] = Ch(ch, kind)
  BY <1>1, <1>2, <1>3, AppendProperties
<1> QED BY <1>3, <1>4 DEF Ch

\* The channels that are to end are those the session waits for.
LEMMA TrackedStep ==
  ASSUME TypeOK, Flow, Handles, Tracked, [Next]_vars
  PROVE  Tracked'
<1> SUFFICES ASSUME ~late', linked' PROVE Tracked'
  BY DEF Tracked
<1> USE DEF Tracked
<1>0. plan' = plan /\ Channels' = Channels
  BY PlanStays
<1>1. CASE PlanStream \/ Interrupted \/ FallsSilent \/ NothingToRelease \/ Polled \/ ReadBack \/
            ReadBackFails
  BY <1>1, <1>0 DEF PlanStream, Interrupted, FallsSilent, NothingToRelease, Polled, ReadBack,
     ReadBackFails, Fail, IsEnd, Write, WriteChecked, Begun, Reading, NextStep, Flow,
     BeforeGroup, OnGroup, Releasing, HandsBack, Rest, flowVars, agentVars, StepVars,
     controllerVars, ghostVars
<1>3. CASE ReleaseStreams
  <2>1. pc \in Releasing /\ pc' \in {"polling", "freed", "teardown"}
    BY <1>3 DEF ReleaseStreams, Flow, BeforeGroup, Releasing
  <2>2. UNCHANGED <<known, pending>> /\ UNCHANGED controllerVars /\ UNCHANGED late
    BY <1>3 DEF ReleaseStreams, Rest, Write, ghostVars
  <2> QED BY <2>1, <2>2 DEF IsEnd, Releasing, controllerVars
<1>8. CASE Configure \/ ConfigureFails \/ Prepare \/ Established \/ StartReceivers \/
            AudioEnds
  BY <1>8, <1>0 DEF Configure, ConfigureFails, Prepare, Established, StartReceivers,
     AudioEnds, Fail, IsEnd, Write, WriteChecked, Begun, Reading, NextStep, Flow,
     BeforeGroup, OnGroup, Releasing, HandsBack, Rest, flowVars, agentVars, StepVars,
     controllerVars, ghostVars
<1>11. CASE TearDown
  <2>1. /\ pending' = known \cap (open \cup waiting) /\ closing' \subseteq closing \cup pending'
        /\ pc = "teardown" /\ pc' = "closing"
        /\ UNCHANGED <<known, open, waiting, events, linked, late>>
    BY <1>11 DEF TearDown, ghostVars
  <2>2. ~late /\ linked
    BY <2>1
  <2> QED BY <2>1, <2>2 DEF IsEnd
<1>12. CASE ChannelEnds
  <2>1. PICK i \in DOMAIN events : 
          End(i) /\ pending' = pending \ {events[i].ch} /\ events' = RemoveAt(events, i)
    BY <1>12 DEF ChannelEnds
  <2>2. /\ pc = "closing" /\ pc' = pc /\ ~late /\ linked
        /\ UNCHANGED <<known, open, waiting, closing>>
    BY <1>12 DEF ChannelEnds, ghostVars
  <2>3. IsEnd(i) /\ events[i].ch \in pending
    BY <2>1 DEF End, IsEnd
  <2>4. \A j \in DOMAIN events' : \E k \in DOMAIN events :
            k = (IF j < i THEN j ELSE j + 1) /\ k # i /\ events'[j] = events[k]
    BY <2>1, TakenOut
  <2>5. open \cup waiting \subseteq pending' /\ open \cup waiting \subseteq known
    BY <2>1, <2>2, <2>3
  <2>6. closing \subseteq pending'
    <3>1. closing \subseteq open \cup waiting
      BY DEF TypeOK, ControllerTypes
    <3> QED BY <3>1, <2>5
  <2>7. \A j \in DOMAIN events' : IsEnd(j)' => events'[j].ch \in pending' \ (open \cup waiting)
    BY <2>1, <2>2, <2>3, <2>4 DEF IsEnd
  <2>8. DOMAIN events' \subseteq Int /\ i \in Int
    <3>1. events \in Seq(Reports) /\ events' \in Seq(Reports)
      BY TypeStep DEF TypeOK, ControllerTypes
    <3> QED BY <3>1, LenProperties
  <2>9. \A j, l \in DOMAIN events' :
             (IsEnd(j)' /\ IsEnd(l)' /\ events'[j].ch = events'[l].ch) => j = l
    <3>1. SUFFICES ASSUME NEW j \in DOMAIN events', NEW l \in DOMAIN events',
                          IsEnd(j)', IsEnd(l)', events'[j].ch = events'[l].ch
                   PROVE  j = l
      OBVIOUS
    <3>2. PICK jj \in DOMAIN events : jj = (IF j < i THEN j ELSE j + 1) /\ events'[j] = events[jj]
      BY <2>4
    <3>3. PICK ll \in DOMAIN events : ll = (IF l < i THEN l ELSE l + 1) /\ events'[l] = events[ll]
      BY <2>4
    <3>4. jj = ll
      BY <2>2, <3>1, <3>2, <3>3 DEF IsEnd
    <3> QED BY <2>8, <3>2, <3>3, <3>4
  <2> QED BY <2>2, <2>5, <2>6, <2>7, <2>9
<1>13. CASE TornDown
  <2>1. /\ pc = "closing" /\ pc' # "closing" /\ pending' = {}
        /\ UNCHANGED <<open, waiting, closing, events, linked>>
    BY <1>13 DEF TornDown, Fail, Flow
  <2>2. ToCome = {} /\ ~late
    BY <1>13 DEF TornDown
  <2>3. ~late /\ linked
    BY <2>1, <2>2
  <2>4. known' = Remembered(open \cup waiting = {})
    BY <1>13 DEF TornDown
  <2>5. open \cup waiting \subseteq known'
    BY <2>1, <2>3, <2>4 DEF Remembered
  <2>6. closing = {}
    BY <2>2, <2>3 DEF ToCome
  <2>7. \A i \in DOMAIN events : ~IsEnd(i)
    <3>1. SUFFICES ASSUME NEW i \in DOMAIN events, IsEnd(i) PROVE FALSE
      OBVIOUS
    <3>2. events[i] \in Reports
      BY ElementOfSeq, LenProperties DEF TypeOK, ControllerTypes
    <3>3. events[i] = Ch(events[i].ch, "closed")
      BY <3>1, <3>2 DEF Ch, IsEnd, Reports
    <3>4. events[i].ch \in pending
      BY <2>3, <3>1
    <3> QED BY <2>2, <3>3, <3>4 DEF ToCome
  <2> QED BY <2>1, <2>5, <2>6, <2>7 DEF IsEnd
<1>14. CASE CreateGroup
  <2>1. /\ pc' # "closing" /\ pc = "create group" /\ ~late /\ linked
        /\ UNCHANGED <<pending, open, waiting, closing, events>>
    BY <1>14 DEF CreateGroup, Fail, ghostVars
  <2>2. open \cup waiting = {}
    BY <2>1 DEF Handles
  <2> QED BY <2>1, <2>2 DEF IsEnd
<1>15. CASE CreateChannels
  <2>1. /\ pc' # "closing" /\ pc = "create" /\ ~late /\ linked
        /\ UNCHANGED <<known, pending, open, closing, events>>
        /\ (waiting' = Channels \/ waiting' = waiting)
    BY <1>15 DEF CreateChannels, ghostVars
  <2>2. open = {} /\ known = Channels
    BY <2>1 DEF Handles, Prepared
  <2> QED BY <2>1, <2>2 DEF IsEnd
<1>16. CASE ChannelReports
  <2>1. PICK i \in DOMAIN events : events' = RemoveAt(events, i)
    BY <1>16 DEF ChannelReports
  <2>2. /\ pc = "await" /\ pc' = pc /\ ~late /\ linked
        /\ UNCHANGED <<known, pending, open, waiting, closing>>
    BY <1>16 DEF ChannelReports, ghostVars
  <2>4. \A j \in DOMAIN events' : \E k \in DOMAIN events : events'[j] = events[k]
    BY <2>1, TakenOut
  <2>5. \A j \in DOMAIN events' : ~IsEnd(j)'
    BY <2>2, <2>4 DEF IsEnd
  <2> QED BY <2>2, <2>5
<1>20. CASE AudioLost \/ CleanUp \/ Recover \/ SoundHeard \/ WaitEnds \/ AseMoves
  BY <1>20, <1>0 DEF AudioLost, CleanUp, Recover, SoundHeard, WaitEnds, AseMoves, Fail,
     IsEnd, Write, WriteChecked, Begun, Reading, NextStep, Flow, BeforeGroup, OnGroup,
     Releasing, HandsBack, Rest, flowVars, agentVars, StepVars, controllerVars,
     ghostVars
<1>22. CASE Decide
  <2>1. pc' \in {"over", "sound", "recover"}
    BY <1>22, DecideGoes
  <2>2. pc = "decide" /\ UNCHANGED <<known, pending, open, waiting, closing, events, linked, late>>
    BY <1>22 DEF Decide, Rest, controllerVars, ghostVars
  <2> QED BY <2>1, <2>2 DEF IsEnd
<1>27. CASE AseSlips
  BY <1>27, <1>0 DEF AseSlips, Fail, IsEnd, Write, WriteChecked, Begun, Reading, NextStep,
     Flow, BeforeGroup, OnGroup, Releasing, HandsBack, Rest, flowVars, agentVars,
     StepVars, controllerVars, ghostVars
<1>28. CASE ChannelOpens
  <2>1. PICK ch \in waiting, kind \in {"up", "failed"} :
          events' = Append(events, Ch(ch, kind))
    BY <1>28 DEF ChannelOpens
  <2>2. ch \in 1..2
    BY ChannelOf DEF TypeOK, ControllerTypes
  <2>3. \A j \in DOMAIN events' : \/ j \in DOMAIN events /\ events'[j] = events[j]
                                  \/ events'[j].kind = kind
    BY <2>1, <2>2, Added
  <2>4. \A j \in DOMAIN events' : IsEnd(j)' => j \in DOMAIN events /\ events'[j] = events[j] /\ IsEnd(j)
    BY <2>3 DEF IsEnd
  <2>5. /\ open' \cup waiting' \subseteq open \cup waiting /\ closing' \subseteq closing
        /\ ~late /\ linked /\ UNCHANGED <<pc, known, pending>>
    BY <1>28 DEF ChannelOpens, agentVars, ghostVars
  <2> QED BY <2>4, <2>5
<1>29. CASE ChannelCloses
  <2>1. PICK ch \in closing :
          /\ closing' = closing \ {ch} /\ open' = open \ {ch} /\ waiting' = waiting \ {ch}
          /\ events' = Append(events, Ch(ch, "closed"))
    BY <1>29 DEF ChannelCloses
  <2>2. ch \in open \cup waiting /\ ch \in 1..2
    BY ChannelOf DEF TypeOK, ControllerTypes
  <2>3. \A j \in DOMAIN events' : \/ j \in DOMAIN events /\ events'[j] = events[j]
                                  \/ j = Len(events) + 1 /\ j \notin DOMAIN events /\ events'[j].ch = ch
    BY <2>1, <2>2, Added
  <2>4. ~late /\ linked /\ UNCHANGED <<pc, known, pending>>
    BY <1>29 DEF ChannelCloses, agentVars, ghostVars
  <2>5. pc = "closing" /\ ch \in pending
    BY <2>1, <2>4
  <2>6. \A j \in DOMAIN events : IsEnd(j) => events[j].ch # ch
    BY <2>2, <2>4
  <2>7. \A j \in DOMAIN events' : IsEnd(j)' => events'[j].ch \in pending' \ (open' \cup waiting')
    BY <2>1, <2>3, <2>4, <2>5 DEF IsEnd
  <2>8. \A j, l \in DOMAIN events' :
             (IsEnd(j)' /\ IsEnd(l)' /\ events'[j].ch = events'[l].ch) => j = l
    <3>1. SUFFICES ASSUME NEW j \in DOMAIN events', NEW l \in DOMAIN events',
                          IsEnd(j)', IsEnd(l)', events'[j].ch = events'[l].ch
                   PROVE  j = l
      OBVIOUS
    <3>2. CASE j \in DOMAIN events /\ l \in DOMAIN events
      BY <2>3, <2>4, <3>1, <3>2 DEF IsEnd
    <3>3. CASE j \notin DOMAIN events
      BY <2>3, <2>6, <3>1, <3>3 DEF IsEnd
    <3>4. CASE l \notin DOMAIN events
      BY <2>3, <2>6, <3>1, <3>4 DEF IsEnd
    <3> QED BY <3>2, <3>3, <3>4
  <2> QED BY <2>1, <2>4, <2>5, <2>7, <2>8
<1>30. CASE LinkLost
  BY <1>30 DEF LinkLost
<1>99. CASE UNCHANGED vars
  BY <1>99, <1>0 DEF IsEnd, vars, agentVars, peerVars, controllerVars, ghostVars
<1> QED BY <1>1, <1>3, <1>8, <1>11, <1>12, <1>13, <1>14, <1>15, <1>16, <1>20, <1>22,
       <1>27, <1>28, <1>29, <1>30, <1>99 DEF Next

-----------------------------------------------------------------------------
\* An endpoint that Enable has reached.
On == {"enabling", "streaming"}

\* Rejections that have been notified, read or not.
Heard == {notes[i] : i \in DOMAIN notes} \cup {air[i] : i \in DOMAIN air}
Rejects == {n \in Heard : n.op \in Begun /\ ~n.ok}

\* Between the release and Enable no endpoint is on.
BeforeEnable == {"codec", "codecs", "prepare", "create group", "qos", "qoses", "enable"}
Off ==
    /\ pc = "freed" => \A e \in confirmed : ase[e].state \notin On
    /\ \/ pc \in BeforeEnable
       \/ pc \in {"teardown", "closing"} /\ after = "prepared"
       => \A e \in Endpoint : ase[e].state \notin On

\* A rejection that is still to be looked at is of the present attempt; one of an
\* Enable keeps an endpoint from being confirmed; and none outlives the start of
\* the audio.
Enabled == {"create", "await", "ready", "streams"}
Rejected ==
    /\ \A n \in Rejects : n.round = round % 2
    /\ pc \in Enabled /\ Rejects # {} => \E e \in Endpoint \ confirmed : ase[e].state \notin On
    /\ pc \in {"playing", "sound"} \/ result \in Sounded => Rejects = {}

\* An element of two sequences, one after the other, is one of the one or the other.
LEMMA Concatenated ==
  ASSUME NEW S, NEW s \in Seq(S), NEW t \in Seq(S), NEW i \in DOMAIN (s \o t)
  PROVE  \/ \E j \in DOMAIN s : (s \o t)[i] = s[j]
         \/ \E j \in DOMAIN t : (s \o t)[i] = t[j]
<1>1. /\ Len(s) \in Nat /\ DOMAIN s = 1..Len(s) /\ Len(t) \in Nat /\ DOMAIN t = 1..Len(t)
  BY LenProperties
<1>2. s \o t \in Seq(S) /\ Len(s \o t) = Len(s) + Len(t)
      /\ \A k \in 1..(Len(s) + Len(t)) : (s \o t)[k] = IF k <= Len(s) THEN s[k] ELSE t[k - Len(s)]
  BY ConcatProperties
<1>3. DOMAIN (s \o t) = 1..(Len(s) + Len(t))
  BY <1>2, LenProperties
<1>4. CASE i <= Len(s)
  BY <1>1, <1>2, <1>3, <1>4
<1>5. CASE ~(i <= Len(s))
  <2>1. i - Len(s) \in DOMAIN t /\ (s \o t)[i] = t[i - Len(s)]
    BY <1>1, <1>2, <1>3, <1>5
  <2> QED BY <2>1
<1> QED BY <1>4, <1>5

\* Moving notifications from the air, or dropping them, brings no rejection.
LEMMA NothingNew ==
  ASSUME TypeOK, notes' \in {notes, <<>>, notes \o air}, air' \in {air, <<>>}
  PROVE  Rejects' \subseteq Rejects
<1>1. notes \in Seq(Notes) /\ air \in Seq(Notes)
  BY DEF TypeOK, AgentTypes, HeadsetTypes
<1>2. ASSUME NEW i \in DOMAIN notes' PROVE notes'[i] \in Heard
  <2>1. CASE notes' = notes
    BY <1>2, <2>1 DEF Heard
  <2>2. CASE notes' = <<>>
    BY <1>2, <2>2
  <2>3. CASE notes' = notes \o air
    BY <1>1, <1>2, <2>3, Concatenated DEF Heard
  <2> QED BY <2>1, <2>2, <2>3
<1>3. ASSUME NEW i \in DOMAIN air' PROVE air'[i] \in Heard
  BY <1>3 DEF Heard
<1> QED BY <1>2, <1>3 DEF Rejects, Heard

\* What a write adds, and what it leaves as it was if it is rejected.
LEMMA Spoken ==
  ASSUME TypeOK, NEW op \in Operations, NEW es \in SUBSET Endpoint, Write(op, es)
  PROVE  \E ok \in BOOLEAN :
            /\ air' = << [op |-> op, ok |-> ok, round |-> round % 2] >>
            /\ ok \/ \E e \in es : ase'[e] = ase[e]
<1>1. PICK willing \in BOOLEAN, exactly \in BOOLEAN : Handle(op, es, willing, exactly)
  BY DEF Write
<1> DEFINE good == {e \in es : willing /\ Legal(op, e)}
<1>2. /\ ase' = [e \in Endpoint |-> IF e \in good THEN Obeys(op, e, exactly) ELSE ase[e]]
      /\ air' = << [op |-> op, ok |-> good = es, round |-> round % 2] >>
  BY <1>1 DEF Handle
<1>3. good \subseteq es
  OBVIOUS
<1> HIDE DEF good
<1>4. (good = es) \in BOOLEAN
  OBVIOUS
<1>5. good = es \/ \E e \in es : ase'[e] = ase[e]
  BY <1>2, <1>3
<1> QED BY <1>2, <1>4, <1>5

\* Release and Receiver Start Ready are no operation whose rejection is looked for.
LEMMA HarmlessWrite ==
  ASSUME TypeOK, NEW op \in Operations \ Begun, NEW es \in SUBSET Endpoint, Write(op, es),
         notes' = notes \o air
  PROVE  Rejects' \subseteq Rejects
<1>1. notes \in Seq(Notes) /\ air \in Seq(Notes)
  BY DEF TypeOK, AgentTypes, HeadsetTypes
<1>2. PICK ok \in BOOLEAN : air' = << [op |-> op, ok |-> ok, round |-> round % 2] >>
  BY Spoken
<1>3. \A i \in DOMAIN notes' : notes'[i] \in Heard
  BY <1>1, Concatenated DEF Heard
<1>4. \A i \in DOMAIN air' : air'[i].op = op
  BY <1>2
<1> QED BY <1>3, <1>4 DEF Rejects, Heard

\* Rejections come from Configure only.
LEMMA RejectsStep ==
  ASSUME TypeOK, [Next]_vars
  PROVE  Configure \/ Rejects' \subseteq Rejects
<1>1. CASE PlanStream \/ Interrupted \/ FallsSilent \/ NothingToRelease \/ Polled \/ ReadBack \/
            ReadBackFails
  BY <1>1, NothingNew DEF PlanStream, Interrupted, FallsSilent, NothingToRelease, Polled, ReadBack,
     ReadBackFails, Fail, Rest, flowVars, agentVars, StepVars, peerVars
<1>3. CASE ReleaseStreams
  <2>1. CASE \E es \in SUBSET Endpoint : Write("release", es) /\ notes' = notes \o air
    BY <2>1, HarmlessWrite DEF Operations, Begun
  <2>2. CASE ~(\E es \in SUBSET Endpoint : Write("release", es) /\ notes' = notes \o air)
    <3>1. UNCHANGED <<notes, air>>
      BY <1>3, <2>2 DEF ReleaseStreams, ToRelease, Rest, peerVars
    <3> QED BY <3>1, NothingNew
  <2> QED BY <2>1, <2>2
<1>8. CASE Configure
  BY <1>8
<1>9. CASE ConfigureFails \/ Prepare \/ TearDown \/ ChannelEnds \/ TornDown \/
            CreateGroup
  BY <1>9, NothingNew DEF ConfigureFails, Prepare, TearDown, ChannelEnds, TornDown,
     CreateGroup, Fail, Rest, flowVars, agentVars, StepVars, peerVars
<1>15. CASE CreateChannels \/ ChannelReports \/ Established \/ AudioEnds \/ AudioLost \/
            CleanUp
  BY <1>15, NothingNew DEF CreateChannels, ChannelReports, Established, AudioEnds,
     AudioLost, CleanUp, Fail, Rest, flowVars, agentVars, StepVars, peerVars
<1>18. CASE StartReceivers
  <2>1. CASE \E es \in SUBSET Endpoint : Write("ready", es) /\ notes' = notes \o air
    BY <2>1, HarmlessWrite DEF Operations, Begun
  <2>2. CASE ~(\E es \in SUBSET Endpoint : Write("ready", es) /\ notes' = notes \o air)
    <3>1. UNCHANGED <<notes, air>>
      BY <1>18, <2>2 DEF StartReceivers, ToRelease, Rest, peerVars
    <3> QED BY <3>1, NothingNew
  <2> QED BY <2>1, <2>2
<1>22. CASE Decide \/ SoundHeard \/ WaitEnds \/ AseMoves \/ AseSlips \/ ChannelOpens
  BY <1>22, NothingNew DEF Decide, SoundHeard, WaitEnds, AseMoves, AseSlips, ChannelOpens,
     Fail, Rest, flowVars, agentVars, StepVars, peerVars
<1>23. CASE Recover
  BY <1>23, NothingNew DEF Recover, Collected
<1>29. CASE ChannelCloses \/ LinkLost
  BY <1>29, NothingNew DEF ChannelCloses, LinkLost, Fail, Rest, flowVars, agentVars,
     StepVars, peerVars
<1>99. CASE UNCHANGED vars
  BY <1>99, NothingNew DEF vars, agentVars, peerVars, controllerVars, ghostVars
<1> QED BY <1>1, <1>3, <1>8, <1>9, <1>15, <1>18, <1>22, <1>23, <1>29, <1>99 DEF Next

\* Only Enable takes an endpoint on.
LEMMA StaysOff ==
  ASSUME TypeOK, [Next]_vars, NEW e \in Endpoint, ase[e].state \notin On
  PROVE  Configure \/ ase'[e].state \notin On
<1>0. ase \in [Endpoint -> Ases]
  BY DEF TypeOK, HeadsetTypes
<1>1. CASE PlanStream \/ Interrupted \/ FallsSilent \/ NothingToRelease \/ Polled \/ ReadBack \/
            ReadBackFails
  BY <1>1 DEF PlanStream, Interrupted, FallsSilent, NothingToRelease, Polled, ReadBack,
     ReadBackFails,
     Fail, Rest, flowVars, agentVars, StepVars, peerVars
<1>3. CASE ReleaseStreams
  <2>1. CASE \E es \in SUBSET Endpoint : Write("release", es)
    <3>1. PICK es \in SUBSET Endpoint, willing \in BOOLEAN, exactly \in BOOLEAN :
             Handle("release", es, willing, exactly)
      BY <2>1 DEF Write
    <3>2. ase'[e] = ase[e] \/ (Legal("release", e) /\ ase'[e] = Obeys("release", e, exactly))
      BY <3>1 DEF Handle
    <3> QED BY <1>0, <3>2 DEF Legal, Obeys, On, Ases
  <2>2. CASE ~(\E es \in SUBSET Endpoint : Write("release", es))
    <3>1. UNCHANGED ase
      BY <1>3, <2>2 DEF ReleaseStreams, ToRelease, Rest, peerVars
    <3> QED BY <3>1
  <2> QED BY <2>1, <2>2
<1>8. CASE Configure
  BY <1>8
<1>9. CASE ConfigureFails \/ Prepare \/ TearDown \/ ChannelEnds \/ TornDown \/
            CreateGroup
  BY <1>9 DEF ConfigureFails, Prepare, TearDown, ChannelEnds, TornDown, CreateGroup, Fail,
     Rest, flowVars, agentVars, StepVars, peerVars
<1>15. CASE CreateChannels \/ ChannelReports \/ Established \/ AudioEnds \/ AudioLost \/
            CleanUp
  BY <1>15 DEF CreateChannels, ChannelReports, Established, AudioEnds, AudioLost, CleanUp,
     Fail, Rest, flowVars, agentVars, StepVars, peerVars
<1>18. CASE StartReceivers
  <2>1. CASE \E es \in SUBSET Endpoint : Write("ready", es)
    <3>1. PICK es \in SUBSET Endpoint, willing \in BOOLEAN, exactly \in BOOLEAN :
             Handle("ready", es, willing, exactly)
      BY <2>1 DEF Write
    <3>2. ase'[e] = ase[e] \/ (Legal("ready", e) /\ ase'[e] = Obeys("ready", e, exactly))
      BY <3>1 DEF Handle
    <3> QED BY <1>0, <3>2 DEF Legal, Obeys, On, Ases
  <2>2. CASE ~(\E es \in SUBSET Endpoint : Write("ready", es))
    <3>1. UNCHANGED ase
      BY <1>18, <2>2 DEF StartReceivers, ToRelease, Rest, peerVars
    <3> QED BY <3>1
  <2> QED BY <2>1, <2>2
<1>22. CASE Decide \/ Recover \/ SoundHeard \/ WaitEnds \/ ChannelOpens
  BY <1>22 DEF Decide, Recover, SoundHeard, WaitEnds, ChannelOpens, Fail, Rest, flowVars,
     agentVars, StepVars, peerVars
<1>26. CASE AseMoves
  <2>1. PICK f \in Endpoint :
           \/ ase' = [ase EXCEPT ![f] = Idle]
           \/ ase' = [ase EXCEPT ![f].state = "codec"]
           \/ /\ ase[f].state = "enabling" /\ ase' = [ase EXCEPT ![f].state = "streaming"]
    BY <1>26 DEF AseMoves
  <2>2. CASE ase' = [ase EXCEPT ![f] = Idle]
    BY <1>0, <2>2 DEF Idle, Ase, On
  <2>3. CASE ase' = [ase EXCEPT ![f].state = "codec"]
    BY <1>0, <2>3 DEF Ases, On
  <2>4. CASE ase[f].state = "enabling" /\ ase' = [ase EXCEPT ![f].state = "streaming"]
    BY <1>0, <2>4 DEF On
  <2> QED BY <2>1, <2>2, <2>3, <2>4
<1>27. CASE AseSlips
  <2>1. PICK f \in Endpoint : ase' = [ase EXCEPT ![f].state = "releasing"]
    BY <1>27 DEF AseSlips
  <2> QED BY <1>0, <2>1 DEF Ases, On
<1>29. CASE ChannelCloses
  <2>1. PICK ch : ase' = [f \in Endpoint |-> IF ase[f].state = "streaming" /\ ase[f].ch = ch
                                        THEN [ase[f] EXCEPT !.state = "qos"] ELSE ase[f]]
    BY <1>29 DEF ChannelCloses
  <2> QED BY <1>0, <2>1 DEF Ases, On
<1>30. CASE LinkLost
  BY <1>30 DEF LinkLost, Idle, Ase, On
<1>99. CASE UNCHANGED vars
  BY <1>99 DEF vars, agentVars, peerVars, controllerVars, ghostVars
<1> QED BY <1>1, <1>3, <1>8, <1>9, <1>15, <1>18, <1>22, <1>26, <1>27, <1>29, <1>30,
       <1>99 DEF Next

\* No endpoint is on until then.
LEMMA OffStep ==
  ASSUME TypeOK, Flow, Confirming, Off, [Next]_vars
  PROVE  Off'
<1> USE DEF Off
<1>0. \A e \in Endpoint : ase[e].state \notin On => Configure \/ ase'[e].state \notin On
  BY StaysOff
<1>100. confirmed \subseteq Endpoint
  BY DEF TypeOK, AgentTypes
<1>1. CASE PlanStream \/ Interrupted \/ FallsSilent \/ NothingToRelease \/ ReadBackFails \/
            ConfigureFails \/ Prepare
  BY <1>1, <1>0 DEF PlanStream, Interrupted, FallsSilent, NothingToRelease, ReadBackFails,
     ConfigureFails, Prepare, Fail, Flow, BeforeGroup, OnGroup, Releasing, HandsBack,
     Rest, flowVars, agentVars, StepVars, peerVars, BeforeEnable
<1>3. CASE ReleaseStreams
  <2>1. pc' \in {"polling", "freed", "teardown"}
        /\ (pc' = "teardown" => after' # "prepared")
    BY <1>3 DEF ReleaseStreams, Flow, BeforeGroup, Releasing
  <2>2. confirmed' = confirmed /\ pc \in Releasing
    BY <1>3 DEF ReleaseStreams
  <2>3. confirmed = {}
    BY <2>2 DEF Confirming, Reading, Releasing
  <2> QED BY <2>1, <2>2, <2>3 DEF BeforeEnable
<1>5. CASE Polled
  <2>1. pc' \in {"freed", "teardown"} /\ (pc' = "teardown" => after' # "prepared")
    BY <1>5 DEF Polled, Flow, flowVars
  <2>2. confirmed' = {}
    BY <1>5 DEF Polled, Confirming, Reading
  <2> QED BY <2>1, <2>2 DEF BeforeEnable
<1>6. CASE ReadBack
  <2>1. UNCHANGED ase
    BY <1>6 DEF ReadBack
  <2>2. CASE pc' = "cleanup"
    BY <2>2 DEF BeforeEnable
  <2>3. CASE pc' # "cleanup"
    <3>1. AsWanted(Pending) /\ pc \in Reading
          /\ \/ confirmed \cup {Pending} = Endpoint /\ pc' = NextStep
             \/ confirmed' = confirmed \cup {Pending} /\ pc' = pc
      BY <1>6, <2>3 DEF ReadBack, Fail
    <3>2. CASE pc = "freed"
      <4>1. \A e \in confirmed \cup {Pending} : ase[e].state \notin On
        BY <3>1, <3>2 DEF AsWanted, Released, On
      <4> QED BY <2>1, <3>1, <3>2, <4>1 DEF NextStep, BeforeEnable
    <3>3. CASE pc \in {"codecs", "qoses"}
      BY <2>1, <3>1, <3>3 DEF NextStep, BeforeEnable
    <3>4. CASE pc = "streams"
      BY <2>1, <3>1, <3>4 DEF NextStep, BeforeEnable
    <3> QED BY <3>1, <3>2, <3>3, <3>4 DEF Reading
  <2> QED BY <2>2, <2>3
<1>8. CASE Configure
  <2>1. \/ pc = "codec" /\ Write("codec", Endpoint) /\ pc' \in {"codecs", "cleanup"}
        \/ pc = "qos" /\ Write("qos", Endpoint) /\ pc' \in {"qoses", "cleanup"}
        \/ pc = "enable" /\ pc' \in {"create", "cleanup"}
    BY <1>8 DEF Configure, WriteChecked, Fail
  <2>2. ASSUME NEW op \in {"codec", "qos"}, Write(op, Endpoint), \A e \in Endpoint : ase[e].state \notin On
        PROVE  \A e \in Endpoint : ase'[e].state \notin On
    <3>1. PICK willing \in BOOLEAN, exactly \in BOOLEAN : Handle(op, Endpoint, willing, exactly)
      BY <2>2 DEF Write
    <3>2. \A e \in Endpoint : ase'[e] \in {ase[e], Obeys(op, e, exactly)}
      BY <3>1 DEF Handle
    <3>3. \A e \in Endpoint : Obeys(op, e, exactly).state \notin On
      BY <2>2 DEF Obeys, Ase, On
    <3> QED BY <2>2, <3>2, <3>3
  <2>3. CASE pc' = "cleanup"
    BY <2>3 DEF BeforeEnable
  <2>4. CASE pc = "codec" /\ Write("codec", Endpoint) /\ pc' = "codecs"
    BY <2>2, <2>4 DEF BeforeEnable
  <2>5. CASE pc = "qos" /\ Write("qos", Endpoint) /\ pc' = "qoses"
    BY <2>2, <2>5 DEF BeforeEnable
  <2>6. CASE pc' = "create"
    BY <2>6 DEF BeforeEnable
  <2> QED BY <2>1, <2>3, <2>4, <2>5, <2>6
<1>11. CASE TearDown \/ ChannelEnds \/ CreateGroup \/ CreateChannels \/ ChannelReports
            \/ Established
  BY <1>11, <1>0 DEF TearDown, ChannelEnds, CreateGroup, CreateChannels, ChannelReports,
     Established, Fail, Flow, BeforeGroup, OnGroup, Releasing, HandsBack, Rest,
     flowVars, agentVars, StepVars, peerVars, BeforeEnable
<1>13. CASE TornDown
  <2>1. \/ pc = "closing" /\ UNCHANGED <<ase, after, confirmed>>
        \/ pc' = "cleanup"
    BY <1>13 DEF TornDown, peerVars, Fail
  <2>2. \/ pc' = "create group" /\ after = "prepared" /\ pc = "closing" /\ UNCHANGED ase
        \/ pc' \in {"cleanup", "decide"}
    BY <1>13 DEF TornDown, Fail, Flow, peerVars
  <2> QED BY <2>2 DEF BeforeEnable
<1>18. CASE StartReceivers \/ AudioEnds \/ AudioLost \/ CleanUp \/ Recover \/ SoundHeard
  BY <1>18, <1>0 DEF StartReceivers, AudioEnds, AudioLost, CleanUp, Recover, SoundHeard,
     Fail, Flow, BeforeGroup, OnGroup, Releasing, HandsBack, Rest, flowVars, agentVars,
     StepVars, peerVars, BeforeEnable
<1>22. CASE Decide
  <2>1. pc' \in {"over", "sound", "recover"}
    BY <1>22, DecideGoes
  <2> QED BY <2>1 DEF BeforeEnable
<1>25. CASE WaitEnds \/ ChannelOpens
  BY <1>25, <1>0 DEF WaitEnds, ChannelOpens, Fail, Flow, BeforeGroup, OnGroup, Releasing,
     HandsBack, Rest, flowVars, agentVars, StepVars, peerVars, BeforeEnable
<1>26. CASE AseMoves
  <2>1. UNCHANGED <<pc, after, confirmed>>
    BY <1>26 DEF AseMoves, agentVars
  <2>2. ~Configure
    BY <2>1 DEF Configure, WriteChecked, Fail
  <2> QED BY <1>0, <1>100, <2>1, <2>2 DEF BeforeEnable
<1>27. CASE AseSlips
  <2>1. UNCHANGED <<pc, after, confirmed>>
    BY <1>27 DEF AseSlips, agentVars
  <2>2. ~Configure
    BY <2>1 DEF Configure, WriteChecked, Fail
  <2> QED BY <1>0, <1>100, <2>1, <2>2 DEF BeforeEnable
<1>29. CASE ChannelCloses
  <2>1. UNCHANGED <<pc, after, confirmed>>
    BY <1>29 DEF ChannelCloses, agentVars
  <2>2. ~Configure
    BY <2>1 DEF Configure, WriteChecked, Fail
  <2> QED BY <1>0, <1>100, <2>1, <2>2 DEF BeforeEnable
<1>30. CASE LinkLost
  <2>1. UNCHANGED <<pc, after, confirmed>>
    BY <1>30 DEF LinkLost, agentVars
  <2>2. ~Configure
    BY <2>1 DEF Configure, WriteChecked, Fail
  <2> QED BY <1>0, <1>100, <2>1, <2>2 DEF BeforeEnable
<1>99. CASE UNCHANGED vars
  BY <1>99, <1>0 DEF vars, agentVars, peerVars, controllerVars, ghostVars
<1> QED BY <1>1, <1>3, <1>5, <1>6, <1>8, <1>11, <1>13, <1>18, <1>22, <1>25, <1>26,
       <1>27, <1>29, <1>30, <1>99 DEF Next

\* A new round begins with no rejection under way: the recovery drops them, and the
\* wait for sound comes after audio only.
LEMMA RoundKept ==
  ASSUME [Next]_vars, TypeOK, Flow, Rejected
  PROVE  UNCHANGED round \/ Rejects' = {}
<1>1. CASE PlanStream \/ Interrupted \/ FallsSilent \/ ReleaseStreams \/ NothingToRelease \/
            Polled \/
            ReadBack
  BY <1>1 DEF PlanStream, Interrupted, FallsSilent, ReleaseStreams, NothingToRelease, Polled,
     ReadBack,
     flowVars, Rest
<1>7. CASE ReadBackFails \/ Configure \/ ConfigureFails \/ Prepare \/ TearDown \/
            ChannelEnds
  BY <1>7 DEF ReadBackFails, Configure, ConfigureFails, Prepare, TearDown, ChannelEnds,
     flowVars, Rest
<1>13. CASE TornDown \/ CreateGroup \/ CreateChannels \/ ChannelReports \/ Established
            \/ StartReceivers
  BY <1>13 DEF TornDown, CreateGroup, CreateChannels, ChannelReports, Established,
     StartReceivers, flowVars, Rest
<1>19. CASE AudioEnds \/ AudioLost \/ CleanUp \/ Decide \/ WaitEnds \/ AseMoves
  BY <1>19 DEF AudioEnds, AudioLost, CleanUp, Decide, WaitEnds, AseMoves, flowVars, Rest
<1>23. CASE Recover
  BY <1>23 DEF Recover, Collected, Rejects, Heard
<1>24. CASE SoundHeard
  <2>1. Rejects = {}
    BY <1>24 DEF SoundHeard, Rejected
  <2>2. Rejects' \subseteq Rejects
    BY <1>24, NothingNew DEF SoundHeard, StepVars
  <2> QED BY <2>1, <2>2
<1>27. CASE AseSlips \/ ChannelOpens \/ ChannelCloses \/ LinkLost
  BY <1>27 DEF AseSlips, ChannelOpens, ChannelCloses, LinkLost, flowVars, Rest
<1>99. CASE UNCHANGED vars
  BY <1>99 DEF vars, agentVars, peerVars, controllerVars, ghostVars
<1> QED BY <1>1, <1>7, <1>13, <1>19, <1>23, <1>24, <1>27, <1>99 DEF Next

\* After Enable, confirmations are kept, dropped, or added to by a read-back.
LEMMA StaysEnabled ==
  ASSUME [Next]_vars, Flow, ~Configure, pc' \in Enabled
  PROVE  /\ pc \in Enabled
         /\ \/ UNCHANGED confirmed \/ confirmed' = {}
            \/ confirmed' = confirmed \cup {Pending} /\ AsWanted(Pending) /\ pc = "streams"
<1> USE DEF Enabled
<1>1. CASE PlanStream \/ Interrupted \/ FallsSilent \/ ReleaseStreams \/ NothingToRelease \/
            Polled \/
            ReadBackFails
  BY <1>1 DEF PlanStream, Interrupted, FallsSilent, ReleaseStreams, NothingToRelease, Polled,
     ReadBackFails, Fail, Flow, BeforeGroup, OnGroup, Releasing, HandsBack, Rest,
     flowVars, agentVars, StepVars, peerVars
<1>6. CASE ReadBack
  <2>1. AsWanted(Pending) /\ pc \in Reading
          /\ \/ confirmed \cup {Pending} = Endpoint /\ pc' = NextStep
             \/ confirmed' = confirmed \cup {Pending} /\ pc' = pc
    BY <1>6 DEF ReadBack, Fail
  <2> QED BY <2>1 DEF Reading, NextStep
<1>8. CASE Configure \/ ConfigureFails \/ Prepare \/ TearDown \/ ChannelEnds \/ TornDown
  BY <1>8 DEF Configure, ConfigureFails, Prepare, TearDown, ChannelEnds, TornDown, Fail,
     Flow, BeforeGroup, OnGroup, Releasing, HandsBack, Rest, flowVars, agentVars,
     StepVars, peerVars
<1>14. CASE CreateGroup \/ CreateChannels \/ ChannelReports \/ Established \/
            StartReceivers \/ AudioEnds
  BY <1>14 DEF CreateGroup, CreateChannels, ChannelReports, Established, StartReceivers,
     AudioEnds, Fail, Flow, BeforeGroup, OnGroup, Releasing, HandsBack, Rest, flowVars,
     agentVars, StepVars, peerVars
<1>20. CASE AudioLost \/ CleanUp \/ Recover \/ SoundHeard \/ WaitEnds \/ AseMoves
  BY <1>20 DEF AudioLost, CleanUp, Recover, SoundHeard, WaitEnds, AseMoves, Fail, Flow,
     BeforeGroup, OnGroup, Releasing, HandsBack, Rest, flowVars, agentVars, StepVars,
     peerVars
<1>22. CASE Decide
  BY <1>22, DecideGoes
<1>27. CASE AseSlips \/ ChannelOpens \/ ChannelCloses \/ LinkLost
  BY <1>27 DEF AseSlips, ChannelOpens, ChannelCloses, LinkLost, Fail, Flow, BeforeGroup,
     OnGroup, Releasing, HandsBack, Rest, flowVars, agentVars, StepVars, peerVars
<1>99. CASE UNCHANGED vars
  BY <1>99 DEF vars, agentVars, peerVars, controllerVars, ghostVars
<1> QED BY <1>1, <1>6, <1>8, <1>14, <1>20, <1>22, <1>27, <1>99 DEF Next

\* Audio comes from the last read-back only.
LEMMA Sounding ==
  ASSUME [Next]_vars, Flow, ~(pc \in {"playing", "sound"} \/ result \in Sounded),
         pc' \in {"playing", "sound"} \/ result' \in Sounded
  PROVE  pc = "streams" /\ confirmed \cup {Pending} = Endpoint /\ AsWanted(Pending)
<1> USE DEF Sounded
<1>1. CASE PlanStream \/ Interrupted \/ FallsSilent \/ ReleaseStreams \/ NothingToRelease \/
            Polled \/
            ReadBackFails
  BY <1>1 DEF PlanStream, Interrupted, FallsSilent, ReleaseStreams, NothingToRelease, Polled,
     ReadBackFails, WriteChecked, Fail, Flow, BeforeGroup, OnGroup, Releasing,
     HandsBack, Rest, flowVars, agentVars, StepVars, peerVars
<1>6. CASE ReadBack
  <2>1. \/ result' = "failed" /\ pc' = "cleanup"
        \/ /\ AsWanted(Pending) /\ pc \in Reading /\ UNCHANGED result
           /\ \/ confirmed \cup {Pending} = Endpoint /\ pc' = NextStep
              \/ confirmed' = confirmed \cup {Pending} /\ pc' = pc
    BY <1>6 DEF ReadBack, Fail
  <2> QED BY <2>1 DEF Reading, NextStep
<1>8. CASE Configure \/ ConfigureFails \/ Prepare \/ TearDown \/ ChannelEnds \/ TornDown
  BY <1>8 DEF Configure, ConfigureFails, Prepare, TearDown, ChannelEnds, TornDown,
     WriteChecked, Fail, Flow, BeforeGroup, OnGroup, Releasing, HandsBack, Rest,
     flowVars, agentVars, StepVars, peerVars
<1>14. CASE CreateGroup \/ CreateChannels \/ ChannelReports \/ Established \/
            StartReceivers \/ AudioEnds
  BY <1>14 DEF CreateGroup, CreateChannels, ChannelReports, Established, StartReceivers,
     AudioEnds, WriteChecked, Fail, Flow, BeforeGroup, OnGroup, Releasing, HandsBack,
     Rest, flowVars, agentVars, StepVars, peerVars
<1>20. CASE AudioLost \/ CleanUp \/ Recover \/ SoundHeard \/ WaitEnds \/ AseMoves
  BY <1>20 DEF AudioLost, CleanUp, Recover, SoundHeard, WaitEnds, AseMoves, WriteChecked,
     Fail, Flow, BeforeGroup, OnGroup, Releasing, HandsBack, Rest, flowVars, agentVars,
     StepVars, peerVars
<1>22. CASE Decide
  <2>1. result' = "none" /\ pc = "decide" /\ result = "failed"
    BY <1>22 DEF Decide, Flow
  <2>2. pc' # "sound" /\ pc' # "playing"
    <3>1. CASE ~linked
      BY <1>22, <3>1 DEF Decide
    <3>2. CASE linked
      BY <1>22, <2>1, <3>2 DEF Decide
    <3> QED BY <3>1, <3>2
  <2> QED BY <2>1, <2>2
<1>27. CASE AseSlips \/ ChannelOpens \/ ChannelCloses \/ LinkLost
  BY <1>27 DEF AseSlips, ChannelOpens, ChannelCloses, LinkLost, WriteChecked, Fail, Flow,
     BeforeGroup, OnGroup, Releasing, HandsBack, Rest, flowVars, agentVars, StepVars,
     peerVars
<1>99. CASE UNCHANGED vars
  BY <1>99 DEF vars, agentVars, peerVars, controllerVars, ghostVars
<1> QED BY <1>1, <1>6, <1>8, <1>14, <1>20, <1>22, <1>27, <1>99 DEF Next

\* A rejected Enable leaves an endpoint off that is never confirmed, so its rejection
\* is never under way once there is audio.
LEMMA RejectedStep ==
  ASSUME TypeOK, Flow, Confirming, Off, Rejected, [Next]_vars
  PROVE  Rejected'
<1>1. CASE Configure
  <2>1. PICK op \in Begun, next \in {"codecs", "qoses", "create"} :
           /\ WriteChecked(op, next) /\ op = pc
           /\ (op = "codec" <=> next = "codecs") /\ (op = "enable" <=> next = "create")
    BY <1>1 DEF Configure, Begun
  <2>2. /\ Write(op, Endpoint) /\ notes' = <<>> /\ confirmed' = {}
        /\ \/ pc' = next /\ UNCHANGED result
           \/ pc' = "cleanup" /\ result' = "failed"
    BY <2>1 DEF WriteChecked, Fail
  <2>3. PICK ok \in BOOLEAN :
           /\ air' = << [op |-> op, ok |-> ok, round |-> round % 2] >>
           /\ ok \/ \E e \in Endpoint : ase'[e] = ase[e]
    BY <2>2, Spoken DEF Operations, Begun
  <2>4. \A n \in Heard' : n = [op |-> op, ok |-> ok, round |-> round % 2]
    BY <2>2, <2>3 DEF Heard
  <2>5. UNCHANGED round
    BY <1>1 DEF Configure
  <2>6. \A n \in Rejects' : n.round = round' % 2
    BY <2>4, <2>5 DEF Rejects
  <2>7. pc' \in Enabled /\ Rejects' # {} => \E e \in Endpoint \ confirmed' : ase'[e].state \notin On
    <3>1. SUFFICES ASSUME pc' \in Enabled, Rejects' # {}
                   PROVE  \E e \in Endpoint \ confirmed' : ase'[e].state \notin On
      OBVIOUS
    <3>2. ~ok
      BY <2>4, <3>1 DEF Rejects
    <3>3. pc = "enable"
      BY <2>1, <2>2, <3>1 DEF Enabled, Begun
    <3>4. PICK e \in Endpoint : ase'[e] = ase[e]
      BY <2>3, <3>2
    <3>5. ase[e].state \notin On
      BY <3>3 DEF Off, BeforeEnable
    <3> QED BY <2>2, <3>4, <3>5
  <2>8. ~(pc' \in {"playing", "sound"} \/ result' \in Sounded)
    BY <2>1, <2>2 DEF Flow, BeforeGroup, OnGroup, Begun, Sounded
  <2> QED BY <2>6, <2>7, <2>8 DEF Rejected
<1>2. CASE ~Configure
  <2>1. Rejects' \subseteq Rejects
    BY <1>2, RejectsStep
  <2>2. \A e \in Endpoint : ase[e].state \notin On => ase'[e].state \notin On
    BY <1>2, StaysOff
  <2>3. UNCHANGED round \/ Rejects' = {}
    BY RoundKept
  <2>4. ASSUME pc' \in Enabled
        PROVE  /\ pc \in Enabled
               /\ \/ UNCHANGED confirmed \/ confirmed' = {}
                  \/ confirmed' = confirmed \cup {Pending} /\ AsWanted(Pending) /\ pc = "streams"
    BY <1>2, <2>4, StaysEnabled
  <2>5. pc' \in {"playing", "sound"} \/ result' \in Sounded => Rejects' = {}
    <3>1. CASE pc \in {"playing", "sound"} \/ result \in Sounded
      BY <2>1, <3>1 DEF Rejected
    <3>2. CASE ~(pc \in {"playing", "sound"} \/ result \in Sounded)
      <4>1. SUFFICES ASSUME pc' \in {"playing", "sound"} \/ result' \in Sounded, Rejects # {}
                     PROVE  FALSE
        BY <2>1
      <4>2. /\ pc = "streams" /\ confirmed \cup {Pending} = Endpoint /\ AsWanted(Pending)
        BY <3>2, <4>1, Sounding
      <4>3. PICK e \in Endpoint \ confirmed : ase[e].state \notin On
        BY <4>1, <4>2 DEF Rejected, Enabled
      <4>4. e = Pending
        BY <4>2, <4>3
      <4> QED BY <4>2, <4>3, <4>4 DEF AsWanted, StreamAsWanted, On
    <3> QED BY <3>1, <3>2
  <2>6. pc' \in Enabled /\ Rejects' # {} => \E e \in Endpoint \ confirmed' : ase'[e].state \notin On
    <3>1. SUFFICES ASSUME pc' \in Enabled, Rejects' # {}
                   PROVE  \E e \in Endpoint \ confirmed' : ase'[e].state \notin On
      OBVIOUS
    <3>2. PICK e \in Endpoint \ confirmed : ase[e].state \notin On
      BY <2>1, <2>4, <3>1 DEF Rejected
    <3>3. AsWanted(Pending) /\ pc = "streams" => Pending # e
      BY <3>2 DEF AsWanted, StreamAsWanted, On
    <3> QED BY <2>2, <2>4, <3>1, <3>2, <3>3
  <2> QED BY <2>1, <2>3, <2>5, <2>6 DEF Rejected
<1> QED BY <1>1, <1>2

\* What an operation is blamed for belongs to this attempt.
LEMMA Timely ==
  ASSUME TypeOK, Rejected, NEW ns, ns \in {<<>> \o air, notes, notes \o air},
         NEW op \in Begun \cup {"none"}, NEW i \in DOMAIN ns, ns[i].op = op, ~ns[i].ok
  PROVE  ns[i].round = round % 2
<1>1. notes \in Seq(Notes) /\ air \in Seq(Notes) /\ <<>> \in Seq(Notes)
  BY DEF TypeOK, AgentTypes, HeadsetTypes
<1>2. ns[i] \in Heard
  <2>1. CASE ns = <<>> \o air
    <3>1. PICK s \in {<<>>, air} : \E j \in DOMAIN s : ns[i] = s[j]
      BY <1>1, <2>1, Concatenated
    <3> QED BY <3>1 DEF Heard
  <2>2. CASE ns = notes
    BY <2>2 DEF Heard
  <2>3. CASE ns = notes \o air
    BY <1>1, <2>3, Concatenated DEF Heard
  <2> QED BY <2>1, <2>2, <2>3
<1>3. ns[i].op \in Operations
  <2>1. \A s \in Seq(Notes) : \A j \in DOMAIN s : s[j] \in Notes
    BY ElementOfSeq
  <2>2. ns[i] \in Notes
    BY <1>1, <1>2, <2>1 DEF Heard
  <2> QED BY <2>2 DEF Notes
<1>4. ns[i] \in Rejects
  BY <1>2, <1>3 DEF Rejects, Operations, Begun
<1> QED BY <1>4 DEF Rejected

\* So every operation fits, and so does every rejection.
LEMMA FitStep ==
  ASSUME TypeOK, Flow, States, Rejected, OperationsFit, [Next]_vars
  PROVE  OperationsFit'
<1> USE DEF OperationsFit
<1>31. CASE FallsSilent
  BY <1>31 DEF FallsSilent, Rest, ghostVars
<1>1. CASE PlanStream \/ Interrupted \/ NothingToRelease \/ Polled \/ ReadBackFails \/
            ConfigureFails
  <2>1. CASE PlanStream \/ ReadBackFails
    BY <2>1 DEF PlanStream, ReadBackFails, ghostVars
  <2>2. CASE Interrupted \/ NothingToRelease \/ ConfigureFails
    BY <2>2 DEF Interrupted, NothingToRelease, ConfigureFails, Rest, ghostVars
  <2>3. CASE Polled
    <3>1. UNCHANGED ghostVars
      BY <2>3 DEF Polled
    <3>2. QED BY <3>1 DEF ghostVars
  <2>4. QED BY <1>1, <2>1, <2>2, <2>3
<1>3. CASE ReleaseStreams
  <2>1. ~misused'
    BY <1>3 DEF ReleaseStreams, Rest, ghostVars, Write
  <2>2. ~misblamed'
    BY <1>3 DEF ReleaseStreams, Rest, ghostVars
  <2> QED BY <2>1, <2>2
<1>6. CASE ReadBack
  <2>1. PICK ns \in {notes, notes \o air} : Blames(ns, opcode)
    BY <1>6 DEF ReadBack
  <2>2. opcode \in Begun \cup {"none"}
    BY DEF TypeOK, AgentTypes
  <2>3. ~misblamed'
    BY <2>1, <2>2, Timely DEF Blames
  <2>4. UNCHANGED misused
    BY <1>6 DEF ReadBack
  <2> QED BY <2>3, <2>4
<1>8. CASE Configure
  <2>1. PICK op \in Begun, next \in {"codecs", "qoses", "create"} : WriteChecked(op, next) /\ op = pc
    BY <1>8 DEF Configure, Begun
  <2>2. Blames(<<>> \o air, op)
    BY <2>1 DEF WriteChecked, NotesKept
  <2>3. ~misblamed'
    BY <2>2, Timely DEF Blames
  <2>4. ~slipped => \A e \in Endpoint : Legal(op, e)
    BY <2>1 DEF States, AllIn, Legal, Begun
  <2>5. misused' = (misused \/ (~slipped /\ op # "release" /\ \E e \in Endpoint : ~Legal(op, e)))
    BY <2>1 DEF WriteChecked, Write
  <2> QED BY <2>3, <2>4, <2>5
<1>10. CASE Prepare
  BY <1>10 DEF Prepare, flowVars, Rest, ghostVars
<1>11. CASE TearDown
  BY <1>11 DEF TearDown, flowVars, Rest, ghostVars
<1>12. CASE ChannelEnds
  BY <1>12 DEF ChannelEnds, flowVars, Rest, ghostVars
<1>13. CASE TornDown
  BY <1>13 DEF TornDown, flowVars, Rest, ghostVars
<1>14. CASE CreateGroup
  BY <1>14 DEF CreateGroup, flowVars, Rest, ghostVars
<1>15. CASE CreateChannels
  BY <1>15 DEF CreateChannels, flowVars, Rest, ghostVars
<1>16. CASE ChannelReports
  BY <1>16 DEF ChannelReports, flowVars, Rest, ghostVars
<1>17. CASE Established
  BY <1>17 DEF Established, flowVars, Rest, ghostVars
<1>18. CASE StartReceivers
  <2> DEFINE sources == {e \in Endpoint : plan[e] = "source"}
  <2>1. pc = "ready" /\ UNCHANGED misblamed /\ (Write("ready", sources) \/ UNCHANGED misused)
    BY <1>18 DEF StartReceivers, Rest, ghostVars
  <2>2. ~slipped => \A e \in sources : Legal("ready", e)
    BY <2>1 DEF States, Legal
  <2>3. CASE Write("ready", sources)
    <3>1. misused' = (misused \/ (~slipped /\ \E e \in sources : ~Legal("ready", e)))
      BY <2>3 DEF Write
    <3> QED BY <2>1, <2>2, <3>1
  <2> QED BY <2>1, <2>3
<1>19. CASE AudioEnds
  BY <1>19 DEF AudioEnds, flowVars, Rest, ghostVars
<1>20. CASE AudioLost
  BY <1>20 DEF AudioLost, flowVars, Rest, ghostVars
<1>21. CASE CleanUp
  BY <1>21 DEF CleanUp, flowVars, Rest, ghostVars
<1>22. CASE Decide
  BY <1>22 DEF Decide, flowVars, Rest, ghostVars
<1>23. CASE Recover \/ SoundHeard \/ WaitEnds \/ AseMoves \/ AseSlips \/ ChannelOpens
  BY <1>23 DEF Recover, SoundHeard, WaitEnds, AseMoves, AseSlips, ChannelOpens, flowVars,
     Rest, ghostVars
<1>29. CASE ChannelCloses \/ LinkLost
  BY <1>29 DEF ChannelCloses, LinkLost, flowVars, Rest, ghostVars
<1>99. CASE UNCHANGED vars
  BY <1>99 DEF vars, agentVars, peerVars, controllerVars, ghostVars
<1> QED BY <1>1, <1>31, <1>3, <1>6, <1>8, <1>10, <1>11, <1>12, <1>13, <1>14, <1>15, <1>16,
       <1>17, <1>18, <1>19, <1>20, <1>21, <1>22, <1>23, <1>29, <1>99 DEF Next

-----------------------------------------------------------------------------
\* The inductive invariant.
Inv ==
    /\ TypeOK /\ Flow /\ Clean /\ Handles /\ Tracked /\ Confirming /\ States /\ Off
    /\ Rejected /\ OperationsFit

\* It holds at first, whatever state the endpoints were left in.
LEMMA InvInit == Init => Inv
<1> SUFFICES ASSUME Init PROVE Inv
  OBVIOUS
<1>1. plan \in [Endpoint -> {"sink", "source"}]
  BY EndpointsAssumption DEF Init, Endpoint
<1>2. ase \in [Endpoint -> Ases] /\ \A e \in Endpoint : ase[e] \in {Idle, Foreign}
  <2>1. Idle \in Ases /\ Foreign \in Ases
    BY DEF Idle, Foreign, Ase, Ases, AseStates
  <2> QED BY <2>1 DEF Init
<1>3. Heard = {} /\ Rejects = {}
  BY DEF Init, Heard, Rejects
<1>4. TypeOK
  <2>1. AgentTypes
    BY <1>1 DEF Init, AgentTypes, Endpoint
  <2>2. HeadsetTypes
    BY <1>2 DEF Init, HeadsetTypes
  <2>3. ControllerTypes
    BY DEF Init, ControllerTypes
  <2> QED BY <2>1, <2>2, <2>3 DEF TypeOK
<1>5. Flow
  BY DEF Init, Flow, BeforeGroup, OnGroup
<1>6. Clean
  BY <1>2 DEF Clean, HandedBack, Idle, Foreign, Ase
<1>7. Handles /\ Tracked
  BY DEF Init, Handles, Tracked, Prepared, OnGroup
<1>8. Confirming /\ States /\ Off
  BY DEF Init, Confirming, States, Off, BeforeEnable
<1>9. Rejected /\ OperationsFit
  BY <1>3 DEF Init, Rejected, Enabled, Sounded, OperationsFit
<1> QED BY <1>4, <1>5, <1>6, <1>7, <1>8, <1>9 DEF Inv

\* Every step preserves it.
LEMMA InvStep == Inv /\ [Next]_vars => Inv'
<1> SUFFICES ASSUME Inv, [Next]_vars PROVE Inv'
  OBVIOUS
<1> USE DEF Inv
<1>1. TypeOK' /\ Flow'
  BY TypeStep, FlowStep
<1>2. Clean'
  BY CleanStep
<1>3. Handles'
  BY HandlesStep
<1>4. Tracked'
  BY TrackedStep
<1>5. Confirming'
  BY ConfirmingStep
<1>6. States'
  BY StatesStep
<1>7. Off'
  BY OffStep
<1>8. Rejected'
  BY RejectedStep
<1>9. OperationsFit'
  BY FitStep
<1> QED BY <1>1, <1>2, <1>3, <1>4, <1>5, <1>6, <1>7, <1>8, <1>9

\* Agent, headset and controller agree, as far as the invariant says, in every state:
\* the agent's step, the endpoints it has configured, the channels it remembers or
\* waits for and the rejections under way.  (agent.rs play_on, session.rs)
THEOREM EndpointsInvariant == Spec => []Inv
<1> QED BY InvInit, InvStep, PTL DEF Spec

\* With a headset that does nothing of its own accord no operation reaches an
\* endpoint that cannot take it, and no rejection, however late it is read, ends an
\* attempt it does not belong to.  (session.rs write_ascs, link.rs
\* begin_ascs_operation, check_ascs_errors)
THEOREM OperationsAlwaysFit == Spec => []OperationsFit
<1>1. Inv => OperationsFit
  BY DEF Inv
<1> QED BY <1>1, EndpointsInvariant, PTL

\* When play returns over a live link every endpoint is handed back, and every channel
\* that may still be open is one the session remembers, unless a teardown gave up
\* on one.  (session.rs release_streams, release_cis)
THEOREM NothingIsLeft == Spec => []NothingLeft
<1>1. ASSUME Inv PROVE NothingLeft
  <2>1. SUFFICES ASSUME pc = "over", linked, ~dead
                 PROVE  /\ \A e \in Endpoint : ase[e].state \in {"idle", "codec", "releasing"} \/ ase[e].ch = 0
                        /\ ~late => (open \cup waiting) \subseteq known
    BY DEF NothingLeft
  <2>2. ~configured
    BY <1>1, <2>1 DEF Inv, Flow
  <2>3. \A e \in Endpoint : HandedBack(e)
    BY <1>1, <2>1, <2>2 DEF Inv, Clean
  <2>4. ~late => (open \cup waiting) \subseteq known
    BY <1>1, <2>1 DEF Inv, Tracked
  <2> QED BY <2>3, <2>4 DEF HandedBack
<1> QED BY <1>1, EndpointsInvariant, PTL

\* What holds at the last read-back.
LEMMA PlayingConfirmed ==
  ASSUME Inv, [Next]_vars, pc = "streams", pc' = "playing", ~slipped
  PROVE  \A e \in Endpoint :
             /\ ase[e].state = "streaming" /\ ase[e].ch = Channel(e)
             /\ Channel(e) \in open /\ route[Channel(e)] = Channel(e)
<1> USE DEF Inv
<1>1. confirmed \cup {Pending} = Endpoint /\ AsWanted(Pending)
  <2>1. result = "none"
    BY DEF Flow, OnGroup
  <2> QED BY <2>1, Sounding DEF Sounded
<1>2. \A e \in Endpoint : ase[e].state = "streaming"
  BY <1>1 DEF States, AsWanted, StreamAsWanted
<1>3. \A e \in Endpoint : ase[e].ch = Channel(e)
  BY DEF States, OnChannel
<1>4. \A e \in Endpoint : Channel(e) \in open /\ route[Channel(e)] = Channel(e)
  BY ChannelOf DEF Handles
<1> QED BY <1>2, <1>3, <1>4

\* Audio starts only when each endpoint streams on its own channel, which is open and
\* in its place.  (negotiation.rs streaming_response, session.rs establish_prepared)
THEOREM EarsAlwaysConfirmed == Spec => EarsConfirmed
<1> DEFINE Confirmed ==
      \A e \in Endpoint :
         /\ ase[e].state = "streaming" /\ ase[e].ch = Channel(e)
         /\ Channel(e) \in open /\ route[Channel(e)] = Channel(e)
<1>1. ASSUME Inv, [Next]_vars
      PROVE  [(pc = "streams" /\ pc' = "playing" /\ ~slipped) => Confirmed]_vars
  BY <1>1, PlayingConfirmed
<1>2. Spec => [][(pc = "streams" /\ pc' = "playing" /\ ~slipped) => Confirmed]_vars
  BY <1>1, EndpointsInvariant, PTL DEF Spec
<1> QED BY <1>2 DEF EarsConfirmed
=============================================================================
