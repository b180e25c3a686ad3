-------------------------- MODULE ConnectingProofs --------------------------
(***************************************************************************)
(* Proofs about Connecting: what the loop of Agent::connect owes to the    *)
(* settings and to the application, for any number of failures, losses and *)
(* connects.                                                               *)
(***************************************************************************)
EXTENDS Connecting, TLAPS

\* The link is closed for a command of its own, after which nothing follows.
OwnHangUp == pc \in {"hangup", "hanging"} /\ next = "idle"

AtRest == pc = "idle" \/ OwnHangUp

Types ==
    /\ attempt \in 0..3
    /\ unwanted \in 0..2
    /\ policy \in BOOLEAN /\ disk \in BOOLEAN
    /\ announced \in BOOLEAN /\ cancelled \in BOOLEAN
    /\ next \in {"idle", "decide"}

\* Attempts against the settings are counted by the attempts of this round, unless
\* a pause is about to find out that there will be no more.
Counted ==
    /\ disk => unwanted = 0
    /\ AtRest \/ (pc = "pause" /\ ~policy) \/ unwanted <= attempt

\* Where an announcement may stand, and that only the policy leads to a third
\* attempt.
Owed ==
    /\ AtRest => cancelled \/ ~announced
    /\ pc = "play" => ~announced
    /\ pc = "pause" /\ ~policy => ~announced
    /\ attempt = 3 => AtRest \/ policy

Inv == Types /\ Counted /\ Owed

\* The steps of the controller and of the headset are none of the loop's.
LEMMA LoopUntouched ==
  ASSUME Inv, UNCHANGED <<pc, next, userVars, loopVars>>
  PROVE  Inv'
  BY DEF Inv, Types, Counted, Owed, AtRest, OwnHangUp, userVars, loopVars

\* Nor are those that only move on, within one attempt.
LEMMA WithinAttempt ==
  ASSUME Inv, UNCHANGED <<next, userVars, loopVars>>, ~AtRest, pc \notin {"pause"},
         pc' \notin {"idle", "pause", "play", "hangup", "hanging"}
  PROVE  Inv'
  BY DEF Inv, Types, Counted, Owed, AtRest, OwnHangUp, userVars, loopVars

\* An end that takes the announcement back.
LEMMA EndsQuietly ==
  ASSUME Inv, UNCHANGED <<next, disk, cancelled, attempt, unwanted>>, policy' \in BOOLEAN,
         announced' = FALSE, pc' = "idle"
  PROVE  Inv'
  BY DEF Inv, Types, Counted, Owed, AtRest, OwnHangUp

LEMMA WorldStep ==
  ASSUME Inv, PeerAnswers \/ AttemptAborted \/ LinkCloses \/ ReaderDies
  PROVE  Inv'
  BY LoopUntouched DEF PeerAnswers, AttemptAborted, LinkCloses, ReaderDies

LEMMA UserStep ==
  ASSUME Inv, UserCancels \/ UserTogglesPolicy \/ ConnectCommand \/ DisconnectCommand
  PROVE  Inv'
  <1> USE DEF Inv, Types, Counted, Owed, AtRest, OwnHangUp
  <1>1. CASE UserCancels
    BY <1>1 DEF UserCancels, loopVars
  <1>2. CASE UserTogglesPolicy
    <2>1. /\ disk' \in BOOLEAN /\ unwanted' = 0
          /\ UNCHANGED <<pc, next, attempt, policy, announced, cancelled>>
      BY <1>2, Zenon DEF UserTogglesPolicy
    <2>2. QED BY <2>1
  <1>3. CASE ConnectCommand
    <2>1. /\ pc' = "round" /\ attempt' = 0 /\ unwanted' = 0 /\ cancelled' \in BOOLEAN
          /\ next' = next /\ disk' = disk /\ policy' = policy /\ announced' = announced
      BY <1>3 DEF ConnectCommand, Goto
    <2>2. Types'
      BY <2>1
    <2>3. Counted'
      BY <2>1
    <2>4. Owed'
      BY <2>1
    <2>5. QED BY <2>2, <2>3, <2>4
  <1>4. CASE DisconnectCommand
    BY <1>4 DEF DisconnectCommand, Still, loopVars, userVars
  <1>5. QED BY <1>1, <1>2, <1>3, <1>4

LEMMA LoopStep ==
  ASSUME Inv, Loop
  PROVE  Inv'
  <1>1. CASE RoundRefused
    <2>1. /\ UNCHANGED <<next, disk, cancelled, attempt, unwanted>> /\ policy' \in BOOLEAN
          /\ announced' = FALSE /\ pc' = "idle"
      BY <1>1 DEF RoundRefused, PolicyNow, Still, userVars, Goto, Inv, Types
    <2>2. QED BY <2>1, EndsQuietly
  <1>2. CASE BeginAttempt
    <2>1. /\ pc = "round" /\ policy' = disk /\ (attempt >= 2 => policy')
          /\ attempt' = IF attempt < 3 THEN attempt + 1 ELSE 3
          /\ unwanted' = IF disk \/ unwanted = 3 THEN unwanted ELSE unwanted + 1
          /\ UNCHANGED <<next, disk, cancelled>>
      BY <1>2, Zenon DEF BeginAttempt, PolicyNow, Still, userVars
    <2>2. /\ pc' \in {"search", "connect", "idle"} /\ announced' \in BOOLEAN
          /\ pc' = "idle" => ~announced'
      BY <1>2 DEF BeginAttempt, Inv, Types
    <2>3. unwanted \in 0..2 /\ attempt \in 0..3 /\ unwanted <= attempt /\ (disk => unwanted = 0)
      BY <2>1 DEF Inv, Types, Counted, AtRest, OwnHangUp
    <2>4. attempt' \in 0..3 /\ unwanted' \in 0..2 /\ unwanted' <= attempt' /\ (disk => unwanted' = 0)
      <3>1. CASE disk
        BY <2>1, <2>3, <3>1
      <3>2. CASE ~disk
        <4>1. unwanted' = unwanted + 1 /\ attempt < 2 /\ attempt' = attempt + 1
          BY <2>1, <2>3, <3>2
        <4>2. QED BY <2>3, <3>2, <4>1
      <3>3. QED BY <3>1, <3>2
    <2>5. attempt' = 3 => policy'
      BY <2>1, <2>3
    <2>6. Types'
      BY <2>1, <2>2, <2>4 DEF Inv, Types
    <2>7. Counted'
      BY <2>1, <2>4 DEF Counted
    <2>8. Owed'
      BY <2>2, <2>5 DEF Owed, AtRest, OwnHangUp
    <2>9. QED BY <2>6, <2>7, <2>8 DEF Inv
  <1>3. CASE AfterFailure
    <2>1. /\ pc = "decide"
          /\ UNCHANGED <<next, disk, cancelled, attempt, unwanted, policy>>
      BY <1>3 DEF AfterFailure, Still, userVars, Goto
    <2>2. CASE attempt = 1 /\ announced' = announced /\ pc' = IF cancelled THEN "idle" ELSE "round"
      <3>1. CASE cancelled
        BY <2>1, <2>2, <3>1 DEF Inv, Types, Counted, Owed, AtRest, OwnHangUp
      <3>2. CASE ~cancelled
        BY <2>1, <2>2, <3>2 DEF Inv, Types, Counted, Owed, AtRest, OwnHangUp
      <3>3. QED BY <3>1, <3>2
    <2>3. CASE attempt = 2 /\ ~policy /\ announced' = FALSE /\ pc' = "idle"
      BY <2>1, <2>3, EndsQuietly DEF Inv, Types
    <2>4. CASE attempt >= 2 /\ policy /\ announced' \in BOOLEAN /\ pc' = "pause"
      BY <2>1, <2>4 DEF Inv, Types, Counted, Owed, AtRest, OwnHangUp
    <2>5. CASE attempt > 2 /\ announced' = announced /\ pc' = "pause"
      <3>1. attempt = 3 /\ ~AtRest /\ policy /\ announced \in BOOLEAN
        BY <2>1, <2>5 DEF Inv, Types, Owed, AtRest, OwnHangUp
      <3>2. QED BY <2>4, <2>5, <3>1
    <2>6. announced \in BOOLEAN
      BY DEF Inv, Types
    <2>7. CASE attempt = 2 /\ policy /\ announced' = TRUE /\ Goto("pause")
      BY <2>4, <2>7 DEF Goto
    <2>8. QED
      BY <1>3, <2>2, <2>3, <2>5, <2>7, Zenon DEF AfterFailure, Goto
  <1>4. CASE Pause
    <2>1. /\ pc = "pause"
          /\ UNCHANGED <<next, disk, cancelled, attempt, unwanted, policy>>
      BY <1>4 DEF Pause, Still, userVars, Goto
    <2>2. CASE ~policy /\ pc' = "idle" /\ announced' = announced
      BY <2>1, <2>2 DEF Inv, Types, Counted, Owed, AtRest, OwnHangUp
    <2>3. CASE announced' = FALSE /\ pc' = "idle"
      BY <2>1, <2>3, EndsQuietly DEF Inv, Types
    <2>4. CASE policy /\ pc' = "round" /\ announced' = announced
      BY <2>1, <2>4 DEF Inv, Types, Counted, Owed, AtRest, OwnHangUp
    <2>5. QED BY <1>4, <2>2, <2>3, <2>4 DEF Pause, Goto
  <1>5. CASE Reset
    <2>1. /\ pc = "failed" /\ pc' \in {"hangup", "decide"} /\ next' = "decide"
          /\ UNCHANGED <<userVars, loopVars>>
      BY <1>5 DEF Reset, Still
    <2>2. QED BY <2>1 DEF Inv, Types, Counted, Owed, AtRest, OwnHangUp, userVars, loopVars
  <1>6. QED BY <1>1, <1>2, <1>3, <1>4, <1>5 DEF Loop

LEMMA SearchStep ==
  ASSUME Inv, Search \/ ReopenFails
  PROVE  Inv'
  <1>1. ASSUME EndWithError, UNCHANGED userVars
        PROVE  Inv'
    BY <1>1, EndsQuietly DEF EndWithError, userVars, Goto, Inv, Types
  <1>2. CASE Reopen
    BY <1>2, LoopUntouched DEF Reopen
  <1>3. CASE StartScan
    <2>1. CASE Goto("connect") /\ UNCHANGED loopVars
      BY <1>3, <2>1, WithinAttempt DEF StartScan, Goto, AtRest, OwnHangUp
    <2>2. CASE Goto("searching") /\ UNCHANGED loopVars
      BY <1>3, <2>2, WithinAttempt DEF StartScan, Goto, AtRest, OwnHangUp
    <2>3. QED BY <1>1, <1>3, <2>1, <2>2 DEF StartScan
  <1>4. CASE StopScan
    <2>1. CASE Goto("connect") /\ UNCHANGED loopVars
      BY <1>4, <2>1, WithinAttempt DEF StopScan, Goto, AtRest, OwnHangUp
    <2>2. QED BY <1>1, <1>4, <2>1 DEF StopScan
  <1>5. CASE ReopenFails
    <2>1. CASE Goto("failed") /\ UNCHANGED loopVars
      BY <1>5, <2>1, WithinAttempt DEF ReopenFails, Goto, AtRest, OwnHangUp
    <2>2. QED BY <1>1, <1>5, <2>1 DEF ReopenFails
  <1>6. QED BY <1>2, <1>3, <1>4, <1>5 DEF Search

LEMMA RequestStep ==
  ASSUME Inv, Request
  PROVE  Inv'
  <1>1. CASE Abandoned \/ CreateConnection \/ Await \/ Cancel
    <2>1. /\ UNCHANGED <<next, userVars, loopVars>>
          /\ pc \in {"connect", "await", "cancel"}
          /\ pc' \in {"failed", "await", "setup", "cancel", "settle"}
      BY <1>1 DEF Abandoned, CreateConnection, Await, Cancel, Goto, Still
    <2>2. QED BY <2>1, WithinAttempt DEF AtRest, OwnHangUp
  <1>2. CASE Settle \/ Drop \/ Dropped
    <2>1. /\ UNCHANGED <<next, userVars, loopVars>>
          /\ pc \in {"settle", "drop", "dropping"}
          /\ pc' \in {"failed", "setup", "drop", "dropping"}
      BY <1>2 DEF Settle, Drop, Dropped, LateWinner, Goto
    <2>2. QED BY <2>1, WithinAttempt DEF AtRest, OwnHangUp
  <1>3. QED BY <1>1, <1>2 DEF Request

\* What has failed on the link, or closing it, leads to the report of the failure.
LEMMA OnTheWayOut ==
  ASSUME Inv, UNCHANGED <<disk, cancelled, attempt, unwanted, policy, announced>>, ~AtRest,
         pc # "pause", next' = "decide",
         pc' \in {"hangup", "hanging", "decide"}
  PROVE  Inv'
  BY DEF Inv, Types, Counted, Owed, AtRest, OwnHangUp

LEMMA LinkStep ==
  ASSUME Inv, OnLink \/ SetUpFails \/ PlayStops \/ PlayFails
  PROVE  Inv'
  <1>1. CASE SetUp
    <2>1. /\ pc = "setup" /\ pc' = "play" /\ announced' = FALSE
          /\ UNCHANGED <<next, disk, cancelled, attempt, unwanted, policy>>
      BY <1>1 DEF SetUp, Still, userVars
    <2>2. QED BY <2>1 DEF Inv, Types, Counted, Owed, AtRest, OwnHangUp
  <1>2. CASE SetUpLost \/ SetUpFails \/ PlayFails
    <2>1. /\ pc \in {"setup", "play"} /\ pc' = "hangup" /\ next' = "decide"
          /\ UNCHANGED <<disk, cancelled, attempt, unwanted, policy, announced>>
      BY <1>2 DEF SetUpLost, SetUpFails, PlayFails, Still, userVars, loopVars
    <2>2. QED BY <2>1, OnTheWayOut DEF AtRest, OwnHangUp
  <1>3. CASE PlayLost
    <2>1. /\ pc = "play" /\ announced = FALSE
          /\ UNCHANGED <<next, disk, cancelled, unwanted>>
      BY <1>3 DEF PlayLost, userVars, Inv, Types, Owed
    <2>2. CASE policy' = disk /\ attempt' = 0 /\ announced' = disk /\ pc' = "pause"
      <3>1. CASE disk
        BY <2>1, <2>2, <3>1 DEF Inv, Types, Counted, Owed, AtRest, OwnHangUp
      <3>2. CASE ~disk
        BY <2>1, <2>2, <3>2 DEF Inv, Types, Counted, Owed, AtRest, OwnHangUp
      <3>3. QED BY <3>1, <3>2
    <2>3. CASE pc' = "idle" /\ UNCHANGED <<policy, attempt, announced>>
      BY <2>1, <2>3 DEF Inv, Types, Counted, Owed, AtRest, OwnHangUp
    <2>4. QED BY <1>3, <2>2, <2>3 DEF PlayLost, AnnounceLoss
  <1>4. CASE PlayStops
    <2>1. /\ pc = "play" /\ pc' = "idle"
          /\ UNCHANGED <<next, disk, cancelled, attempt, unwanted, policy, announced>>
      BY <1>4 DEF PlayStops, Still, userVars, loopVars, Goto
    <2>2. QED BY <2>1 DEF Inv, Types, Counted, Owed, AtRest, OwnHangUp
  <1>5. CASE HangUp \/ HungUp
    <2>1. /\ pc \in {"hangup", "hanging"} /\ pc' \in {"hanging", next}
          /\ UNCHANGED <<next, disk, cancelled, attempt, unwanted, policy, announced>>
      BY <1>5 DEF HangUp, HungUp, userVars, loopVars
    <2>2. CASE next = "idle"
      BY <2>1, <2>2 DEF Inv, Types, Counted, Owed, AtRest, OwnHangUp
    <2>3. CASE next = "decide"
      <3>1. ~AtRest /\ next' = "decide" /\ pc' \in {"hanging", "decide"}
        BY <2>1, <2>3 DEF AtRest, OwnHangUp
      <3>2. QED BY <2>1, <3>1, OnTheWayOut
    <2>4. QED BY <2>2, <2>3 DEF Inv, Types
  <1>6. QED BY <1>1, <1>2, <1>3, <1>4, <1>5 DEF OnLink

LEMMA EndStep ==
  ASSUME Inv, NotRetried \/ WindowOver
  PROVE  Inv'
  <1>1. /\ UNCHANGED <<next, disk, cancelled, attempt, unwanted, policy>>
        /\ announced' = FALSE /\ pc' = "idle"
    BY DEF NotRetried, WindowOver, Still, userVars, Goto
  <1>2. QED BY <1>1, EndsQuietly DEF Inv, Types

LEMMA ConnectingInitially == Init => Inv
  <1> SUFFICES ASSUME Init PROVE Inv
    OBVIOUS
  <1>1. /\ pc = "idle" /\ next = "idle" /\ attempt = 0 /\ unwanted = 0
        /\ policy \in BOOLEAN /\ disk \in BOOLEAN
        /\ announced \in BOOLEAN /\ ~announced /\ cancelled \in BOOLEAN
    BY Zenon DEF Init
  <1>2. Types
    BY <1>1 DEF Types
  <1>3. Counted /\ Owed
    BY <1>1 DEF Counted, Owed, AtRest
  <1>4. QED BY <1>2, <1>3 DEF Inv

LEMMA ConnectingPreserved == Inv /\ [Next]_vars => Inv'
  <1> SUFFICES ASSUME Inv, [Next]_vars PROVE Inv'
    OBVIOUS
  <1>1. CASE UNCHANGED vars
    BY <1>1, LoopUntouched DEF vars
  <1>2. QED
    BY <1>1, WorldStep, UserStep, LoopStep, SearchStep, RequestStep, LinkStep, EndStep DEF Next

(***************************************************************************)
(* Once automatic reconnect is off, at most one attempt and its immediate  *)
(* retry follow, for any history of losses and failures.                   *)
(***************************************************************************)
THEOREM OffIsOff == Spec => []OffMeansOff
  <1>1. Inv => OffMeansOff
    BY DEF Inv, Types, OffMeansOff
  <1>2. QED BY <1>1, ConnectingInitially, ConnectingPreserved, PTL DEF Spec

(***************************************************************************)
(* No way out of the loop leaves an announced reconnect standing, unless   *)
(* the user has cancelled it.                                              *)
(***************************************************************************)
THEOREM AnnouncementsEnd == Spec => []AnnouncedEnds
  <1>1. Inv => AnnouncedEnds
    BY DEF Inv, Owed, AtRest, AnnouncedEnds
  <1>2. QED BY <1>1, ConnectingInitially, ConnectingPreserved, PTL DEF Spec
-----------------------------------------------------------------------------
(* Nothing is left behind.                                                 *)

Waiting == {"await", "cancel", "settle"}
Closing == {"dropping", "hanging"}
Owners == Waiting \cup Closing \cup {"setup", "drop", "hangup"}

\* What the controller does, somebody waits for or knows of.  Nothing is unread
\* while a request goes on, and while there is a link nothing says it has failed
\* or ended.
Tidy ==
    /\ events \in Seq({"linked", "failed", "closed"})
    /\ initiating # "no" => pc \in Waiting /\ acl = "none" /\ events = <<>>
    /\ scanning => pc = "searching"
    /\ acl \in {"none", "up", "closing"} /\ (acl = "closing" => pc \in Closing)
    /\ acl # "none" => events \in Seq({"linked"}) /\ (held \/ pc \in Owners)
    /\ pc = "play" => held

Owned == alive /\ ~late => Tidy

\* The worker goes on without a word to the controller.
LEMMA Aside ==
  ASSUME Owned, UNCHANGED <<late, adapterVars>>,
         pc \notin Waiting \cup Closing \cup {"searching"},
         acl # "none" => held' \/ pc' \in Owners,
         pc' = "play" => held'
  PROVE  Owned'
  BY DEF Owned, Tidy, adapterVars

LEMMA Unmoved ==
  ASSUME Owned, UNCHANGED <<pc, held, late, adapterVars>>
  PROVE  Owned'
  BY DEF Owned, Tidy, adapterVars

\* An event that is taken out of the queue leaves the others.
LEMMA LessOne ==
  ASSUME NEW Kinds, events \in Seq(Kinds), NEW i \in DOMAIN events
  PROVE  events[i] \in Kinds /\ Without(i) \in Seq(Kinds)
  BY DEF Without

LEMMA WorldOwned ==
  ASSUME Owned, PeerAnswers \/ AttemptAborted \/ LinkCloses \/ ReaderDies
  PROVE  Owned'
  <1> SUFFICES ASSUME alive', ~late' PROVE Tidy'
    BY DEF Owned
  <1> USE DEF Tidy, Waiting, Owners
  <1>1. CASE PeerAnswers
    <2>1. Tidy
      BY <1>1 DEF PeerAnswers, Owned
    <2>2. /\ initiating' = "no" /\ UNCHANGED <<pc, held, scanning>>
          /\ pc \in Waiting /\ acl = "none" /\ events = <<>>
      BY <1>1, <2>1 DEF PeerAnswers
    <2>3. \/ acl' = "up" /\ events' = <<"linked">>
          \/ acl' = "none" /\ events' = <<"failed">>
      BY <1>1, <2>2 DEF PeerAnswers
    <2>4. CASE acl' = "up" /\ events' = <<"linked">>
      <3>1. events' \in Seq({"linked", "failed", "closed"}) /\ events' \in Seq({"linked"})
        BY <2>4
      <3>2. QED BY <2>1, <2>2, <2>4, <3>1
    <2>5. CASE acl' = "none" /\ events' = <<"failed">>
      <3>1. events' \in Seq({"linked", "failed", "closed"})
        BY <2>5
      <3>2. QED BY <2>1, <2>2, <2>5, <3>1
    <2>6. QED BY <2>3, <2>4, <2>5
  <1>2. CASE AttemptAborted
    <2>1. Tidy
      BY <1>2 DEF AttemptAborted, Owned
    <2>2. QED BY <1>2, <2>1 DEF AttemptAborted
  <1>3. CASE LinkCloses
    <2>1. Tidy
      BY <1>3 DEF LinkCloses, Owned
    <2>2. initiating = "no" /\ acl' = "none" /\ events' = Append(events, "closed")
          /\ UNCHANGED <<pc, held, scanning, initiating>>
      BY <1>3, <2>1 DEF LinkCloses
    <2>3. QED BY <2>1, <2>2
  <1>4. CASE ReaderDies
    BY <1>4 DEF ReaderDies
  <1>5. QED BY <1>1, <1>2, <1>3, <1>4

LEMMA UserOwned ==
  ASSUME Owned, UserCancels \/ UserTogglesPolicy \/ ConnectCommand \/ DisconnectCommand
  PROVE  Owned'
  <1>1. CASE UserCancels \/ UserTogglesPolicy
    BY <1>1, Unmoved DEF UserCancels, UserTogglesPolicy
  <1>2. CASE ConnectCommand
    <2>1. pc = "idle" /\ pc' = "round" /\ held' = held /\ UNCHANGED <<late, adapterVars>>
      BY <1>2 DEF ConnectCommand, Goto
    <2>2. acl # "none" /\ alive /\ ~late => held
      BY <2>1 DEF Owned, Tidy, Owners, Waiting, Closing
    <2>3. QED BY <2>1, <2>2 DEF Owned, Tidy, adapterVars, Waiting, Closing
  <1>3. CASE DisconnectCommand
    BY <1>3, Aside DEF DisconnectCommand, Still, Owners, Waiting, Closing
  <1>4. QED BY <1>1, <1>2, <1>3

\* The worker goes on, and a link it knows stays known.
LEMMA KeepsHeld ==
  ASSUME Owned, UNCHANGED <<held, late, adapterVars>>, pc \notin Owners \cup {"searching"},
         pc' # "play"
  PROVE  Owned'
  BY DEF Owned, Tidy, adapterVars, Owners, Waiting, Closing

LEMMA LoopOwned ==
  ASSUME Owned, Loop \/ NotRetried \/ WindowOver \/ Abandoned \/ PlayStops
  PROVE  Owned'
  <1>1. CASE Reset
    <2>1. pc = "failed" /\ pc' = (IF held THEN "hangup" ELSE "decide")
          /\ UNCHANGED <<late, adapterVars>>
      BY <1>1 DEF Reset, Still
    <2>2. CASE held
      BY <2>1, <2>2, Aside DEF Owners, Waiting, Closing
    <2>3. CASE ~held
      <3>1. alive /\ ~late => acl = "none"
        BY <2>1, <2>3 DEF Owned, Tidy, Owners, Waiting, Closing
      <3>2. QED BY <2>1, <2>3, <3>1 DEF Owned, Tidy, adapterVars, Owners, Waiting, Closing
    <2>4. QED BY <2>2, <2>3
  <1>2. CASE RoundRefused \/ BeginAttempt
    BY <1>2, KeepsHeld DEF RoundRefused, BeginAttempt, Goto, Still, Owners, Waiting, Closing
  <1>3. CASE AfterFailure \/ Pause \/ NotRetried \/ WindowOver \/ Abandoned \/ PlayStops
    <2>1. /\ UNCHANGED <<held, late, adapterVars>>
          /\ pc \in {"decide", "pause", "connect", "play"}
          /\ pc' \in {"idle", "round", "pause", "failed"}
      BY <1>3 DEF AfterFailure, Pause, NotRetried, WindowOver, Abandoned, PlayStops, Goto, Still
    <2>2. QED BY <2>1, KeepsHeld DEF Owners, Waiting, Closing
  <1>4. QED BY <1>1, <1>2, <1>3 DEF Loop

LEMMA SearchOwned ==
  ASSUME Owned, Search \/ ReopenFails
  PROVE  Owned'
  <1> USE DEF Tidy, Owners, Waiting, Closing
  <1>1. CASE Reopen
    BY <1>1 DEF Reopen, Owned
  <1>2. CASE StartScan
    <2>1. /\ pc = "search" /\ alive /\ UNCHANGED <<held, late, alive, initiating, acl, events>>
          /\ pc' \in {"connect", "idle", "searching"}
          /\ scanning' = scanning \/ pc' = "searching"
      BY <1>2 DEF StartScan, EndWithError, Goto
    <2>2. QED BY <2>1 DEF Owned
  <1>3. CASE StopScan
    <2>1. /\ pc = "searching" /\ UNCHANGED <<held, alive, initiating, acl, events>>
          /\ pc' \in {"connect", "idle"}
          /\ alive /\ ~late' => late = late' /\ scanning' = FALSE
      BY <1>3 DEF StopScan, EndWithError, Goto
    <2>2. QED BY <2>1 DEF Owned
  <1>4. CASE ReopenFails
    BY <1>4 DEF ReopenFails, Owned, adapterVars
  <1>5. QED BY <1>1, <1>2, <1>3, <1>4 DEF Search

LEMMA RequestOwned ==
  ASSUME Owned, CreateConnection \/ Await \/ Cancel \/ Settle \/ Drop \/ Dropped
  PROVE  Owned'
  <1> SUFFICES ASSUME alive', ~late' PROVE Tidy'
    BY DEF Owned
  <1> USE DEF Tidy, Owners, Waiting, Closing
  <1>1. Tidy /\ alive /\ ~late
    <2>1. alive' = alive
      BY DEF CreateConnection, Await, Cancel, Settle, Drop, Dropped
    <2>2. late' = late \/ late'
      <3>1. CASE CreateConnection \/ Settle \/ Dropped
        BY <3>1 DEF CreateConnection, Settle, Dropped
      <3>2. CASE Await \/ Cancel \/ Drop
        BY <3>2 DEF Await, Cancel, Drop
      <3>3. QED BY <3>1, <3>2
    <2>3. QED BY <2>1, <2>2 DEF Owned
  <1>2. CASE CreateConnection
    <2>1. /\ pc = "connect" /\ initiating = "no" /\ events' = <<>>
          /\ UNCHANGED <<held, scanning, acl>>
          /\ \/ acl = "none" /\ pc' = "await"
             \/ initiating' = "no" /\ pc' = "failed"
      BY <1>1, <1>2 DEF CreateConnection, Goto
    <2>2. QED BY <1>1, <2>1
  <1>3. CASE Await
    <2>1. pc = "await" /\ UNCHANGED <<held, scanning, initiating, acl>>
      BY <1>3 DEF Await, Goto
    <2>2. CASE pc' = "cancel" /\ events' = events
      BY <1>1, <2>1, <2>2
    <2>3. ASSUME NEW i \in DOMAIN events, First(i, Completions), events' = Without(i),
                 pc' = IF events[i] = "linked" THEN "setup" ELSE "failed"
          PROVE  Tidy'
      <3>1. initiating = "no" /\ events[i] \in {"linked", "failed"}
        BY <1>1, <2>3 DEF First, Completions
      <3>2. events' \in Seq({"linked", "failed", "closed"})
        BY <1>1, <2>3, LessOne
      <3>3. acl # "none" => events[i] = "linked" /\ events' \in Seq({"linked"})
        BY <1>1, <2>3, LessOne
      <3>4. QED BY <1>1, <2>1, <2>3, <3>1, <3>2, <3>3
    <2>4. QED BY <1>1, <1>3, <2>2, <2>3 DEF Await, Goto
  <1>4. CASE Cancel
    BY <1>1, <1>4 DEF Cancel, Goto
  <1>5. CASE Settle
    <2>1. pc = "settle" /\ UNCHANGED <<held, scanning, initiating, acl>>
      BY <1>5 DEF Settle, Goto
    <2>2. PICK i \in DOMAIN events :
             LET outcome == IF events[i] = "linked" THEN LateWinner ELSE "failed" IN
             /\ First(i, Completions) /\ Goto(outcome)
             /\ events' = IF outcome = "failed" THEN <<>> ELSE Without(i)
      BY <1>1, <1>5 DEF Settle
    <2>3. initiating = "no" /\ events[i] \in {"linked", "failed"}
      BY <1>1, <2>2 DEF First, Completions
    <2>4. CASE events[i] = "linked"
      <3>1. pc' \in {"drop", "setup"} /\ events' = Without(i)
        BY <2>2, <2>4 DEF LateWinner, Goto
      <3>2. events' \in Seq({"linked", "failed", "closed"})
        BY <1>1, <3>1, LessOne
      <3>3. acl # "none" => events' \in Seq({"linked"})
        BY <1>1, <3>1, LessOne
      <3>4. QED BY <1>1, <2>1, <2>3, <3>1, <3>2, <3>3
    <2>5. CASE events[i] # "linked"
      <3>1. pc' = "failed" /\ events' = <<>>
        BY <2>2, <2>5 DEF Goto
      <3>2. acl = "none"
        BY <1>1, <2>5, LessOne
      <3>3. QED BY <1>1, <2>1, <2>3, <3>1, <3>2
    <2>6. QED BY <2>4, <2>5
  <1>6. CASE Drop
    <2>1. /\ pc = "drop" /\ UNCHANGED <<held, scanning, initiating, events>>
          /\ \/ acl = "up" /\ acl' = "closing" /\ pc' = "dropping"
             \/ acl # "up" /\ acl' = acl /\ pc' = "failed"
      BY <1>1, <1>6 DEF Drop, Goto
    <2>2. QED BY <1>1, <2>1
  <1>7. CASE Dropped
    <2>1. /\ pc = "dropping" /\ pc' = "failed" /\ HasClosed /\ events' = <<>>
          /\ UNCHANGED <<held, scanning, initiating, acl>>
      BY <1>1, <1>7 DEF Dropped, Goto
    <2>2. acl = "none"
      BY <1>1, <2>1 DEF HasClosed
    <2>3. QED BY <1>1, <2>1, <2>2
  <1>8. QED BY <1>2, <1>3, <1>4, <1>5, <1>6, <1>7

LEMMA LinkOwned ==
  ASSUME Inv, Owned, OnLink \/ SetUpFails \/ PlayFails
  PROVE  Owned'
  <1> USE DEF Owners, Waiting, Closing
  <1>1. CASE SetUp \/ SetUpLost \/ SetUpFails \/ PlayFails
    <2>1. /\ pc \in {"setup", "play"} /\ UNCHANGED <<late, adapterVars>>
          /\ pc' = "hangup" \/ (pc' = "play" /\ held')
      BY <1>1 DEF SetUp, SetUpLost, SetUpFails, PlayFails, Still
    <2>2. QED BY <2>1, Aside
  <1>2. CASE PlayLost
    <2>1. PICK i \in DOMAIN events : First(i, {"closed"}) /\ events' = Without(i)
      BY <1>2 DEF PlayLost
    <2>2. /\ pc = "play" /\ pc' \in {"pause", "idle"}
          /\ UNCHANGED <<late, alive, scanning, initiating, acl>>
      BY <1>2 DEF PlayLost
    <2>3. ASSUME Tidy PROVE Tidy'
      <3>1. events[i] = "closed" /\ events' \in Seq({"linked", "failed", "closed"})
        BY <2>1, <2>3, LessOne DEF First, Tidy
      <3>2. acl = "none"
        BY <2>3, <3>1, LessOne DEF Tidy
      <3>3. QED BY <2>2, <2>3, <3>1, <3>2 DEF Tidy
    <2>4. QED BY <2>2, <2>3 DEF Owned
  <1>3. CASE HangUp
    <2>1. /\ pc = "hangup" /\ UNCHANGED <<held, late, scanning, initiating, events>>
          /\ \/ alive' = alive /\ acl' = "none" /\ acl = "none" /\ pc' = next
             \/ alive' = alive /\ acl' = "closing" /\ acl # "none" /\ pc' = "hanging"
             \/ ~alive'
      BY <1>3 DEF HangUp
    <2>2. next \in {"idle", "decide"}
      BY DEF Inv, Types
    <2>3. QED BY <2>1, <2>2 DEF Owned, Tidy
  <1>4. CASE HungUp
    <2>1. /\ pc = "hanging" /\ pc' = next
          /\ UNCHANGED <<held, late, scanning, initiating, acl>>
      BY <1>4 DEF HungUp
    <2>2. next \in {"idle", "decide"}
      BY DEF Inv, Types
    <2>3. ASSUME Tidy, NEW i \in DOMAIN events, First(i, {"closed"}), events' = Without(i)
          PROVE  Tidy'
      <3>1. events[i] = "closed" /\ events' \in Seq({"linked", "failed", "closed"})
        BY <2>3, LessOne DEF First, Tidy
      <3>2. acl = "none"
        BY <2>3, <3>1, LessOne DEF Tidy
      <3>3. QED BY <2>1, <2>2, <2>3, <3>1, <3>2 DEF Tidy
    <2>4. ASSUME alive', ~late' PROVE Tidy'
      <3>1. alive /\ ~late /\ \E i \in DOMAIN events : First(i, {"closed"}) /\ events' = Without(i)
        BY <1>4, <2>4 DEF HungUp
      <3>2. QED BY <2>3, <3>1 DEF Owned
    <2>5. QED BY <2>4 DEF Owned
  <1>5. QED BY <1>1, <1>2, <1>3, <1>4 DEF OnLink

LEMMA OwnedInitially == Init => Owned
  BY DEF Init, Owned, Tidy

LEMMA OwnedPreserved == Inv /\ Owned /\ [Next]_vars => Owned'
  <1> SUFFICES ASSUME Inv, Owned, [Next]_vars PROVE Owned'
    OBVIOUS
  <1>1. CASE UNCHANGED vars
    BY <1>1, Unmoved DEF vars
  <1>2. QED
    BY <1>1, WorldOwned, UserOwned, LoopOwned, SearchOwned, RequestOwned, LinkOwned
    DEF Next, Request

(***************************************************************************)
(* Whenever no command runs, the controller rests or has the one link the  *)
(* agent knows, however an attempt, its Cancel and the headset's answer    *)
(* raced before.                                                           *)
(***************************************************************************)
THEOREM LeavesNothing == Spec => []NothingOrphaned
  <1>1. Owned => NothingOrphaned
    BY DEF Owned, Tidy, NothingOrphaned, Owners, Waiting, Closing
  <1>2. Init => Inv /\ Owned
    BY ConnectingInitially, OwnedInitially
  <1>3. Inv /\ Owned /\ [Next]_vars => Inv' /\ Owned'
    BY ConnectingPreserved, OwnedPreserved
  <1>4. QED BY <1>1, <1>2, <1>3, PTL DEF Spec
=============================================================================
