------------------------- MODULE MediaControlProofs -------------------------
(***************************************************************************)
(* What the media control server promises a headset, for any opcodes and   *)
(* any number of commands and connections.                                 *)
(*                                                                         *)
(* Results are queued by finish, told by notifications, and given for what *)
(* is pending; so the promises are stated once for a queue, a pending      *)
(* command and the results already told (Sound), each operation is shown   *)
(* to keep them, and the steps are made of those operations.               *)
(***************************************************************************)
EXTENDS MediaControl, SequenceTheorems, TLAPS

\* A queue of notifications as the code may hold it.
Queue == {q \in Seq(Notes) : Len(q) <= NoteLimit}

Commands == [id : 0..MaxSerial, op : Ops \cup {Position}, old : BOOLEAN]

\* Success is confirmed, a command has one result, and none has an identifier
\* that has not been issued yet.
Sound(q, p, heard, agreed, last) ==
    /\ \A i \in DOMAIN q :
         /\ q[i].kind = "success" => q[i].id \in agreed
         /\ IsResult(q[i]) => q[i].id \in 1..last
         /\ ~IsResult(q[i]) => q[i].id = 0
    /\ \A a \in heard :
         /\ a.kind = "success" => a.id \in agreed
         /\ IsResult(a) /\ a.id \in 1..last
    /\ \A a \in heard, b \in heard : a.id = b.id => a = b
    /\ \A i \in DOMAIN q : IsResult(q[i]) =>
         /\ \A j \in DOMAIN q : q[j].id = q[i].id => j = i
         /\ \A a \in heard : a.id # q[i].id
    /\ p # NonePending =>
         /\ p.id \in 1..last
         /\ \A a \in heard : a.id # p.id
         /\ \A i \in DOMAIN q : q[i].id # p.id

\* What is pending or queued belongs to commands that were made on this link.
InOneLink(q, p, made) ==
    /\ p # NonePending => made[p.id] = link
    /\ \A i \in DOMAIN q : IsResult(q[i]) => made[q[i].id] = link

CommandsOfLink == \A i \in DOMAIN commands : commands[i].id \in 1..serial /\ madeOn[commands[i].id] = link
TakenIssued == \A i \in DOMAIN taken : taken[i].id \in 1..serial

IInv ==
    /\ TypeOK /\ Sound(notes, pending, told, confirmed, serial)
    /\ InOneLink(notes, pending, madeOn) /\ CommandsOfLink /\ TakenIssued /\ NothingCrossesLinks
-----------------------------------------------------------------------------
(***************************************************************************)
(* A notification is put last or, at the limit, nowhere (notify).          *)
(***************************************************************************)
LEMMA NoteFacts ==
    ASSUME NEW q \in Queue, NEW note \in Notes
    PROVE  /\ Note(q, note) \in Queue
           /\ Note(q, note) \in {q, Append(q, note)}
  BY MediaAssumption DEF Note, Queue

(***************************************************************************)
(* What ends a command queues nothing but its result (finish).             *)
(***************************************************************************)
LEMMA EndedFacts ==
    ASSUME NEW q \in Queue, NEW n \in 0..MaxSerial, NEW success \in BOOLEAN
    PROVE  /\ Ended(q, n, success) \in Queue
           /\ Ended(q, n, success) \in {q, Append(q, Result(n, success))}
  <1>1. Result(n, success) \in Notes BY DEF Result, Notes
  <1> QED BY <1>1, NoteFacts DEF Ended, Notified

(***************************************************************************)
(* A queue made longer by a note about the link at hand still is about it. *)
(***************************************************************************)
LEMMA NoteKeepsLink ==
    ASSUME NEW q \in Queue, NEW p, NEW made, NEW note \in Notes, NEW r \in {q, Append(q, note)},
           InOneLink(q, p, made), IsResult(note) => made[note.id] = link
    PROVE  InOneLink(r, p, made) /\ InOneLink(r, NonePending, made)
  <1>1. CASE r = q BY <1>1 DEF InOneLink
  <1>2. CASE r = Append(q, note)
    <2>1. /\ Len(q) \in Nat /\ DOMAIN q = 1..Len(q)
          /\ DOMAIN r = 1..(Len(q) + 1)
          /\ \A i \in 1..Len(q) : r[i] = q[i]
          /\ r[Len(q) + 1] = note
      BY <1>2, SMT DEF Queue
    <2>2. \A i \in DOMAIN r : (i \in DOMAIN q /\ r[i] = q[i]) \/ (i = Len(q) + 1 /\ r[i] = note)
      BY <2>1, SMT
    <2> QED BY <2>2 DEF InOneLink
  <1> QED BY <1>1, <1>2

(***************************************************************************)
(* A refusal or a changed value leaves the results as they are (notify).   *)
(***************************************************************************)
LEMMA PlainNoteKeepsSound ==
    ASSUME NEW q \in Queue, NEW p, NEW heard, NEW agreed, NEW last \in Nat,
           Sound(q, p, heard, agreed, last),
           NEW note \in Notes, ~IsResult(note), note.id = 0,
           NEW r \in {q, Append(q, note)}
    PROVE  Sound(r, p, heard, agreed, last)
  <1>1. CASE r = q BY <1>1
  <1>2. CASE r = Append(q, note)
    <2>1. /\ Len(q) \in Nat /\ DOMAIN q = 1..Len(q)
          /\ DOMAIN r = 1..(Len(q) + 1)
          /\ \A i \in 1..Len(q) : r[i] = q[i]
          /\ r[Len(q) + 1] = note
      BY <1>2, SMT DEF Queue
    <2>2. \A i \in DOMAIN r : (i \in DOMAIN q /\ r[i] = q[i]) \/ (i = Len(q) + 1 /\ r[i] = note)
      BY <2>1, SMT
    <2>3. note.kind # "success" BY DEF IsResult
    <2>4. \A i \in DOMAIN r : IsResult(r[i]) => i \in DOMAIN q /\ r[i] = q[i]
      BY <2>2
    <2>5. \A i \in DOMAIN r :
            /\ r[i].kind = "success" => r[i].id \in agreed
            /\ IsResult(r[i]) => r[i].id \in 1..last
            /\ ~IsResult(r[i]) => r[i].id = 0
      BY <2>2, <2>3 DEF Sound
    <2>6. \A i \in DOMAIN r : IsResult(r[i]) =>
            /\ \A j \in DOMAIN r : r[j].id = r[i].id => j = i
            /\ \A a \in heard : a.id # r[i].id
      <3> SUFFICES ASSUME NEW i \in DOMAIN r, IsResult(r[i])
                   PROVE  /\ \A j \in DOMAIN r : r[j].id = r[i].id => j = i
                          /\ \A a \in heard : a.id # r[i].id
        OBVIOUS
      <3>1. i \in DOMAIN q /\ r[i] = q[i] /\ r[i].id \in 1..last BY <2>4, <2>5
      <3>2. r[i].id # note.id BY <3>1, SMT
      <3> QED BY <2>2, <3>1, <3>2 DEF Sound
    <2>7. p # NonePending =>
            /\ p.id \in 1..last
            /\ \A a \in heard : a.id # p.id
            /\ \A i \in DOMAIN r : r[i].id # p.id
      <3>1. p # NonePending => p.id # note.id BY SMT DEF Sound
      <3> QED BY <2>2, <3>1 DEF Sound
    <2> QED BY <2>5, <2>6, <2>7 DEF Sound
  <1> QED BY <1>1, <1>2

(***************************************************************************)
(* The result of the pending command, confirmed or failed, is its only one *)
(* and ends it (finish).                                                   *)
(***************************************************************************)
LEMMA ResultKeepsSound ==
    ASSUME NEW q \in Queue, NEW p \in Commands, NEW heard, NEW agreed, NEW last \in Nat,
           Sound(q, p, heard, agreed, last), p # NonePending,
           NEW success \in BOOLEAN, success => p.id \in agreed,
           NEW r \in {q, Append(q, Result(p.id, success))}
    PROVE  Sound(r, NonePending, heard, agreed, last)
  <1>1. CASE r = q BY <1>1 DEF Sound
  <1>2. CASE r = Append(q, Result(p.id, success))
    <2> DEFINE note == Result(p.id, success)
    <2>1. note.id = p.id /\ IsResult(note) /\ (note.kind = "success" => success)
      BY DEF Result, IsResult
    <2> HIDE DEF note
    <2>2. /\ Len(q) \in Nat /\ DOMAIN q = 1..Len(q)
          /\ DOMAIN r = 1..(Len(q) + 1)
          /\ \A i \in 1..Len(q) : r[i] = q[i]
          /\ r[Len(q) + 1] = note
      BY <1>2, SMT DEF Queue, note
    <2>3. \A i \in DOMAIN r : (i \in DOMAIN q /\ r[i] = q[i]) \/ (i = Len(q) + 1 /\ r[i] = note)
      BY <2>2, SMT
    <2>4. /\ p.id \in 1..last
          /\ \A a \in heard : a.id # p.id
          /\ \A i \in DOMAIN q : q[i].id # p.id
      BY DEF Sound
    <2>5. \A i \in DOMAIN r :
            /\ r[i].kind = "success" => r[i].id \in agreed
            /\ IsResult(r[i]) => r[i].id \in 1..last
            /\ ~IsResult(r[i]) => r[i].id = 0
      BY <2>1, <2>3, <2>4 DEF Sound
    <2>6. \A i \in DOMAIN r : IsResult(r[i]) =>
            /\ \A j \in DOMAIN r : r[j].id = r[i].id => j = i
            /\ \A a \in heard : a.id # r[i].id
      BY <2>1, <2>3, <2>4 DEF Sound
    <2> QED BY <2>5, <2>6 DEF Sound
  <1> QED BY <1>1, <1>2

(***************************************************************************)
(* Handing the queue to the headset leaves it sound, and times a command   *)
(* out at most (notifications).                                            *)
(***************************************************************************)
LEMMA ServeKeeps ==
    ASSUME TypeOK, NEW q \in Queue, NEW ended \in Commands, NEW last \in Nat, NEW made,
           last <= MaxSerial,
           Sound(q, ended, told, confirmed, last), InOneLink(q, ended, made), \A a \in told : a.link = made[a.id],
           Serve(q, ended)
    PROVE  /\ Sound(notes', pending', told', confirmed, last)
           /\ \A a \in told' : a.link = made[a.id]
           /\ pending' # NonePending => made[pending'.id] = link
           /\ told' \subseteq Told /\ pending' \in Commands /\ notes' = <<>>
           /\ serving' \in {"loop", "procedure", "elsewhere"}
  <1> DEFINE late == ended # NonePending /\ ended.old
             all == IF late THEN Ended(q, ended.id, FALSE) ELSE q
  <1>1. /\ Write(all) /\ notes' = <<>>
        /\ pending' = IF late THEN NonePending ELSE ended
    BY DEF Serve
  <1>2. all \in Queue /\ Sound(all, pending', told, confirmed, last) /\ InOneLink(all, pending', made)
    <2>1. CASE late
      <3>1. Ended(q, ended.id, FALSE) \in {q, Append(q, Result(ended.id, FALSE))}
            /\ Ended(q, ended.id, FALSE) \in Queue
        BY EndedFacts DEF Commands
      <3>2. Sound(Ended(q, ended.id, FALSE), NonePending, told, confirmed, last)
        BY <2>1, <3>1, ResultKeepsSound
      <3>3. Result(ended.id, FALSE) \in Notes BY DEF Result, Notes, Commands
      <3>4. made[Result(ended.id, FALSE).id] = link BY <2>1 DEF InOneLink, Result
      <3>5. InOneLink(Ended(q, ended.id, FALSE), NonePending, made)
        BY <3>1, <3>3, <3>4, NoteKeepsLink
      <3> QED BY <2>1, <3>1, <3>2, <3>5, <1>1
    <2>2. CASE ~late BY <2>2, <1>1
    <2> QED BY <2>1, <2>2
  <1>3. pending' \in Commands
    BY <1>1, MediaAssumption DEF NonePending, Commands
  <1> HIDE DEF all, late
  <1>4. PICK k \in 0..Len(all) :
          /\ told' = told \cup Sent(all, k)
          /\ serving' = IF k < Len(all) THEN "elsewhere" ELSE serving
    BY <1>1 DEF Write
  <1>5. \A i \in 1..k : i \in DOMAIN all /\ all[i] \in Notes
    BY <1>2, <1>4, SMT DEF Queue
  <1>6. \A a \in Sent(all, k) : \E i \in DOMAIN all :
          /\ IsResult(all[i]) /\ all[i] \in Notes
          /\ a = [kind |-> all[i].kind, id |-> all[i].id, link |-> link]
    BY <1>5 DEF Sent
  <1>7. \A a \in Sent(all, k) :
          /\ a \in Told /\ a.id \in 1..last /\ IsResult(a)
          /\ a.kind = "success" => a.id \in confirmed
          /\ a.link = made[a.id]
          /\ \A b \in told : b.id # a.id
          /\ pending' # NonePending => a.id # pending'.id
    <2> TAKE a \in Sent(all, k)
    <2>1. PICK i \in DOMAIN all :
            /\ IsResult(all[i]) /\ all[i] \in Notes
            /\ a = [kind |-> all[i].kind, id |-> all[i].id, link |-> link]
      BY <1>6
    <2>2. /\ all[i].id \in 1..last
          /\ all[i].kind = "success" => all[i].id \in confirmed
          /\ \A b \in told : b.id # all[i].id
          /\ pending' # NonePending => all[i].id # pending'.id
      BY <1>2, <2>1 DEF Sound
    <2>3. made[all[i].id] = link BY <1>2, <2>1 DEF InOneLink
    <2>4. all[i].id \in 1..MaxSerial BY <2>2, MediaAssumption
    <2> QED BY <2>1, <2>2, <2>3, <2>4 DEF Told, IsResult, TypeOK
  <1>8. \A a, b \in Sent(all, k) : a.id = b.id => a = b
    <2> SUFFICES ASSUME NEW a \in Sent(all, k), NEW b \in Sent(all, k), a.id = b.id
                 PROVE  a = b
      OBVIOUS
    <2>1. PICK i \in DOMAIN all : IsResult(all[i])
            /\ a = [kind |-> all[i].kind, id |-> all[i].id, link |-> link]
      BY <1>6
    <2>2. PICK j \in DOMAIN all : IsResult(all[j])
            /\ b = [kind |-> all[j].kind, id |-> all[j].id, link |-> link]
      BY <1>6
    <2>3. all[j].id = all[i].id BY <2>1, <2>2
    <2>4. j = i BY <1>2, <2>1, <2>3 DEF Sound
    <2> QED BY <2>1, <2>2, <2>4
  <1>9. told' \subseteq Told BY <1>4, <1>7 DEF TypeOK
  <1>10. \A a \in told' :
          /\ a.kind = "success" => a.id \in confirmed
          /\ IsResult(a) /\ a.id \in 1..last
    BY <1>2, <1>4, <1>7 DEF Sound
  <1>11. \A a \in told', b \in told' : a.id = b.id => a = b
    BY <1>2, <1>4, <1>7, <1>8 DEF Sound
  <1>12. pending' # NonePending => pending'.id \in 1..last /\ \A a \in told' : a.id # pending'.id
    BY <1>2, <1>4, <1>7 DEF Sound
  <1>13. DOMAIN notes' = {} BY <1>1
  <1>14. Sound(notes', pending', told', confirmed, last)
    BY <1>10, <1>11, <1>12, <1>13 DEF Sound
  <1>15. \A a \in told' : a.link = made[a.id] BY <1>4, <1>7
  <1>16. pending' # NonePending => made[pending'.id] = link BY <1>2 DEF InOneLink
  <1>17. serving' \in {"loop", "procedure", "elsewhere"} BY <1>4 DEF TypeOK
  <1> QED BY <1>1, <1>3, <1>9, <1>14, <1>15, <1>16, <1>17
-----------------------------------------------------------------------------
(***************************************************************************)
(* Empty queues have the types of the queues of the server.                *)
(***************************************************************************)
LEMMA EmptyTyped ==
    /\ <<>> \in Seq(Notes) /\ Len(<<>>) = 0
    /\ <<>> \in Seq([id : 1..MaxSerial, op : Ops \cup {Position}])
    /\ <<>> \in Seq([id : 1..MaxSerial, link : 0..MaxLinks])
    /\ <<>> \in [1..0 -> 0..MaxLinks]
  <1>1. /\ <<>> \in Seq(Notes) /\ Len(<<>>) = 0
        /\ <<>> \in Seq([id : 1..MaxSerial, op : Ops \cup {Position}])
        /\ <<>> \in Seq([id : 1..MaxSerial, link : 0..MaxLinks])
    BY EmptySeq
  <1>2. <<>> \in Seq(0..MaxLinks) BY EmptySeq
  <1>3. <<>> \in [1..0 -> 0..MaxLinks] BY <1>1, <1>2, LenProperties
  <1> QED BY <1>1, <1>3

(***************************************************************************)
(* Init establishes the invariant.                                         *)
(***************************************************************************)
LEMMA InitIInv == Init => IInv
  <1> SUFFICES ASSUME Init PROVE IInv OBVIOUS
  <1>1. TypeOK
    <2>1. pending \in Commands /\ serial \in 0..MaxSerial /\ link \in 0..MaxLinks
      BY MediaAssumption DEF Init, NonePending, Commands
    <2>2. notes \in Seq(Notes) /\ Len(notes) <= NoteLimit
      BY MediaAssumption, EmptyTyped DEF Init
    <2>3. commands \in Seq([id : 1..MaxSerial, op : Ops \cup {Position}])
      BY EmptyTyped, Zenon DEF Init
    <2>4. taken \in Seq([id : 1..MaxSerial, link : 0..MaxLinks])
      BY EmptyTyped, Zenon DEF Init
    <2>5. madeOn \in [1..serial -> 0..MaxLinks] BY EmptyTyped, Zenon DEF Init
    <2> QED BY <2>1, <2>2, <2>3, <2>4, <2>5 DEF Init, TypeOK, Commands
  <1>2. Sound(notes, pending, told, confirmed, serial) BY DEF Init, Sound
  <1>3. InOneLink(notes, pending, madeOn) /\ CommandsOfLink /\ TakenIssued /\ NothingCrossesLinks
    BY DEF Init, InOneLink, CommandsOfLink, TakenIssued, NothingCrossesLinks
  <1> QED BY <1>1, <1>2, <1>3 DEF IInv

(***************************************************************************)
(* What serving the headset leaves of the invariant, when the commands are *)
(* as they were (Poll, Refuse and Subscribe).                              *)
(***************************************************************************)
LEMMA ServedIInv ==
    ASSUME IInv, NEW q \in Queue, Sound(q, pending, told, confirmed, serial),
           InOneLink(q, pending, madeOn), Serve(q, pending),
           encrypted' = encrypted, link' = link, subscribed' \in BOOLEAN,
           UNCHANGED <<playerVars, appVars, serial, madeOn, commands>>
    PROVE  IInv'
  <1>1. /\ TypeOK /\ pending \in Commands /\ serial \in Nat /\ serial <= MaxSerial
        /\ \A a \in told : a.link = madeOn[a.id]
    BY MediaAssumption DEF IInv, TypeOK, Commands, NothingCrossesLinks
  <1>2. /\ Sound(notes', pending', told', confirmed, serial)
        /\ \A a \in told' : a.link = madeOn[a.id]
        /\ pending' # NonePending => madeOn[pending'.id] = link
        /\ told' \subseteq Told /\ pending' \in Commands /\ notes' = <<>>
        /\ serving' \in {"loop", "procedure", "elsewhere"}
    BY <1>1, ServeKeeps
  <1>3. DOMAIN notes' = {} /\ notes' \in Seq(Notes) /\ Len(notes') <= NoteLimit
    BY <1>2, MediaAssumption, EmptyTyped
  <1>4. TypeOK' BY <1>1, <1>2, <1>3 DEF TypeOK, Commands, playerVars, appVars
  <1>5. InOneLink(notes, pending, madeOn)' BY <1>2, <1>3 DEF InOneLink
  <1>6. CommandsOfLink' /\ TakenIssued' /\ NothingCrossesLinks'
    BY <1>2 DEF IInv, CommandsOfLink, TakenIssued, NothingCrossesLinks, appVars
  <1> QED BY <1>2, <1>4, <1>5, <1>6 DEF IInv, appVars

(***************************************************************************)
(* Every step keeps the invariant.                                         *)
(***************************************************************************)
LEMMA NextIInv == IInv /\ [Next]_vars => IInv'
  <1> SUFFICES ASSUME IInv, [Next]_vars PROVE IInv' OBVIOUS
  <1> USE DEF peerVars, playerVars, appVars
  <1>0. /\ notes \in Queue /\ pending \in Commands /\ serial \in Nat /\ link \in 0..MaxLinks
        /\ TypeOK /\ Sound(notes, pending, told, confirmed, serial)
        /\ InOneLink(notes, pending, madeOn) /\ CommandsOfLink /\ TakenIssued /\ NothingCrossesLinks
        /\ DOMAIN commands = 1..Len(commands) /\ Len(commands) \in Nat
    BY MediaAssumption, SMT DEF IInv, TypeOK, Queue, Commands
  <1>1. CASE Poll
    BY <1>0, <1>1, ServedIInv DEF Poll, TypeOK
  <1>2. CASE Accept
    <2>1. PICK op \in Ops \cup {Position} :
            /\ ~Refused(op)
            /\ serial' = serial + 1 /\ madeOn' = Append(madeOn, link)
            /\ commands' = Append(commands, [id |-> serial + 1, op |-> op])
            /\ Serve(notes, [id |-> serial + 1, op |-> op, old |-> FALSE])
      BY <1>2 DEF Accept
    <2> DEFINE new == [id |-> serial + 1, op |-> op, old |-> FALSE]
               cmd == [id |-> serial + 1, op |-> op]
    <2>2. serial < MaxSerial /\ UNCHANGED <<peerVars, playerVars, appVars>>
      BY <1>2 DEF Accept
    <2>3. serial' \in 1..MaxSerial /\ serial' \in Nat /\ serial' <= MaxSerial
      BY <2>1, <2>2, MediaAssumption, <1>0 DEF TypeOK
    <2>4. new \in Commands /\ cmd \in [id : 1..MaxSerial, op : Ops \cup {Position}]
      BY <2>1, <2>3, <1>0 DEF Commands
    <2>5. pending = NonePending BY <2>1 DEF Refused
    <2>6. /\ madeOn' \in [1..serial' -> 0..MaxLinks] /\ madeOn'[serial'] = link
          /\ \A n \in 1..serial : madeOn'[n] = madeOn[n]
      <3>1. madeOn \in Seq(0..MaxLinks) /\ Len(madeOn) = serial
        <4>1. madeOn \in [1..serial -> 0..MaxLinks] BY <1>0 DEF TypeOK
        <4>2. madeOn \in Seq(0..MaxLinks) BY <1>0, <4>1, SeqDef
        <4>3. DOMAIN madeOn = 1..serial BY <4>1
        <4> QED BY <1>0, <4>2, <4>3, LenProperties
      <3>2. /\ madeOn' \in Seq(0..MaxLinks) /\ Len(madeOn') = serial'
            /\ \A n \in 1..serial : madeOn'[n] = madeOn[n]
            /\ madeOn'[serial'] = link
        BY <1>0, <2>1, <3>1, AppendProperties
      <3>3. madeOn' \in [1..serial' -> 0..MaxLinks] BY <3>2, LenProperties
      <3> QED BY <3>2, <3>3
    <2>7. /\ \A i \in DOMAIN notes : notes[i].id # serial' /\ (IsResult(notes[i]) => notes[i].id \in 1..serial)
          /\ \A a \in told : a.id # serial' /\ a.id \in 1..serial
      BY <1>0, <2>1, SMT DEF Sound
    <2>8. Sound(notes, new, told, confirmed, serial')
      <3>1. \A n \in 1..serial : n \in 1..serial' BY <1>0, <2>1
      <3>2. new.id = serial' /\ serial' \in 1..serial' BY <2>1, <2>3
      <3> QED BY <1>0, <2>7, <3>1, <3>2 DEF Sound
    <2>9. PICK made : made = madeOn' OBVIOUS
    <2>10. InOneLink(notes, new, made)
      BY <1>0, <2>1, <2>6, <2>7, <2>9 DEF InOneLink
    <2>11. \A a \in told : a.link = made[a.id]
      BY <1>0, <2>6, <2>7, <2>9 DEF NothingCrossesLinks
    <2> HIDE DEF new
    <2>12. Serve(notes, new) BY <2>1 DEF new
    <2>13. /\ Sound(notes', pending', told', confirmed, serial')
           /\ \A a \in told' : a.link = made[a.id]
           /\ pending' # NonePending => made[pending'.id] = link
           /\ told' \subseteq Told /\ pending' \in Commands /\ notes' = <<>>
           /\ serving' \in {"loop", "procedure", "elsewhere"}
      BY <1>0, <2>3, <2>4, <2>8, <2>10, <2>11, <2>12, ServeKeeps
    <2>14. commands' \in Seq([id : 1..MaxSerial, op : Ops \cup {Position}])
      BY <1>0, <2>1, <2>4 DEF TypeOK
    <2>15. DOMAIN notes' = {} /\ notes' \in Seq(Notes) /\ Len(notes') <= NoteLimit
      BY <2>13, MediaAssumption, EmptyTyped
    <2>16. TypeOK'
      BY <1>0, <2>2, <2>3, <2>6, <2>13, <2>14, <2>15, MediaAssumption DEF TypeOK, Commands
    <2>17. CommandsOfLink'
      <3>1. /\ DOMAIN commands' = 1..(Len(commands) + 1)
            /\ \A i \in 1..Len(commands) : commands'[i] = commands[i]
            /\ commands'[Len(commands) + 1] = cmd
        BY <1>0, <2>1, SMT DEF TypeOK
      <3>2. \A i \in DOMAIN commands' : i \in DOMAIN commands \/ i = Len(commands) + 1
        BY <1>0, <3>1, SMT
      <3>3. \A i \in DOMAIN commands : commands[i].id \in 1..serial' /\ madeOn'[commands[i].id] = link
        BY <1>0, <2>1, <2>6 DEF CommandsOfLink
      <3>4. cmd.id = serial' /\ serial' \in 1..serial' BY <2>1, <2>3
      <3> QED BY <1>0, <2>2, <2>6, <3>1, <3>2, <3>3, <3>4 DEF CommandsOfLink
    <2>18. TakenIssued'
      BY <1>0, <2>1, <2>2 DEF TakenIssued
    <2>19. NothingCrossesLinks'
      BY <1>0, <2>2, <2>6, <2>9, <2>13 DEF NothingCrossesLinks, TakenIssued
    <2>20. InOneLink(notes, pending, madeOn)'
      BY <2>2, <2>9, <2>13, <2>15 DEF InOneLink
    <2>21. Sound(notes, pending, told, confirmed, serial)'
      BY <2>2, <2>13
    <2> QED BY <2>16, <2>17, <2>18, <2>19, <2>20, <2>21 DEF IInv
  <1>3. CASE Refuse
    <2>1. PICK op \in Ops \cup {Position} :
            Serve(IF op = Position THEN notes ELSE Notified(notes, Refusal), pending)
      BY <1>3 DEF Refuse
    <2> DEFINE q == IF op = Position THEN notes ELSE Notified(notes, Refusal)
    <2>2. Refusal \in Notes /\ ~IsResult(Refusal) /\ Refusal.id = 0
      BY MediaAssumption DEF Refusal, Notes, IsResult
    <2>3. q \in Queue /\ q \in {notes, Append(notes, Refusal)}
      BY <1>0, <2>2, NoteFacts DEF Notified
    <2> HIDE DEF q
    <2>4. Sound(q, pending, told, confirmed, serial)
      BY <1>0, <2>2, <2>3, PlainNoteKeepsSound
    <2>5. InOneLink(q, pending, madeOn) BY <1>0, <2>2, <2>3, NoteKeepsLink
    <2>6. Serve(q, pending) BY <2>1 DEF q
    <2>7. /\ encrypted' = encrypted /\ link' = link /\ subscribed' \in BOOLEAN
          /\ UNCHANGED <<playerVars, appVars, serial, madeOn, commands>>
      BY <1>0, <1>3 DEF Refuse, TypeOK
    <2> QED BY <2>3, <2>4, <2>5, <2>6, <2>7, ServedIInv
  <1>4. CASE Subscribe
    BY <1>0, <1>4, ServedIInv DEF Subscribe, TypeOK
  <1>5. CASE Turn
    <2>1. /\ serving' \in {"loop", "procedure", "elsewhere"}
          /\ UNCHANGED <<peerVars, playerVars, appVars, pending, serial, madeOn, commands,
                         notes, told>>
      BY <1>5 DEF Turn
    <2>2. TypeOK' BY <1>0, <2>1 DEF TypeOK
    <2>3. Sound(notes, pending, told, confirmed, serial)' BY <1>0, <2>1
    <2>4. InOneLink(notes, pending, madeOn)' /\ CommandsOfLink' /\ TakenIssued'
          /\ NothingCrossesLinks'
      BY <1>0, <2>1 DEF InOneLink, CommandsOfLink, TakenIssued, NothingCrossesLinks
    <2> QED BY <2>2, <2>3, <2>4 DEF IInv
  <1>6. CASE TakeCommands
    <2>1. /\ commands' = <<>>
          /\ taken' = [i \in DOMAIN commands |-> [id |-> commands[i].id, link |-> link]]
          /\ UNCHANGED <<peerVars, playerVars, pending, serial, madeOn, notes, serving, given,
                         confirmed, told>>
      BY <1>6 DEF TakeCommands
    <2>2. \A i \in 1..Len(commands) :
            [id |-> commands[i].id, link |-> link] \in [id : 1..MaxSerial, link : 0..MaxLinks]
      <3>1. \A i \in DOMAIN commands :
              commands[i] \in [id : 1..MaxSerial, op : Ops \cup {Position}]
        BY <1>0, ElementOfSeq DEF TypeOK
      <3> QED BY <1>0, <3>1
    <2>3. taken' \in Seq([id : 1..MaxSerial, link : 0..MaxLinks])
      BY <1>0, <2>1, <2>2, IsASeq
    <2>4. /\ DOMAIN taken' = DOMAIN commands
          /\ \A i \in DOMAIN commands : taken'[i].id = commands[i].id /\ taken'[i].link = link
      BY <2>1
    <2>5. DOMAIN commands' = {} BY <2>1
    <2>6. TypeOK' BY <1>0, <2>1, <2>3, EmptyTyped DEF TypeOK
    <2>7. Sound(notes, pending, told, confirmed, serial)' BY <1>0, <2>1
    <2>8. InOneLink(notes, pending, madeOn)' BY <1>0, <2>1 DEF InOneLink
    <2>9. CommandsOfLink' BY <2>5 DEF CommandsOfLink
    <2>10. TakenIssued' /\ NothingCrossesLinks'
      BY <1>0, <2>1, <2>4 DEF CommandsOfLink, TakenIssued, NothingCrossesLinks
    <2> QED BY <2>6, <2>7, <2>8, <2>9, <2>10 DEF IInv
  <1>7. CASE EmitCommand
    <2>1. /\ taken # <<>> /\ taken' = Tail(taken) /\ given' = given \cup {Head(taken).id}
          /\ UNCHANGED <<peerVars, playerVars, pending, serial, madeOn, commands, notes, serving,
                         confirmed, told>>
      BY <1>7 DEF EmitCommand
    <2> DEFINE T == [id : 1..MaxSerial, link : 0..MaxLinks]
    <2>2. taken \in Seq(T) BY <1>0 DEF TypeOK
    <2> HIDE DEF T
    <2>3. /\ Head(taken) = taken[1] /\ 1 \in DOMAIN taken /\ taken' \in Seq(T)
          /\ \A i \in DOMAIN taken' : i + 1 \in DOMAIN taken /\ taken'[i] = taken[i + 1]
      BY <2>1, <2>2, SMT
    <2>4. Head(taken).id \in 1..MaxSerial
      <3>1. DOMAIN taken = 1..Len(taken) BY <2>2, LenProperties
      <3>2. taken[1] \in T BY <2>2, <2>3, <3>1, ElementOfSeq
      <3> QED BY <2>3, <3>2 DEF T
    <2>5. TypeOK' BY <1>0, <2>1, <2>3, <2>4 DEF TypeOK, T
    <2>6. Sound(notes, pending, told, confirmed, serial)' BY <1>0, <2>1
    <2>7. InOneLink(notes, pending, madeOn)' /\ CommandsOfLink'
      BY <1>0, <2>1 DEF InOneLink, CommandsOfLink
    <2>8. TakenIssued' /\ NothingCrossesLinks'
      BY <1>0, <2>1, <2>3 DEF TakenIssued, NothingCrossesLinks
    <2> QED BY <2>5, <2>6, <2>7, <2>8 DEF IInv
  <1>8. CASE Answer
    <2>1. PICK n \in given, success \in BOOLEAN :
            /\ given' = given \ {n}
            /\ confirmed' = IF success THEN confirmed \cup {n} ELSE confirmed
            /\ Finish(n, success)
      BY <1>8 DEF Answer
    <2>2. UNCHANGED <<peerVars, playerVars, taken, serial, madeOn, commands, serving, told>>
      BY <1>8 DEF Answer
    <2>3. n \in 1..MaxSerial /\ confirmed \subseteq confirmed' /\ (success => n \in confirmed')
          /\ confirmed' \subseteq 1..MaxSerial /\ given' \subseteq 1..MaxSerial
      BY <1>0, <2>1 DEF TypeOK
    <2>4. Sound(notes, pending, told, confirmed', serial)
      BY <1>0, <2>3 DEF Sound
    <2>5. CommandsOfLink' /\ TakenIssued' /\ NothingCrossesLinks'
      BY <1>0, <2>2 DEF CommandsOfLink, TakenIssued, NothingCrossesLinks
    <2>6. CASE pending.id = n
      <3>1. notes' = Ended(notes, pending.id, success) /\ pending' = NonePending
        BY <2>1, <2>6 DEF Finish
      <3>2. pending # NonePending BY <2>3, <2>6, SMT DEF NonePending
      <3>3. notes' \in Queue /\ notes' \in {notes, Append(notes, Result(pending.id, success))}
        BY <1>0, <3>1, EndedFacts DEF Commands
      <3>4. Sound(notes', NonePending, told, confirmed', serial)
        BY <1>0, <2>3, <2>4, <2>6, <3>2, <3>3, ResultKeepsSound
      <3>5. pending' \in Commands
        BY <3>1, MediaAssumption DEF NonePending, Commands
      <3>6. TypeOK' BY <1>0, <2>2, <2>3, <3>3, <3>5 DEF TypeOK, Queue, Commands
      <3>7. Result(pending.id, success) \in Notes BY <1>0 DEF Result, Notes, Commands
      <3>8. madeOn[Result(pending.id, success).id] = link
        BY <1>0, <3>2 DEF Result, InOneLink
      <3>9. PICK q : q = notes' OBVIOUS
      <3>10. InOneLink(q, NonePending, madeOn)
        BY <1>0, <3>3, <3>7, <3>8, <3>9, NoteKeepsLink
      <3>11. InOneLink(notes, pending, madeOn)'
        BY <2>2, <3>1, <3>9, <3>10 DEF InOneLink
      <3> QED BY <2>2, <2>5, <3>1, <3>4, <3>6, <3>11 DEF IInv
    <2>7. CASE pending.id # n
      <3>1. UNCHANGED <<notes, pending>> BY <2>1, <2>7 DEF Finish
      <3>2. TypeOK' BY <1>0, <2>2, <2>3, <3>1 DEF TypeOK
      <3>3. InOneLink(notes, pending, madeOn)' BY <1>0, <2>2, <3>1 DEF InOneLink
      <3> QED BY <2>2, <2>4, <2>5, <3>1, <3>2, <3>3 DEF IInv
    <2> QED BY <2>6, <2>7
  <1>9. CASE Update
    <2>1. /\ active' \in BOOLEAN /\ supported' \in SUBSET Ops /\ enabled' \in BOOLEAN
          /\ notes' = Note(notes, Changed) \/ notes' = notes
          /\ UNCHANGED <<peerVars, appVars, pending, serial, madeOn, commands, serving, told>>
      BY <1>9 DEF Update
    <2>2. Changed \in Notes /\ ~IsResult(Changed) /\ Changed.id = 0
      BY MediaAssumption DEF Changed, Notes, IsResult
    <2>3. notes' \in Queue /\ notes' \in {notes, Append(notes, Changed)}
      BY <1>0, <2>1, <2>2, NoteFacts
    <2>4. Sound(notes', pending, told, confirmed, serial)
      BY <1>0, <2>2, <2>3, PlainNoteKeepsSound
    <2>5. TypeOK' BY <1>0, <2>1, <2>3 DEF TypeOK, Queue
    <2>6. PICK q : q = notes' OBVIOUS
    <2>7. InOneLink(q, pending, madeOn)
      BY <1>0, <2>2, <2>3, <2>6, NoteKeepsLink
    <2>8. InOneLink(notes, pending, madeOn)' BY <2>1, <2>6, <2>7 DEF InOneLink
    <2>9. CommandsOfLink' /\ TakenIssued' /\ NothingCrossesLinks'
      BY <1>0, <2>1 DEF CommandsOfLink, TakenIssued, NothingCrossesLinks
    <2> QED BY <2>1, <2>4, <2>5, <2>8, <2>9 DEF IInv
  <1>10. CASE ResetLink
    <2>1. /\ link' \in 0..MaxLinks /\ encrypted' = FALSE /\ subscribed' = FALSE
          /\ serving' = "elsewhere"
          /\ pending' = NonePending /\ commands' = <<>> /\ notes' = <<>>
          /\ UNCHANGED <<playerVars, appVars, serial, madeOn, told>>
      BY <1>0, <1>10, MediaAssumption DEF ResetLink
    <2>2. TypeOK'
      <3>1. pending' \in Commands
        BY <2>1, MediaAssumption DEF NonePending, Commands
      <3>2. notes' \in Seq(Notes) /\ Len(notes') <= NoteLimit
        BY <2>1, MediaAssumption, EmptyTyped
      <3>3. commands' \in Seq([id : 1..MaxSerial, op : Ops \cup {Position}])
        BY <2>1, EmptyTyped, Zenon
      <3> QED BY <1>0, <2>1, <3>1, <3>2, <3>3 DEF TypeOK, Commands
    <2>3. Sound(notes', pending', told', confirmed', serial')
      BY <1>0, <2>1 DEF Sound
    <2>4. InOneLink(notes, pending, madeOn)' /\ CommandsOfLink' /\ TakenIssued'
          /\ NothingCrossesLinks'
      BY <1>0, <2>1 DEF InOneLink, CommandsOfLink, TakenIssued, NothingCrossesLinks
    <2> QED BY <2>2, <2>3, <2>4 DEF IInv
  <1>11. CASE Authorize
    <2>1. encrypted' = TRUE
          /\ UNCHANGED <<subscribed, link, playerVars, appVars, pending, serial, madeOn, commands,
                         notes, serving, told>>
      BY <1>11 DEF Authorize
    <2>2. TypeOK' BY <1>0, <2>1 DEF TypeOK
    <2>3. Sound(notes, pending, told, confirmed, serial)' BY <1>0, <2>1
    <2>4. InOneLink(notes, pending, madeOn)' /\ CommandsOfLink' /\ TakenIssued'
          /\ NothingCrossesLinks'
      BY <1>0, <2>1 DEF InOneLink, CommandsOfLink, TakenIssued, NothingCrossesLinks
    <2> QED BY <2>2, <2>3, <2>4 DEF IInv
  <1>12. CASE GrowOld
    <2>1. /\ pending # NonePending /\ pending' = [pending EXCEPT !.old = TRUE]
          /\ UNCHANGED <<peerVars, playerVars, appVars, serial, madeOn, commands, notes, serving,
                         told>>
      BY <1>12 DEF GrowOld
    <2>2. pending' \in Commands /\ pending'.id = pending.id
      BY <1>0, <2>1 DEF Commands
    <2>3. Sound(notes, pending', told, confirmed, serial)
      BY <1>0, <2>1, <2>2 DEF Sound
    <2>4. TypeOK' BY <1>0, <2>1, <2>2 DEF TypeOK, Commands
    <2>5. InOneLink(notes, pending, madeOn)' BY <1>0, <2>1, <2>2 DEF InOneLink
    <2>6. CommandsOfLink' /\ TakenIssued' /\ NothingCrossesLinks'
      BY <1>0, <2>1 DEF CommandsOfLink, TakenIssued, NothingCrossesLinks
    <2> QED BY <2>1, <2>3, <2>4, <2>5, <2>6 DEF IInv
  <1>13. CASE UNCHANGED vars
    <2>1. TypeOK' BY <1>0, <1>13 DEF vars, TypeOK
    <2>2. InOneLink(notes, pending, madeOn)' /\ CommandsOfLink' /\ TakenIssued'
          /\ NothingCrossesLinks'
      BY <1>0, <1>13 DEF vars, InOneLink, CommandsOfLink, TakenIssued, NothingCrossesLinks
    <2>3. Sound(notes, pending, told, confirmed, serial)' BY <1>0, <1>13 DEF vars
    <2> QED BY <2>1, <2>2, <2>3 DEF IInv
  <1> QED BY <1>1, <1>2, <1>3, <1>4, <1>5, <1>6, <1>7, <1>8, <1>9, <1>10, <1>11, <1>12, <1>13
          DEF Next

(***************************************************************************)
(* The invariant holds in every reachable state.                           *)
(***************************************************************************)
THEOREM Invariance == Spec => []IInv
  BY InitIInv, NextIInv, PTL DEF Spec
-----------------------------------------------------------------------------
(***************************************************************************)
(* Every variable keeps its type and the queue of notifications its limit, *)
(* whatever the app, the headset and the loops do (media.rs, all of Server).*)
(***************************************************************************)
THEOREM TypeCorrect == Spec => []TypeOK
  <1>1. IInv => TypeOK BY DEF IInv
  <1> QED BY <1>1, Invariance, PTL

(***************************************************************************)
(* The headset hears of success only when Windows confirmed that very      *)
(* command (finish compares identifiers and serials are never reused).     *)
(***************************************************************************)
THEOREM OnlyConfirmedSucceeds == Spec => []SuccessIsConfirmed
  <1>1. IInv => SuccessIsConfirmed
    BY DEF IInv, Sound, SuccessIsConfirmed
  <1> QED BY <1>1, Invariance, PTL

(***************************************************************************)
(* No command has two results, however its answer and its timeout race.    *)
(***************************************************************************)
THEOREM ResultIsFinal == Spec => []OneResult
  <1>1. IInv => OneResult
    BY DEF IInv, Sound, OneResult
  <1> QED BY <1>1, Invariance, PTL

(***************************************************************************)
(* A headset is told how a command ended only on the link it made it on,   *)
(* and media_worker takes a command only while that link is there: what is *)
(* pending, queued or told of a link ends with it (reset_link, finish).    *)
(***************************************************************************)
THEOREM LinksStayApart == Spec => []NothingCrossesLinks
  <1>1. IInv => NothingCrossesLinks BY DEF IInv
  <1> QED BY <1>1, Invariance, PTL
=============================================================================
