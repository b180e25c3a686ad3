----------------------------- MODULE HeadsetProofs -----------------------------
(***************************************************************************)
(* Proofs about what is kept of a headset and what is asked of it.         *)
(*                                                                         *)
(* Pairing: what a link is trusted for, and what a bond's file goes        *)
(* through, for any number of keys, failures, crashes and forgettings.     *)
(*                                                                         *)
(* Planning: that a stream fits what the headset published and what its    *)
(* endpoints answered, and that the limits remembered of it are the last   *)
(* ones it stated for the same stream, for any records, answers, changes   *)
(* of mind, settings and number of connect commands.                       *)
(***************************************************************************)
EXTENDS Pairing, Planning, FiniteSetTheorems, SequenceTheorems, WellFoundedInduction, TLAPS


\* The checks a pairing has behind it have left no room for their flaws, and what
\* the peer has agreed to in the end is the key in use.
Careful ==
    /\ step \in 1..5 /\ flaw \in Flaws \cup {"none"}
    /\ pc = "pair" /\ step > 1 => flaw # "refusal"
    /\ pc = "pair" /\ step > 4 => flaw # "point" /\ flaw # "nonce"
    /\ pc = "encrypt" /\ up /\ peerNew # 0 => peerNew = hand

Bonds == [key : 0..MaxKey, id : 0..MaxKey]

\* The key in use is the saved one, or one the file does not know.
Keys ==
    /\ hand \in 0..MaxKey /\ identity \in 0..MaxKey
    /\ pc = "resume" => hand = mem.key
    /\ pc \in {"resume", "encrypt", "identity", "keyed"} =>
           hand # 0 /\ (hand = mem.key \/ hand # file.key)
    /\ pc \in {"pair", "encrypt", "identity"} => identity = 0
    /\ pc = "keyed" => hand = mem.key \/ identity \in {0, hand}

\* The file may be behind the memory, but never has the same key with another
\* identity; and a save ends with what it began with.
Stored ==
    /\ mem \in Bonds /\ file \in Bonds /\ temporary \in Bonds
    /\ mem.id \in {0, mem.key} /\ file.id \in {0, file.key}
    /\ temporary.id \in {0, temporary.key}
    /\ mem.key # 0 /\ file.key = mem.key => file.id = mem.id
    /\ pc \in {"saving", "renaming"} =>
           saved \in {"bond", "forgetting"} /\ (saved = "bond" => mem.key # 0)
    /\ pc = "renaming" => temporary = mem

Inv == Careful /\ AgreedOnly /\ AuthorisedIsEncrypted /\ Keys /\ Stored

LEMMA PairingInitially == Init => Inv
  <1> SUFFICES ASSUME Init PROVE Inv
    OBVIOUS
  <1>1. MaxKey \in Nat
    BY PairingAssumption
  <1>2. Careful
    BY DEF Init, Careful
  <1>3. AgreedOnly /\ AuthorisedIsEncrypted
    BY DEF Init, AgreedOnly, AuthorisedIsEncrypted
  <1>4. NoBond \in Bonds /\ NoBond.key = 0 /\ NoBond.id = 0
    BY <1>1 DEF NoBond, Bond, Bonds
  <1>5. Keys /\ Stored
    BY <1>1, <1>4 DEF Init, Keys, Stored
  <1>6. QED BY <1>2, <1>3, <1>5 DEF Inv

\* What the check of each step is about.
LEMMA WhatIsChecked ==
  ASSUME step \in 1..5, flaw \in Flaws \cup {"none"}, flaw \notin Checked(PairingSteps[step])
  PROVE  /\ step = 1 => flaw # "refusal"
         /\ step = 4 => flaw # "point" /\ flaw # "nonce"
         /\ step = 5 => flaw # "capabilities" /\ flaw # "proof"
  <1>1. CASE step = 1
    <2>1. Checked(PairingSteps[step]) = {"refusal"}
      BY <1>1 DEF Checked, PairingSteps
    <2>2. QED BY <1>1, <2>1
  <1>2. CASE step = 4
    <2>1. Checked(PairingSteps[step]) = {"point", "nonce"}
      BY <1>2 DEF Checked, PairingSteps
    <2>2. QED BY <1>2, <2>1
  <1>3. CASE step = 5
    <2>1. Checked(PairingSteps[step]) = {"capabilities", "proof"}
      BY <1>3 DEF Checked, PairingSteps
    <2>2. QED BY <1>3, <2>1
  <1>4. QED BY <1>1, <1>2, <1>3

\* An attempt that has ended, and left the bonds alone.
LEMMA AttemptOver ==
  ASSUME Inv, HangUp, UNCHANGED Idle
  PROVE  Inv'
  <1>1. /\ pc' = "idle" /\ hand' = 0 /\ up' = FALSE /\ encrypted' = FALSE
        /\ UNCHANGED <<step, flaw, identity, mem, file, temporary, saved>>
    BY DEF HangUp, Idle, storeVars
  <1>2. Careful' /\ AgreedOnly' /\ AuthorisedIsEncrypted'
    BY <1>1 DEF Inv, Careful, AgreedOnly, AuthorisedIsEncrypted
  <1>3. Keys' /\ Stored'
    BY <1>1, PairingAssumption DEF Inv, Keys, Stored
  <1>4. QED BY <1>2, <1>3 DEF Inv

LEMMA ConnectStep ==
  ASSUME Inv, Connect \/ Resumes \/ Rejected \/ Mismatch
  PROVE  Inv'
  <1>1. CASE Connect
    <2>1. CASE mem.key # 0
      BY <1>1, <2>1 DEF Connect, ResetLink, Inv, Careful, AgreedOnly, AuthorisedIsEncrypted, Keys,
             Stored, Bonds, storeVars
    <2>2. CASE mem.key = 0
      BY <1>1, <2>2 DEF Connect, ResetLink, Inv, Careful, AgreedOnly, AuthorisedIsEncrypted, Keys,
             Stored, Bonds, storeVars
    <2>3. QED BY <2>1, <2>2
  <1>2. CASE Resumes
    BY <1>2 DEF Resumes, Inv, Careful, AgreedOnly, AuthorisedIsEncrypted, Keys, Stored, storeVars
  <1>3. CASE Rejected
    <2>1. SavedKeyRejected(6)
      BY DEF SavedKeyRejected
    <2>2. /\ pc = "resume" /\ pc' = "pair" /\ step' = 1 /\ identity' = 0
          /\ flaw' \in Flaws \cup {"none"}
          /\ UNCHANGED <<hand, storeVars, peerVars, linkVars, authorised>>
      BY <1>3, <2>1 DEF Rejected
    <2>3. Careful' /\ AgreedOnly'
      BY <2>2 DEF Careful, AgreedOnly
    <2>4. AuthorisedIsEncrypted'
      BY <2>2 DEF Inv, AuthorisedIsEncrypted, linkVars
    <2>5. Keys' /\ Stored'
      BY <2>2, PairingAssumption DEF Inv, Keys, Stored, storeVars
    <2>6. QED BY <2>3, <2>4, <2>5 DEF Inv
  <1>4. CASE Mismatch
    BY <1>4, AttemptOver DEF Mismatch
  <1>5. QED BY <1>1, <1>2, <1>3, <1>4

LEMMA PairStep ==
  ASSUME Inv, PairingGoesOn
  PROVE  Inv'
  <1>1. /\ pc = "pair" /\ up /\ step \in 1..5 /\ flaw \in Flaws \cup {"none"}
        /\ UNCHANGED <<flaw, identity, storeVars, peerKey, linkVars, authorised>>
    BY DEF PairingGoesOn, Inv, Careful
  <1>2. Len(PairingSteps) = 5
    BY DEF PairingSteps
  <1>3. /\ step = 1 => flaw # "refusal"
        /\ step = 4 => flaw # "point" /\ flaw # "nonce"
        /\ step = 5 => flaw # "capabilities" /\ flaw # "proof"
    BY <1>1, WhatIsChecked DEF PairingGoesOn
  <1>4. CASE step < 5
    <2>1. step' = step + 1 /\ UNCHANGED <<pc, hand, peerNew>>
      BY <1>2, <1>4 DEF PairingGoesOn
    <2>2. Careful'
      BY <1>1, <1>3, <1>4, <2>1 DEF Inv, Careful
    <2>3. QED
      BY <1>1, <2>1, <2>2 DEF Inv, AgreedOnly, AuthorisedIsEncrypted, Keys, Stored, storeVars, linkVars
  <1>5. CASE step = 5
    <2>1. /\ pc' = "encrypt" /\ step' = 1 /\ hand' \in FreshKeys
          /\ peerNew' = IF flaw = "none" THEN hand' ELSE 0
      BY <1>2, <1>5 DEF PairingGoesOn
    <2>2. flaw = "none"
      BY <1>1, <1>3, <1>5 DEF Inv, Careful, Flaws
    <2>3. hand' \in 1..MaxKey /\ hand' # file.key
      BY <2>1 DEF FreshKeys, Key
    <2>4. QED
      BY <1>1, <2>1, <2>2, <2>3, PairingAssumption
         DEF Inv, Careful, AgreedOnly, AuthorisedIsEncrypted, Keys, Stored, storeVars, linkVars
  <1>6. QED BY <1>1, <1>4, <1>5

LEMMA EncryptStep ==
  ASSUME Inv, PeerEncrypts \/ Encrypted \/ IdentityArrives
  PROVE  Inv'
  <1>1. CASE PeerEncrypts
    BY <1>1 DEF PeerEncrypts, Inv, Careful, AgreedOnly, AuthorisedIsEncrypted, Keys, Stored, storeVars
  <1>2. CASE Encrypted
    BY <1>2 DEF Encrypted, Inv, Careful, AgreedOnly, AuthorisedIsEncrypted, Keys, Stored, storeVars,
           linkVars
  <1>3. CASE IdentityArrives
    BY <1>3 DEF IdentityArrives, Inv, Careful, AgreedOnly, AuthorisedIsEncrypted, Keys, Stored,
           storeVars, linkVars
  <1>4. QED BY <1>1, <1>2, <1>3

LEMMA FailureStep ==
  ASSUME Inv, PairingFails \/ Interrupted \/ LossNoticed
  PROVE  Inv'
  BY AttemptOver DEF PairingFails, Interrupted, LossNoticed

LEMMA BondStep ==
  ASSUME Inv, Remember \/ SaveWrites \/ SaveDone \/ SaveFails \/ Forget
  PROVE  Inv'
  <1>1. CASE Remember
    <2>1. /\ pc = "keyed" /\ mem' = [key |-> hand, id |-> IdentityToKeep] /\ identity' = 0
          /\ pc' = "saving" /\ saved' = "bond"
          /\ UNCHANGED <<step, flaw, hand, file, temporary, linkVars, authorised>>
      BY <1>1 DEF Remember, Bond
    <2>2. /\ hand \in 0..MaxKey /\ hand # 0 /\ IdentityToKeep \in 0..MaxKey
          /\ IdentityToKeep \in {0, hand}
          /\ hand = mem.key => IdentityToKeep = mem.id
      BY <2>1 DEF IdentityToKeep, Reused, Inv, Keys, Stored, Bonds
    <2>3. mem' \in Bonds /\ mem'.key = hand /\ mem'.id = IdentityToKeep
      BY <2>1, <2>2 DEF Bonds
    <2>4. file.key = hand => file.id = IdentityToKeep
      BY <2>1, <2>2 DEF Inv, Keys, Stored
    <2>5. Keys'
      BY <2>1, <2>2, PairingAssumption DEF Keys
    <2>6. Stored'
      BY <2>1, <2>2, <2>3, <2>4 DEF Inv, Stored
    <2>7. QED
      BY <2>1, <2>5, <2>6 DEF Inv, Careful, AgreedOnly, AuthorisedIsEncrypted, linkVars
  <1>2. CASE SaveWrites
    BY <1>2 DEF SaveWrites, WriteTemporary, Inv, Careful, AgreedOnly, AuthorisedIsEncrypted, Keys,
           Stored, linkVars
  <1>3. CASE SaveDone
    <2>1. /\ pc = "renaming" /\ file' = mem /\ temporary' = NoBond /\ pc' \in {"linked", "idle"}
          /\ UNCHANGED <<step, flaw, hand, identity, mem, linkVars, authorised>>
      BY <1>3 DEF SaveDone, Inv, Stored
    <2>2. QED
      BY <2>1, PairingAssumption
         DEF Inv, Careful, AgreedOnly, AuthorisedIsEncrypted, Keys, Stored, linkVars, Bonds, NoBond,
             Bond
  <1>4. CASE SaveFails
    <2>1. /\ pc \in {"saving", "renaming"} /\ temporary' = NoBond /\ pc' \in {"linked", "idle"}
          /\ UNCHANGED <<step, flaw, hand, identity, mem, file, linkVars, authorised>>
      BY <1>4 DEF SaveFails
    <2>2. QED
      BY <2>1, PairingAssumption
         DEF Inv, Careful, AgreedOnly, AuthorisedIsEncrypted, Keys, Stored, linkVars, Bonds, NoBond,
             Bond
  <1>5. CASE Forget
    <2>1. /\ mem' = NoBond /\ pc' = "saving" /\ saved' = "forgetting" /\ hand' = 0
          /\ up' = FALSE /\ encrypted' = FALSE
          /\ UNCHANGED <<step, flaw, identity, file, temporary>>
      BY <1>5 DEF Forget
    <2>2. QED
      BY <2>1, PairingAssumption
         DEF Inv, Careful, AgreedOnly, AuthorisedIsEncrypted, Keys, Stored, Bonds, NoBond, Bond
  <1>6. QED BY <1>1, <1>2, <1>3, <1>4, <1>5

LEMMA WorldStep ==
  ASSUME Inv, LinkLost \/ LossSeen \/ Crash \/ PeerForgets
  PROVE  Inv'
  <1>1. CASE LinkLost
    BY <1>1 DEF LinkLost, Inv, Careful, AgreedOnly, AuthorisedIsEncrypted, Keys, Stored, storeVars
  <1>2. CASE LossSeen
    BY <1>2, PairingAssumption
       DEF LossSeen, Inv, Careful, AgreedOnly, AuthorisedIsEncrypted, Keys, Stored, storeVars, linkVars
  <1>3. CASE Crash
    <2>1. file \in Bonds /\ Loaded = {NoBond, file}
      BY DEF Loaded, Damaged, Bond, Inv, Stored, Bonds
    <2>2. QED
      BY <1>3, <2>1, PairingAssumption
         DEF Crash, Inv, Careful, AgreedOnly, AuthorisedIsEncrypted, Keys, Stored, Bonds, NoBond, Bond
  <1>4. CASE PeerForgets
    BY <1>4 DEF PeerForgets, Inv, Careful, AgreedOnly, AuthorisedIsEncrypted, Keys, Stored, storeVars,
           linkVars
  <1>5. QED BY <1>1, <1>2, <1>3, <1>4

LEMMA PairingPreserved == Inv /\ [Next]_vars => Inv'
  <1> SUFFICES ASSUME Inv, [Next]_vars PROVE Inv'
    OBVIOUS
  <1>1. CASE UNCHANGED vars
    BY <1>1 DEF vars, storeVars, peerVars, linkVars, Inv, Careful, AgreedOnly, AuthorisedIsEncrypted,
           Keys, Stored
  <1>2. QED
    BY <1>1, ConnectStep, PairStep, EncryptStep, FailureStep, BondStep, WorldStep DEF Next

(***************************************************************************)
(* What a link is trusted for has been earned on that link, for any        *)
(* interleaving of pairings, losses, crashes and forgettings: every check  *)
(* was made before the key is used, the media server is open only to an    *)
(* encrypted link, and a bond holds the identity of its own key.           *)
(***************************************************************************)
THEOREM TrustIsEarned == Spec => []TrustEarned
  <1>1. Inv => TrustEarned
    BY DEF Inv, TrustEarned, Stored, IdentityOfKey
  <1>2. QED BY <1>1, PairingInitially, PairingPreserved, PTL DEF Spec

(***************************************************************************)
(* A bond leaves its file only by being forgotten or replaced, whenever    *)
(* the process ends and whichever save fails.                              *)
(***************************************************************************)
THEOREM BondsSurvive == Spec => BondSurvives
  <1> DEFINE Kept == /\ file' # file => saved \in {"bond", "forgetting"} /\ file' = mem
                     /\ (file # NoBond /\ file' = NoBond) => saved = "forgetting"
                     /\ (mem.key # 0 /\ mem'.key = mem.key) => mem'.id = mem.id
  <1>1. ASSUME Inv, Next PROVE Kept
    <2>1. CASE SaveDone
      BY <1>1, <2>1 DEF SaveDone, Inv, Stored, NoBond, Bond
    <2>2. CASE Remember
      BY <1>1, <2>2 DEF Remember, IdentityToKeep, Reused, Bond
    <2>3. CASE Crash
      <3>1. Loaded = {NoBond, file}
        BY <1>1 DEF Loaded, Damaged, Bond, Inv, Stored, Bonds
      <3>2. QED BY <1>1, <2>3, <3>1 DEF Crash, Inv, Stored, NoBond, Bond
    <2>4. CASE Forget
      BY <1>1, <2>4 DEF Forget, NoBond, Bond
    <2>5. CASE UNCHANGED <<mem, file>>
      BY <2>5
    <2>6. QED
      BY <1>1, <2>1, <2>2, <2>3, <2>4, <2>5
         DEF Next, Connect, Resumes, Rejected, Mismatch, PairingGoesOn, PairingFails, PeerEncrypts,
             Encrypted, IdentityArrives, Interrupted, SaveWrites, WriteTemporary, SaveFails, LinkLost,
             LossSeen, LossNoticed, PeerForgets, Idle, storeVars
  <1>2. Inv /\ [Next]_vars => [Kept]_vars
    BY <1>1
  <1>3. QED BY <1>2, PairingInitially, PairingPreserved, PTL DEF Spec, BondSurvives

-----------------------------------------------------------------------------
(* Least and greatest numbers.                                             *)

LEMMA Least ==
  ASSUME NEW T, T \subseteq Nat, T # {}
  PROVE  Min(T) \in T /\ \A m \in T : Min(T) <= m
  <1> DEFINE R == {ss \in Nat \X Nat : ss[1] < ss[2]}
  <1>1. IsWellFoundedOn(R, Nat)
    BY NatLessThanWellFounded DEF OpToRel
  <1>2. \E x \in T : \A y \in T : ~ (<<y, x>> \in R)
    <2> HIDE DEF R
    <2> QED BY <1>1, WFMin
  <1>3. PICK x \in T : \A y \in T : ~(<<y, x>> \in R)
    BY <1>2
  <1>4. ASSUME NEW y \in T PROVE x <= y
    <2>1. <<y, x>> \in Nat \X Nat /\ ~(y < x)
      BY <1>3
    <2> QED BY <2>1
  <1>5. QED BY <1>4 DEF Min

HasGreatest(T) == \E x \in T : \A y \in T : y <= x

\* A least set without a greatest element would have one fewer, which has one.
LEMMA GreatestExists ==
  ASSUME NEW T, T \subseteq Nat, T # {}, IsFiniteSet(T)
  PROVE  HasGreatest(T)
  <1> DEFINE Bad == {U \in SUBSET Nat : U # {} /\ IsFiniteSet(U) /\ ~HasGreatest(U)}
             Sizes == {Cardinality(U) : U \in Bad}
  <1>1. SUFFICES ASSUME ~HasGreatest(T) PROVE FALSE
    OBVIOUS
  <1>2. T \in Bad
    BY <1>1
  <1>3. Sizes \subseteq Nat
    BY FS_CardinalityType
  <1>4. Sizes # {}
    BY <1>2
  <1>5. PICK U \in Bad : Cardinality(U) = Min(Sizes)
    <2> HIDE DEF Bad
    <2>1. Min(Sizes) \in Sizes
      <3> HIDE DEF Sizes
      <3>1. QED BY <1>3, <1>4, Least
    <2>2. QED BY <2>1
  <1>6. PICK x : x \in U
    OBVIOUS
  <1> DEFINE V == U \ {x}
  <1>7. IsFiniteSet(V) /\ Cardinality(V) = Cardinality(U) - 1 /\ V \subseteq Nat
    BY <1>6, FS_RemoveElement
  <1>8. CASE V = {}
    BY <1>6, <1>8 DEF HasGreatest
  <1>9. CASE V # {} /\ HasGreatest(V)
    <2>1. PICK m \in V : \A y \in V : y <= m
      BY <1>9 DEF HasGreatest
    <2>2. x \in Nat /\ m \in Nat /\ \A y \in U : y = x \/ y \in V
      BY <1>6
    <2>3. CASE x <= m
      <3>1. \A y \in U : y <= m
        BY <2>1, <2>2, <2>3
      <3>2. m \in U /\ HasGreatest(U)
        BY <3>1 DEF HasGreatest
      <3>3. QED BY <3>2
    <2>4. CASE ~(x <= m)
      <3>1. \A y \in U : y <= x
        BY <2>1, <2>2, <2>4, <1>7
      <3>2. HasGreatest(U)
        BY <1>6, <3>1 DEF HasGreatest
      <3>3. QED BY <3>2
    <2>5. QED BY <2>3, <2>4
  <1>10. CASE V # {} /\ ~HasGreatest(V)
    <2>1. V \in Bad
      BY <1>7, <1>10
    <2>2. Cardinality(V) \in Sizes
      BY <2>1
    <2> HIDE DEF V, Bad
    <2>3. Min(Sizes) <= Cardinality(V)
      <3> HIDE DEF Sizes
      <3>1. QED BY <1>3, <1>4, <2>2, Least
    <2>4. Cardinality(U) \in Nat
      BY <1>3, <1>5
    <2>5. QED BY <1>5, <1>7, <2>3, <2>4
  <1>11. QED BY <1>8, <1>9, <1>10

LEMMA Greatest ==
  ASSUME NEW T, T \subseteq Nat, T # {}, IsFiniteSet(T)
  PROVE  Max(T) \in T /\ \A m \in T : m <= Max(T)
  <1>1. \E x \in T : \A y \in T : x >= y
    BY GreatestExists DEF HasGreatest
  <1>2. QED BY <1>1 DEF Max
-----------------------------------------------------------------------------
(* Plans as records.                                                       *)

IsCodec(c) == c = [rate |-> c.rate, ms |-> c.ms, octets |-> c.octets, ears |-> c.ears]
IsQos(q) == q = [phy |-> q.phy, sdu |-> q.sdu, rtn |-> q.rtn, transport |-> q.transport,
                 delay |-> q.delay]
IsMic(m) == m = [ase |-> m.ase, codec |-> m.codec, qos |-> m.qos] /\ IsQos(m.qos)
IsPlan(p) ==
    /\ p = [codec |-> p.codec, qos |-> p.qos, single |-> p.single, ases |-> p.ases,
            latency |-> p.latency, context |-> p.context, mic |-> p.mic]
    /\ IsCodec(p.codec) /\ IsQos(p.qos)

\* A plan for the first endpoints of those there are: one for both ears, or one an ear.
Shaped(p, ases) ==
    /\ IsPlan(p)
    /\ \/ Len(ases) >= 1 /\ p.ases = SubSeq(ases, 1, 1)
       \/ Len(ases) >= 2 /\ p.ases = SubSeq(ases, 1, 2) /\ ~p.single
    /\ p.codec.ears = IF p.single THEN Stereo ELSE Left
    /\ p.qos.delay \in Nat

LEMMA Custom1 ==
  ASSUME NEW c, NEW codec, NEW qos, NEW latency, NEW context, IsCodec(codec), IsQos(qos),
         qos.delay \in Nat, c.ases \in Seq(Nat),
         NEW p \in BuildCustom(c, codec, qos, latency, context)
  PROVE  /\ Shaped(p, c.ases) /\ p.mic = {} /\ AcceptedBy(c.sinks, p.codec)
         /\ \A q \in BuildCustom(c, codec, qos, latency, context) : q = p
  <1> DEFINE single == Len(c.ases) = 1 /\ \E r \in Lc3(c.sinks) : StereoInOne(r)
             shaped == [codec EXCEPT !.ears = IF single THEN Stereo ELSE Left]
             sized == [qos EXCEPT !.sdu = SduSize(shaped)]
             first == SubSeq(c.ases, 1, IF Len(c.ases) < 2 THEN 1 ELSE 2)
  <1>1. /\ p = [codec |-> shaped, qos |-> sized, single |-> single, ases |-> first,
                latency |-> latency, context |-> context, mic |-> {}]
        /\ c.ases # <<>> /\ AcceptedBy(c.sinks, shaped)
        /\ \A q \in BuildCustom(c, codec, qos, latency, context) : q = p
    BY DEF BuildCustom
  <1>2. Len(c.ases) \in Nat \ {0}
    BY <1>1, LenProperties, EmptySeq
  <1>3. single => Len(c.ases) = 1
    OBVIOUS
  <1>4. single \in BOOLEAN
    OBVIOUS
  <1> HIDE DEF single
  <1>5. IsCodec(shaped) /\ shaped.ears = IF single THEN Stereo ELSE Left
    BY DEF IsCodec
  <1>6. IsQos(sized) /\ sized.delay = qos.delay
    BY DEF IsQos
  <1> HIDE DEF shaped, sized
  <1>7. /\ p.codec = shaped /\ p.qos = sized /\ p.single = single /\ p.ases = first /\ p.mic = {}
        /\ IsPlan(p)
    BY <1>1, <1>5, <1>6 DEF IsPlan
  <1>8. \/ Len(c.ases) >= 1 /\ p.ases = SubSeq(c.ases, 1, 1)
        \/ Len(c.ases) >= 2 /\ p.ases = SubSeq(c.ases, 1, 2) /\ ~p.single
    BY <1>2, <1>3, <1>7
  <1>9. p.codec.ears = IF p.single THEN Stereo ELSE Left
    BY <1>5, <1>7
  <1>10. QED BY <1>1, <1>6, <1>7, <1>8, <1>9 DEF Shaped

LEMMA Mono1 ==
  ASSUME NEW p, NEW ases \in Seq(Nat), Shaped(p, ases)
  PROVE  LET q == IntoMono(p)
         IN /\ Shaped(q, ases) /\ q.mic = p.mic
            /\ q.codec = [p.codec EXCEPT !.ears = Left]
  <1> DEFINE codec == [p.codec EXCEPT !.ears = Left]
             q == IntoMono(p)
  <1>1. IsPlan(p) /\ p.qos.delay \in Nat
    BY DEF Shaped
  <1>2. IsCodec(codec) /\ codec.ears = Left
    BY <1>1 DEF IsPlan, IsCodec
  <1>3. q = [p EXCEPT !.ases = SubSeq(@, 1, 1), !.single = FALSE, !.codec = codec,
                      !.qos.sdu = SduSize(codec)]
    BY DEF IntoMono
  <1> HIDE DEF codec, q
  <1> DEFINE sized == [p.qos EXCEPT !.sdu = SduSize(codec)]
  <1>4. IsQos(sized) /\ sized.delay = p.qos.delay
    BY <1>1 DEF IsPlan, IsQos
  <1>5. q = [codec |-> codec, qos |-> sized, single |-> FALSE, ases |-> SubSeq(p.ases, 1, 1),
             latency |-> p.latency, context |-> p.context, mic |-> p.mic]
    BY <1>1, <1>3 DEF IsPlan
  <1> HIDE DEF sized
  <1>6. /\ q.codec = codec /\ q.qos = sized /\ q.single = FALSE /\ q.ases = SubSeq(p.ases, 1, 1)
        /\ q.mic = p.mic /\ IsPlan(q)
    BY <1>2, <1>4, <1>5 DEF IsPlan
  <1>7. Len(ases) >= 1 /\ SubSeq(p.ases, 1, 1) = SubSeq(ases, 1, 1)
    BY DEF Shaped
  <1>8. QED BY <1>1, <1>2, <1>4, <1>6, <1>7 DEF Shaped, q, codec
MicFits(p, c) ==
    \/ p.mic = {}
    \/ \E m \in p.mic : p.mic = {m} /\ IsMic(m) /\ c.mics # <<>> /\ m.ase = c.mics[1]
              /\ AcceptedBy(c.sources, m.codec)

LEMMA Microphone1 ==
  ASSUME NEW p, NEW c, NEW quality, IsPlan(p), NEW q \in WithMicrophone(p, c, quality)
  PROVE  /\ IsPlan(q) /\ MicFits(q, c)
         /\ q.codec = p.codec /\ q.qos = p.qos /\ q.single = p.single /\ q.ases = p.ases
         /\ \A r \in WithMicrophone(p, c, quality) : r = q
  <1> DEFINE order == MicOrder(quality)
             I == {i \in 1..Len(order) : AcceptedBy(c.sources, order[i])}
             i == SelectInSeq(order, LAMBDA x : AcceptedBy(c.sources, x))
             m == [ase |-> c.mics[1], codec |-> order[i],
                   qos |-> Qos(2, SduSize(order[i]), 2, 75, 40)]
  <1>1. /\ c.mics # <<>> /\ i # 0
        /\ q = [p EXCEPT !.mic = {m}]
        /\ \A r \in WithMicrophone(p, c, quality) : r = q
    BY DEF WithMicrophone
  <1>2. i = IF I # {} THEN Min(I) ELSE 0
    BY DEF SelectInSeq
  <1>3. AcceptedBy(c.sources, order[i])
    <2>1. I # {} /\ i = Min(I)
      BY <1>1, <1>2
    <2>2. I \subseteq Nat
      OBVIOUS
    <2>3. Min(I) \in I
      <3> HIDE DEF I
      <3>1. QED BY <2>1, <2>2, Least
    <2>4. i \in I
      BY <2>1, <2>3
    <2> HIDE DEF i, order
    <2>5. QED BY <2>4
  <1>4. IsMic(m)
    <2> HIDE DEF i, order
    <2>1. QED BY DEF IsMic, IsQos, Qos
  <1>5. m.ase = c.mics[1] /\ m.codec = order[i]
    OBVIOUS
  <1> HIDE DEF m, i, order
  <1>6. /\ q.mic = {m} /\ IsPlan(q) /\ q.codec = p.codec /\ q.qos = p.qos
        /\ q.single = p.single /\ q.ases = p.ases
    BY <1>1 DEF IsPlan
  <1>7. MicFits(q, c)
    BY <1>1, <1>3, <1>4, <1>5, <1>6 DEF MicFits
  <1>8. QED BY <1>1, <1>6, <1>7
Only(S, p) == \A q \in S : q = p

LEMMA Chosen1 ==
  ASSUME NEW c, NEW s, s.delay \in Nat, c.ases \in Seq(Nat),
         NEW S, S = IF s.preset = "custom" THEN Custom(c, s) ELSE Automatic(c, s), NEW p \in S
  PROVE  Shaped(p, c.ases) /\ p.mic = {} /\ AcceptedBy(c.sinks, p.codec) /\ Only(S, p)
  <1>1. \A rate, ms, octets, ears : IsCodec(Codec(rate, ms, octets, ears))
    BY DEF IsCodec, Codec
  <1>2. \A phy, sdu, rtn, transport, delay :
            /\ IsQos(Qos(phy, sdu, rtn, transport, delay))
            /\ Qos(phy, sdu, rtn, transport, delay).delay = delay
    BY DEF IsQos, Qos
  <1>3. CASE s.preset = "custom"
    <2>1. S = Custom(c, s)
      BY <1>3
    <2>2. QED BY <1>1, <1>2, <2>1, Custom1 DEF Custom, Only
  <1>4. CASE s.preset # "custom"
    <2> DEFINE order == IF s.context = "game" THEN GameOrder ELSE MediaOrder
               phy == IF s.preset = "range" THEN 1 ELSE 2
               Of(x) == BuildCustom(c, Codec(x.rate, x.ms, x.octets, Left),
                                    Qos(phy, 0, x.rtn, x.transport, 40), x.profile, s.context)
               T == Chosen(order, c.sinks)
    <2>1. S = UNION {Of(x) : x \in T}
      BY <1>4 DEF Automatic
    <2>2. \A x, y \in T : x = y
      BY DEF Chosen
    <2> HIDE DEF order, phy, T
    <2>3. PICK x \in T : p \in Of(x)
      BY <2>1
    <2>4. /\ Shaped(p, c.ases) /\ p.mic = {} /\ AcceptedBy(c.sinks, p.codec)
          /\ \A q \in Of(x) : q = p
      BY <1>1, <1>2, <2>3, Custom1
    <2>5. \A q \in S : q \in Of(x)
      BY <2>1, <2>2, <2>3
    <2>6. QED BY <2>4, <2>5 DEF Only
  <1>5. QED BY <1>3, <1>4

\* What was accepted, before mono took an ear away or not.
AcceptedFor(s, sinks, p) ==
    \/ AcceptedBy(sinks, p.codec)
    \/ s.mode = "mono" /\ AcceptedBy(sinks, [p.codec EXCEPT !.ears = Stereo])

LEMMA Planned ==
  ASSUME NEW c, NEW s, s.delay \in Nat, c.ases \in Seq(Nat), NEW p \in PlanOf(s, c)
  PROVE  /\ Shaped(p, c.ases) /\ MicFits(p, c) /\ Valid(p) /\ AcceptedFor(s, c.sinks, p)
         /\ Only(PlanOf(s, c), p)
  <1> DEFINE chosen == IF s.preset = "custom" THEN Custom(c, s) ELSE Automatic(c, s)
             shaped == IF s.mode = "mono" THEN {IntoMono(x) : x \in chosen} ELSE chosen
             heard == IF s.mic = "off" THEN shaped
                      ELSE UNION {WithMicrophone(x, c, s.mic) : x \in shaped}
  <1>1. p \in heard /\ Valid(p) /\ PlanOf(s, c) \subseteq heard
    BY DEF PlanOf
  <1>2. ASSUME NEW x \in chosen
        PROVE  Shaped(x, c.ases) /\ x.mic = {} /\ AcceptedBy(c.sinks, x.codec) /\ Only(chosen, x)
    BY Chosen1
  <1> HIDE DEF chosen
  <1>3. ASSUME NEW y \in shaped
        PROVE  Shaped(y, c.ases) /\ y.mic = {} /\ AcceptedFor(s, c.sinks, y) /\ Only(shaped, y)
    <2>1. CASE s.mode # "mono"
      BY <1>2, <1>3, <2>1 DEF AcceptedFor, Only
    <2>2. CASE s.mode = "mono"
      <3>1. PICK x \in chosen : y = IntoMono(x)
        BY <1>3, <2>2
      <3>2. /\ Shaped(x, c.ases) /\ x.mic = {} /\ AcceptedBy(c.sinks, x.codec)
            /\ Only(chosen, x)
        BY <1>2
      <3>3. Shaped(y, c.ases) /\ y.mic = {} /\ y.codec = [x.codec EXCEPT !.ears = Left]
        BY <3>1, <3>2, Mono1
      <3>4. IsCodec(x.codec) /\ x.codec.ears \in {Left, Stereo}
        BY <3>2 DEF Shaped, IsPlan
      <3>5. \/ y.codec = x.codec
            \/ [y.codec EXCEPT !.ears = Stereo] = x.codec
        <4>1. CASE x.codec.ears = Left
          BY <3>3, <3>4, <4>1 DEF IsCodec
        <4>2. CASE x.codec.ears = Stereo
          BY <3>3, <3>4, <4>2 DEF IsCodec
        <4>3. QED BY <3>4, <4>1, <4>2
      <3>6. AcceptedFor(s, c.sinks, y)
        BY <2>2, <3>2, <3>5 DEF AcceptedFor
      <3>7. Only(shaped, y)
        BY <2>2, <3>1, <3>2 DEF Only
      <3>8. QED BY <3>3, <3>6, <3>7
    <2>3. QED BY <2>1, <2>2
  <1> HIDE DEF shaped
  <1>4. CASE s.mic = "off"
    BY <1>1, <1>3, <1>4 DEF MicFits, Only
  <1>5. CASE s.mic # "off"
    <2>1. PICK x \in shaped : p \in WithMicrophone(x, c, s.mic)
      BY <1>1, <1>5
    <2>2. /\ Shaped(x, c.ases) /\ AcceptedFor(s, c.sinks, x) /\ Only(shaped, x)
      BY <1>3
    <2>3. IsPlan(x)
      BY <2>2 DEF Shaped
    <2>4. /\ IsPlan(p) /\ MicFits(p, c)
          /\ p.codec = x.codec /\ p.qos = x.qos /\ p.single = x.single /\ p.ases = x.ases
          /\ \A r \in WithMicrophone(x, c, s.mic) : r = p
      BY <2>1, <2>3, Microphone1
    <2>5. Shaped(p, c.ases) /\ AcceptedFor(s, c.sinks, p)
      BY <2>2, <2>4 DEF Shaped, AcceptedFor
    <2>6. \A q \in heard : q = p
      BY <1>5, <2>2, <2>4 DEF Only
    <2>7. QED BY <1>1, <2>4, <2>5, <2>6 DEF Only
  <1>6. QED BY <1>4, <1>5
-----------------------------------------------------------------------------
(* What a plan carries out of what the headset published.                  *)

Source == [mics |-> device.mics, sources |-> Published(device.sources)]

\* What can be known of this headset, be it read whole or short.
Known(c) ==
    /\ c.ases = device.ases /\ c.mics = device.mics
    /\ c.sinks \subseteq Published(device.sinks)
    /\ c.sources \subseteq Published(device.sources)

Fits(p) == Shaped(p, device.ases) /\ Valid(p) /\ MicFits(p, Source) /\ Accepted(p)

LEMMA TheHeadset ==
  ASSUME device \in Devices
  PROVE  /\ device.ases \in Seq(Nat) /\ IsInjective(device.ases) /\ device.mics \in Seq(Nat)
         /\ device.micAnswer \in Replies
         /\ device.sinks \in Seq(Pacs) /\ device.sources \in Seq(Pacs)
  BY PlanningAssumption

LEMMA AcceptedByMore ==
  ASSUME NEW R, NEW T, R \subseteq T, NEW c, AcceptedBy(R, c)
  PROVE  AcceptedBy(T, c)
  BY DEF AcceptedBy, Lc3

LEMMA PlannedFits ==
  ASSUME device \in Devices, settings \in UserSettings, NEW c, Known(c), NEW p \in PlanOf(settings, c)
  PROVE  Fits(p) /\ Only(PlanOf(settings, c), p)
  <1>1. c.ases = device.ases /\ c.ases \in Seq(Nat)
    BY TheHeadset DEF Known
  <1>2. settings.delay \in Nat
    BY PlanningAssumption
  <1>3. /\ Shaped(p, c.ases) /\ MicFits(p, c) /\ Valid(p) /\ AcceptedFor(settings, c.sinks, p)
        /\ Only(PlanOf(settings, c), p)
    BY <1>1, <1>2, Planned
  <1>4. Accepted(p)
    BY <1>3, AcceptedByMore DEF Known, Accepted, AcceptedFor
  <1>5. MicFits(p, Source)
    <2>1. CASE p.mic = {}
      BY <2>1 DEF MicFits
    <2>2. ASSUME NEW m, p.mic = {m}, IsMic(m), c.mics # <<>>, m.ase = c.mics[1],
                 AcceptedBy(c.sources, m.codec)
          PROVE  MicFits(p, Source)
      <3>1. Source.mics = c.mics /\ c.sources \subseteq Source.sources
        BY DEF Source, Known
      <3>2. AcceptedBy(Source.sources, m.codec)
        BY <2>2, <3>1, AcceptedByMore
      <3>3. QED BY <2>2, <3>1, <3>2 DEF MicFits
    <2>3. QED BY <1>3, <2>1, <2>2 DEF MicFits
  <1>6. QED BY <1>1, <1>3, <1>4, <1>5 DEF Fits

LEMMA Ears1 ==
  /\ Cardinality(Left) = 1 /\ Left # NoEar
  /\ Stereo # NoEar /\ Left \cup {"right"} = Stereo
  BY FS_Singleton DEF Left, Stereo, NoEar

\* One ear's frame is its octets.
LEMMA OneEar ==
  ASSUME NEW c, c.octets \in 1..400, c.ears = Left
  PROVE  SduSize(c) = c.octets
  <1>1. SduSize(c) = (c.octets * 1) % 65536
    BY Ears1 DEF SduSize
  <1>2. c.octets * 1 = c.octets
    OBVIOUS
  <1>3. QED BY <1>1, <1>2

\* The endpoints of a plan are the first of the headset's.
LEMMA FirstOnes ==
  ASSUME NEW ases \in Seq(Nat), NEW p, Shaped(p, ases)
  PROVE  /\ Len(p.ases) \in {1, 2} /\ DOMAIN p.ases = 1..Len(p.ases)
         /\ \A i \in DOMAIN p.ases : i \in DOMAIN ases /\ p.ases[i] = ases[i]
         /\ p.single => Len(p.ases) = 1
  <1>1. Len(ases) \in Nat /\ DOMAIN ases = 1..Len(ases)
    BY LenProperties
  <1>2. CASE Len(ases) >= 1 /\ p.ases = SubSeq(ases, 1, 1)
    BY <1>1, <1>2
  <1>3. CASE Len(ases) >= 2 /\ p.ases = SubSeq(ases, 1, 2) /\ ~p.single
    BY <1>1, <1>3
  <1>4. QED BY <1>2, <1>3 DEF Shaped

LEMMA Sane1 ==
  ASSUME NEW codec, NEW qos, Sane(codec, qos)
  PROVE  /\ codec.octets \in 1..400 /\ qos.sdu = SduSize(codec) /\ qos.phy \in {1, 2}
         /\ qos.transport \in Nat
  <1>1. codec.octets \in 1..400
    BY DEF Sane
  <1>2. qos.sdu = SduSize(codec)
    BY DEF Sane
  <1>3. qos.phy \in {1, 2}
    BY DEF Sane
  <1>4. qos.transport \in TransportLatencies
    BY DEF Sane
  <1>5. TransportLatencies \subseteq Nat
    BY DEF TransportLatencies
  <1>6. QED BY <1>1, <1>2, <1>3, <1>4, <1>5

LEMMA FitsConsistent ==
  ASSUME device \in Devices, NEW p, Fits(p)
  PROVE  Consistent(p)
  <1>1. /\ Len(p.ases) \in {1, 2} /\ DOMAIN p.ases = 1..Len(p.ases)
        /\ \A i \in DOMAIN p.ases : i \in DOMAIN device.ases /\ p.ases[i] = device.ases[i]
        /\ p.single => Len(p.ases) = 1
    BY TheHeadset, FirstOnes DEF Fits
  <1>2. IsInjective(p.ases) /\ ToSet(p.ases) \subseteq ToSet(device.ases)
    BY <1>1, TheHeadset DEF IsInjective, ToSet
  <1>3. p.codec.ears = IF p.single THEN Stereo ELSE Left
    BY DEF Fits, Shaped
  <1>4. UNION {Ears(p, i) : i \in DOMAIN p.ases} =
            IF p.single \/ Len(p.ases) = 2 THEN Stereo ELSE Left
    <2>1. CASE Len(p.ases) = 1
      <3>1. Ears(p, 1) = IF p.single THEN Stereo ELSE Left
        BY <1>3, <2>1 DEF Ears
      <3>2. DOMAIN p.ases = {1}
        BY <1>1, <2>1
      <3>3. UNION {Ears(p, i) : i \in DOMAIN p.ases} = Ears(p, 1)
        BY <3>2
      <3>4. QED BY <2>1, <3>1, <3>3
    <2>2. CASE Len(p.ases) = 2
      <3>1. ~p.single
        BY <1>1, <2>2
      <3>2. Ears(p, 1) = Left /\ Ears(p, 2) = {"right"}
        BY <2>2, <3>1 DEF Ears
      <3>3. DOMAIN p.ases = {1, 2}
        BY <1>1, <2>2
      <3>4. UNION {Ears(p, i) : i \in DOMAIN p.ases} = Ears(p, 1) \cup Ears(p, 2)
        BY <3>3
      <3>5. QED BY <2>2, <3>2, <3>4, Ears1
    <2>3. QED BY <1>1, <2>1, <2>2
  <1>5. /\ p.codec.octets \in 1..400 /\ p.qos.sdu = SduSize(p.codec)
        /\ \A m \in p.mic : m.qos.sdu = SduSize(m.codec)
    <2>1. Sane(p.codec, p.qos) /\ \A m \in p.mic : Sane(m.codec, m.qos)
      BY DEF Fits, Valid
    <2>2. QED BY <2>1, Sane1
  <1>6. 1..Max({Len(p.ases), 1}) = DOMAIN p.ases
    <2> DEFINE T == {Len(p.ases), 1}
    <2>1. T \subseteq Nat /\ T # {} /\ IsFiniteSet(T)
      <3>1. IsFiniteSet({1}) /\ IsFiniteSet({2} \cup {1})
        BY FS_Singleton, FS_AddElement
      <3>2. \/ \A x : x \in T <=> x \in {1}
            \/ \A x : x \in T <=> x \in {2} \cup {1}
        BY <1>1
      <3>3. T = {1} \/ T = {2} \cup {1}
        <4> HIDE DEF T
        <4>1. QED BY <3>2
      <3>4. IsFiniteSet(T)
        <4> HIDE DEF T
        <4>1. QED BY <3>1, <3>3
      <3>5. T \subseteq Nat /\ T # {}
        BY <1>1
      <3>6. QED BY <3>4, <3>5
    <2>2. Max(T) \in T /\ \A x \in T : x <= Max(T)
      <3> HIDE DEF T
      <3>1. QED BY <2>1, Greatest
    <2>3. Max(T) = Len(p.ases)
      BY <1>1, <2>2
    <2>4. QED BY <1>1, <2>3
  <1>7. \A i \in DOMAIN p.ases :
            /\ Group(p)[i].down = IF p.single THEN SduSize(p.codec) ELSE p.codec.octets
            /\ Group(p)[i].up = IF i = 1 THEN The({m.qos.sdu : m \in p.mic}, 0) ELSE 0
    BY <1>6 DEF Group
  <1>8. \A i \in DOMAIN p.ases : Group(p)[i].down = p.qos.sdu
    BY <1>3, <1>5, <1>7, OneEar
  <1>9. ASSUME NEW m \in p.mic
        PROVE  /\ Group(p)[1].up = SduSize(m.codec) /\ m.ase \in ToSet(device.mics)
               /\ AcceptedBy(Published(device.sources), m.codec)
    <2>1. /\ p.mic = {m} /\ device.mics # <<>> /\ m.ase = device.mics[1]
          /\ AcceptedBy(Published(device.sources), m.codec)
      BY <1>9 DEF Fits, MicFits, Source
    <2>2. {x.qos.sdu : x \in p.mic} = {m.qos.sdu}
      BY <2>1
    <2>3. The({m.qos.sdu}, 0) = m.qos.sdu
      BY DEF The
    <2>4. 1 \in DOMAIN p.ases
      BY <1>1
    <2>5. 1 \in DOMAIN device.mics
      BY <2>1, TheHeadset, LenProperties, EmptySeq
    <2>6. Group(p)[1].up = The({x.qos.sdu : x \in p.mic}, 0)
      BY <1>7, <2>4
    <2>7. Group(p)[1].up = m.qos.sdu /\ m.qos.sdu = SduSize(m.codec)
      BY <1>5, <2>2, <2>3, <2>6
    <2>8. m.ase \in ToSet(device.mics)
      BY <2>1, <2>5 DEF ToSet
    <2>9. QED BY <2>1, <2>7, <2>8
  <1>10. QED BY <1>2, <1>4, <1>8, <1>9 DEF Consistent
-----------------------------------------------------------------------------
(* What was published, in the settings page's terms.                       *)

LEMMA ImageFinite ==
  ASSUME NEW U, IsFiniteSet(U), NEW f, f = [x \in U |-> f[x]], NEW T, T = {f[x] : x \in U}
  PROVE  IsFiniteSet(T)
  <1>1. f \in [U -> T] /\ \A t \in T : \E x \in U : f[x] = t
    OBVIOUS
  <1>2. f \in Surjection(U, T)
    BY <1>1 DEF Surjection
  <1>3. QED BY <1>2, FS_Surjection

LEMMA TheOne ==
  ASSUME NEW option, option # {}, NEW default
  PROVE  The(option, default) \in option
  BY DEF The

LEMMA PublishedFinite ==
  ASSUME device \in Devices
  PROVE  /\ IsFiniteSet(Published(device.sinks))
         /\ \A r \in Published(device.sinks) : r.octets \in Options(Nat \X Nat)
  <1> DEFINE D == DOMAIN device.sinks
             f == [i \in D |-> Parsed(device.sinks[i])]
  <1>1. device.sinks \in Seq(Pacs)
    BY TheHeadset
  <1>2. IsFiniteSet(D)
    <2>1. Len(device.sinks) \in Nat /\ D = 1..Len(device.sinks)
      BY <1>1, LenProperties
    <2>2. QED BY <2>1, FS_Interval
  <1>3. Published(device.sinks) = {f[i] : i \in D}
    BY DEF Published
  <1>4. f = [i \in D |-> f[i]]
    OBVIOUS
  <1>5. IsFiniteSet(Published(device.sinks))
    <2> HIDE DEF f, D
    <2>1. QED BY <1>2, <1>3, <1>4, ImageFinite
  <1>6. ASSUME NEW i \in D
        PROVE  Parsed(device.sinks[i]).octets \in Options(Nat \X Nat)
    <2>1. device.sinks[i] \in Pacs
      BY <1>1
    <2>2. device.sinks[i].octets \in Options(Nat \X Nat)
      BY <2>1 DEF Pacs
    <2>3. QED BY <2>2 DEF Parsed
  <1>7. QED BY <1>5, <1>6 DEF Published

\* What one record accepts is within what all of them are said to take.
LEMMA InEnvelope ==
  ASSUME NEW R, IsFiniteSet(R), \A r \in R : r.octets \in Options(Nat \X Nat),
         NEW c, AcceptedBy(R, c)
  PROVE  /\ c.rate \in Envelope(R).rates /\ c.ms \in Envelope(R).ms
         /\ \A range \in Envelope(R).octets :
               (\A r \in R : r.octets # {}) => c.octets \in range[1]..range[2]
  <1>1. PICK r \in Lc3(R) : Accepts(r, c)
    BY DEF AcceptedBy
  <1>2. c.rate \in r.rates /\ c.ms \in r.ms /\ \A range \in r.octets : c.octets \in range[1]..range[2]
    BY <1>1 DEF Accepts
  <1>3. c.rate \in Envelope(R).rates /\ c.ms \in Envelope(R).ms
    BY <1>2 DEF Envelope
  <1> DEFINE B == {x \in Lc3(R) : x.octets # {}}
             lo(x) == The(x.octets, 0)[1]
             hi(x) == The(x.octets, 0)[2]
             L == {lo(x) : x \in B}
             H == {hi(x) : x \in B}
  <1>4. ASSUME NEW range \in Envelope(R).octets, \A x \in R : x.octets # {}
        PROVE  c.octets \in range[1]..range[2]
    <2>1. r \in B
      BY <1>4 DEF Lc3
    <2>2. range[1] = Min(L) /\ range[2] = Max(H)
      <3>1. Envelope(R).octets = {<<Min(L), Max(H)>>}
        BY <2>1 DEF Envelope
      <3>2. QED BY <3>1
    <2>3. ASSUME NEW x \in B PROVE lo(x) \in Nat /\ hi(x) \in Nat /\ The(x.octets, 0) \in x.octets
      <3>1. x.octets \in Options(Nat \X Nat) /\ x.octets # {}
        BY DEF Lc3
      <3>2. The(x.octets, 0) \in x.octets
        BY <3>1, TheOne
      <3>3. QED BY <3>1, <3>2 DEF Options
    <2>4. L \subseteq Nat /\ H \subseteq Nat /\ lo(r) \in L /\ hi(r) \in H
      BY <2>1, <2>3
    <2>5. IsFiniteSet(H)
      <3>1. IsFiniteSet(B)
        BY FS_Subset DEF Lc3
      <3> DEFINE f == [x \in B |-> hi(x)]
      <3>2. f = [x \in B |-> f[x]] /\ H = {f[x] : x \in B}
        OBVIOUS
      <3> HIDE DEF f, B, H
      <3>3. QED BY <3>1, <3>2, ImageFinite
    <2>6. c.octets \in lo(r)..hi(r)
      BY <1>2, <2>1, <2>3
    <2>7. lo(r) \in Nat /\ hi(r) \in Nat
      BY <2>1, <2>3
    <2> HIDE DEF L, H, lo, hi, B
    <2>8. Min(L) \in L /\ Min(L) <= lo(r)
      BY <2>4, Least
    <2>9. Max(H) \in H /\ hi(r) <= Max(H)
      BY <2>4, <2>5, Greatest
    <2>10. Min(L) \in Nat /\ Max(H) \in Nat
      BY <2>4, <2>8, <2>9
    <2>11. QED BY <2>2, <2>6, <2>7, <2>8, <2>9, <2>10
  <1>5. QED BY <1>3, <1>4

LEMMA FitsEnvelope ==
  ASSUME device \in Devices, NEW p, Fits(p)
  PROVE  LET published == Published(device.sinks)
         IN /\ p.codec.rate \in Envelope(published).rates
            /\ p.codec.ms \in Envelope(published).ms
            /\ \A range \in Envelope(published).octets :
                  (\A r \in published : r.octets # {}) => p.codec.octets \in range[1]..range[2]
  <1>1. PICK c : /\ AcceptedBy(Published(device.sinks), c) /\ c.rate = p.codec.rate
                 /\ c.ms = p.codec.ms /\ c.octets = p.codec.octets
    <2>1. IsCodec(p.codec)
      BY DEF Fits, Shaped, IsPlan
    <2> DEFINE both == [p.codec EXCEPT !.ears = Stereo]
    <2>2. both.rate = p.codec.rate /\ both.ms = p.codec.ms /\ both.octets = p.codec.octets
      BY <2>1 DEF IsCodec
    <2>3. AcceptedBy(Published(device.sinks), p.codec) \/ AcceptedBy(Published(device.sinks), both)
      BY DEF Fits, Accepted
    <2> HIDE DEF both
    <2>4. QED BY <2>2, <2>3
  <1>2. /\ c.rate \in Envelope(Published(device.sinks)).rates
        /\ c.ms \in Envelope(Published(device.sinks)).ms
        /\ \A range \in Envelope(Published(device.sinks)).octets :
              (\A r \in Published(device.sinks) : r.octets # {}) => c.octets \in range[1]..range[2]
    BY <1>1, PublishedFinite, InEnvelope
  <1>3. QED BY <1>1, <1>2
-----------------------------------------------------------------------------
(* What the endpoints answered.                                            *)

LEMMA Pair ==
  ASSUME NEW x \in Nat, NEW y \in Nat
  PROVE  /\ Min({x, y}) \in {x, y} /\ Min({x, y}) <= x /\ Min({x, y}) <= y
         /\ Max({x, y}) \in {x, y} /\ x <= Max({x, y}) /\ y <= Max({x, y})
  <1> DEFINE T == {x, y}
  <1>1. T \subseteq Nat /\ T # {} /\ x \in T /\ y \in T
    OBVIOUS
  <1>2. IsFiniteSet(T)
    <2>1. IsFiniteSet({x} \cup {y})
      BY FS_Singleton, FS_AddElement
    <2>2. T = {x} \cup {y}
      OBVIOUS
    <2> HIDE DEF T
    <2>3. QED BY <2>1, <2>2
  <1> HIDE DEF T
  <1>3. /\ Min(T) \in T /\ Min(T) <= x /\ Min(T) <= y
        /\ Max(T) \in T /\ x <= Max(T) /\ y <= Max(T)
    BY <1>1, <1>2, Least, Greatest
  <1>4. QED BY <1>3 DEF T

LEMMA ClampIn ==
  ASSUME NEW x \in Nat, NEW lo \in Nat, NEW hi \in Nat, lo <= hi
  PROVE  Clamp(x, lo, hi) \in lo..hi
  <1> DEFINE below == Min({x, hi})
             c == Max({lo, below})
  <1>1. below \in {x, hi} /\ below <= hi
    BY Pair
  <1>2. below \in Nat
    BY <1>1
  <1> HIDE DEF below
  <1>3. c \in {lo, below} /\ lo <= c
    BY <1>2, Pair
  <1> HIDE DEF c
  <1>4. c \in lo..hi
    BY <1>1, <1>2, <1>3
  <1>5. QED BY <1>4 DEF Clamp, c, below

Replied(A) == A \subseteq Replies /\ A # {} /\ IsFiniteSet(A)

LEMMA AnswersReplied ==
  ASSUME device \in Devices, answers \in device.moods, NEW p, Fits(p)
  PROVE  Replied(Answers(p))
  <1>1. /\ Len(p.ases) \in {1, 2} /\ DOMAIN p.ases = 1..Len(p.ases)
        /\ \A i \in DOMAIN p.ases : i \in DOMAIN device.ases /\ p.ases[i] = device.ases[i]
    BY TheHeadset, FirstOnes DEF Fits
  <1>2. p.qos.phy \in {1, 2}
    <2>1. Sane(p.codec, p.qos)
      BY DEF Fits, Valid
    <2>2. QED BY <2>1, Sane1
  <1> DEFINE D == DOMAIN p.ases
             f == [i \in D |-> answers[p.qos.phy][p.ases[i]]]
  <1>3. Answers(p) = {f[i] : i \in D}
    BY DEF Answers, Answer, ToSet
  <1>4. IsFiniteSet(D) /\ 1 \in D
    <2> HIDE DEF f
    <2>1. Len(p.ases) \in {1, 2} /\ D = 1..Len(p.ases)
      BY <1>1
    <2> HIDE DEF D
    <2>2. Len(p.ases) \in Int /\ 1 \in 1..Len(p.ases)
      BY <2>1
    <2>3. QED BY <2>1, <2>2, FS_Interval
  <1>5. \A i \in D : f[i] \in Replies
    BY <1>1, <1>2, PlanningAssumption DEF ToSet
  <1>6. f = [i \in D |-> f[i]]
    OBVIOUS
  <1> HIDE DEF f, D
  <1>7. IsFiniteSet(Answers(p))
    BY <1>3, <1>4, <1>6, ImageFinite
  <1>8. QED BY <1>3, <1>4, <1>5, <1>7 DEF Replied

Lowest(A) == Max({a.min : a \in A})
Highest(A) == Min({a.max : a \in A})

\* What lies within the bounds of all of them lies within each one's.
LEMMA Between ==
  ASSUME NEW A, Replied(A)
  PROVE  /\ Lowest(A) \in Nat /\ Highest(A) \in Nat
         /\ \A d \in Nat : d \in Lowest(A)..Highest(A) <=> \A a \in A : d \in a.min..a.max
  <1> DEFINE L == {a.min : a \in A}
             H == {a.max : a \in A}
             f == [a \in A |-> a.min]
  <1>1. \A a \in A : a.min \in Nat /\ a.max \in Nat
    BY DEF Replied, Replies
  <1>2. L \subseteq Nat /\ H \subseteq Nat /\ L # {} /\ H # {}
    BY <1>1 DEF Replied
  <1>3. f = [a \in A |-> f[a]] /\ L = {f[a] : a \in A}
    OBVIOUS
  <1>4. \A a \in A : a.min \in L /\ a.max \in H
    OBVIOUS
  <1>5. (\A x \in L : \E a \in A : x = a.min) /\ (\A x \in H : \E a \in A : x = a.max)
    OBVIOUS
  <1> HIDE DEF f, L, H
  <1>6. IsFiniteSet(L)
    BY <1>3, ImageFinite DEF Replied
  <1>7. Max(L) \in L /\ \A x \in L : x <= Max(L)
    BY <1>2, <1>6, Greatest
  <1>8. Min(H) \in H /\ \A x \in H : Min(H) <= x
    BY <1>2, Least
  <1>9. Lowest(A) = Max(L) /\ Highest(A) = Min(H)
    BY DEF Lowest, Highest, L, H
  <1>10. Lowest(A) \in Nat /\ Highest(A) \in Nat
    BY <1>2, <1>7, <1>8, <1>9
  <1>11. ASSUME NEW d \in Nat, d \in Lowest(A)..Highest(A), NEW a \in A
         PROVE  d \in a.min..a.max
    <2>1. a.min <= Lowest(A) /\ Highest(A) <= a.max
      BY <1>4, <1>7, <1>8, <1>9
    <2>2. QED BY <1>1, <1>10, <1>11, <2>1
  <1>12. ASSUME NEW d \in Nat, \A a \in A : d \in a.min..a.max
         PROVE  d \in Lowest(A)..Highest(A)
    <2>1. PICK a \in A : Lowest(A) = a.min
      BY <1>5, <1>7, <1>9
    <2>2. PICK b \in A : Highest(A) = b.max
      BY <1>5, <1>8, <1>9
    <2>3. d \in a.min..a.max /\ d \in b.min..b.max
      BY <1>12
    <2>4. QED BY <1>1, <1>10, <2>1, <2>2, <2>3
  <1>13. QED BY <1>10, <1>11, <1>12

\* The ceiling is everybody's.
LEMMA Under ==
  ASSUME NEW A, Replied(A)
  PROVE  /\ Ceiling(A) \subseteq Nat /\ \A x, y \in Ceiling(A) : x = y
         /\ \A t \in Nat : (\A x \in Ceiling(A) : t <= x) <=>
                           (\A a \in A : a.transport # 0 => t <= a.transport)
  <1> DEFINE T == Said({a.transport : a \in A})
  <1>1. T \subseteq Nat
    BY DEF Replied, Replies, Said
  <1>2. \A a \in A : a.transport # 0 => a.transport \in T
    BY DEF Said
  <1>3. \A x \in T : \E a \in A : x = a.transport /\ a.transport # 0
    BY DEF Said
  <1>4. Ceiling(A) = IF T = {} THEN {} ELSE {Min(T)}
    BY DEF Ceiling
  <1> HIDE DEF T
  <1>5. CASE T = {}
    BY <1>2, <1>4, <1>5
  <1>6. CASE T # {}
    <2>1. Min(T) \in T /\ \A x \in T : Min(T) <= x
      BY <1>1, <1>6, Least
    <2>2. Ceiling(A) = {Min(T)}
      BY <1>4, <1>6
    <2> DEFINE c == Min(T)
    <2>3. c \in Nat
      BY <1>1, <2>1
    <2>4. c \in T /\ (\A x \in T : c <= x) /\ Ceiling(A) = {c}
      BY <2>1, <2>2
    <2> HIDE DEF c
    <2>5. ASSUME NEW t \in Nat, t <= c, NEW a \in A, a.transport # 0
          PROVE  t <= a.transport
      <3>1. a.transport \in T
        BY <1>2, <2>5
      <3>2. c <= a.transport /\ a.transport \in Nat
        BY <1>1, <2>4, <3>1
      <3>3. QED BY <2>3, <2>5, <3>2
    <2>6. ASSUME NEW t \in Nat, \A a \in A : a.transport # 0 => t <= a.transport
          PROVE  t <= c
      BY <1>3, <2>4, <2>6
    <2>7. QED BY <2>3, <2>4, <2>5, <2>6
  <1>7. QED BY <1>5, <1>6
-----------------------------------------------------------------------------
(* What is made of the answers.                                            *)

LEMMA DelayIn ==
  ASSUME NEW A, Replied(A), NEW wanted \in Nat, NEW prefer,
         NEW d \in PresentationDelay(A, wanted, prefer)
  PROVE  d \in Lowest(A)..Highest(A) /\ d \in Nat
  <1> DEFINE lo == Lowest(A)
             hi == Highest(A)
             P == {a.prefmin : a \in A}
             L == {lo} \cup Preferred(P)
             H == {hi} \cup Preferred({a.prefmax : a \in A})
             f == [a \in A |-> a.prefmin]
  <1>1. lo \in Nat /\ hi \in Nat
    BY Between
  <1>2. /\ ~(lo > hi)
        /\ \/ Max(L) <= Min(H) /\ d = Clamp(wanted, Max(L), Min(H))
           \/ d = Clamp(wanted, lo, hi)
    <2>1. PresentationDelay(A, wanted, prefer) =
             IF lo > hi THEN {}
             ELSE IF prefer /\ Max(L) <= Min(H) THEN {Clamp(wanted, Max(L), Min(H))}
             ELSE {Clamp(wanted, lo, hi)}
      BY DEF PresentationDelay, Lowest, Highest
    <2> HIDE DEF lo, hi, L, H
    <2>2. QED BY <2>1
  <1>3. \A a \in A : a.prefmin \in Nat /\ a.prefmax \in Nat
    BY DEF Replied, Replies
  <1> HIDE DEF lo, hi
  <1>4. L \subseteq Nat /\ H \subseteq Nat /\ lo \in L /\ hi \in H
    BY <1>1, <1>3 DEF Said, Preferred
  <1>5. IsFiniteSet(L)
    <2>1. f = [a \in A |-> f[a]] /\ P = {f[a] : a \in A}
      OBVIOUS
    <2> HIDE DEF f, P
    <2>2. IsFiniteSet(P)
      BY <2>1, ImageFinite DEF Replied
    <2>3. IsFiniteSet(Preferred(P))
      BY <2>2, FS_Subset DEF Said, Preferred
    <2>4. IsFiniteSet({lo})
      BY FS_Singleton
    <2>5. QED BY <2>3, <2>4, FS_Union
  <1> HIDE DEF L, H
  <1>6. Max(L) \in Nat /\ lo <= Max(L)
    BY <1>4, <1>5, Greatest
  <1>7. Min(H) \in Nat /\ Min(H) <= hi
    BY <1>4, Least
  <1>8. CASE d = Clamp(wanted, lo, hi)
    <2>1. d \in lo..hi
      BY <1>1, <1>2, <1>8, ClampIn
    <2>2. QED BY <1>1, <2>1 DEF lo, hi
  <1>9. CASE Max(L) <= Min(H) /\ d = Clamp(wanted, Max(L), Min(H))
    <2>1. d \in Max(L)..Min(H)
      BY <1>6, <1>7, <1>9, ClampIn
    <2>2. d \in lo..hi
      BY <1>1, <1>6, <1>7, <2>1
    <2>3. QED BY <1>1, <2>2 DEF lo, hi
  <1>10. QED BY <1>2, <1>8, <1>9

With(p, d, r, t) == [p EXCEPT !.qos.delay = d, !.qos.rtn = r, !.qos.transport = t]

LEMMA WithQos ==
  ASSUME NEW p, IsPlan(p), NEW d, NEW r, NEW t, NEW q, q = With(p, d, r, t)
  PROVE  /\ IsPlan(q) /\ q.codec = p.codec /\ q.single = p.single /\ q.ases = p.ases
         /\ q.mic = p.mic /\ q.qos.phy = p.qos.phy /\ q.qos.delay = d /\ q.qos.transport = t
  <1> DEFINE n == [phy |-> p.qos.phy, sdu |-> p.qos.sdu, rtn |-> r, transport |-> t, delay |-> d]
  <1>1. q = [codec |-> p.codec, qos |-> n, single |-> p.single, ases |-> p.ases,
             latency |-> p.latency, context |-> p.context, mic |-> p.mic]
    BY DEF IsPlan, IsQos, With
  <1>2. IsQos(n) /\ n.phy = p.qos.phy /\ n.delay = d /\ n.transport = t
    BY DEF IsQos
  <1> HIDE DEF n
  <1>3. /\ q.codec = p.codec /\ q.qos = n /\ q.single = p.single /\ q.ases = p.ases
        /\ q.mic = p.mic /\ q.latency = p.latency /\ q.context = p.context
    BY <1>1
  <1>4. IsQos(q.qos) /\ IsCodec(q.codec)
    BY <1>2, <1>3 DEF IsPlan
  <1>5. IsPlan(q)
    BY <1>1, <1>3, <1>4 DEF IsPlan
  <1>6. QED BY <1>2, <1>3, <1>5

WithMic(m, d, t) == [m EXCEPT !.qos.delay = d, !.qos.transport = t]

LEMMA WithMicQos ==
  ASSUME NEW m, IsMic(m), NEW d, NEW t, NEW n, n = WithMic(m, d, t)
  PROVE  IsMic(n) /\ n.ase = m.ase /\ n.codec = m.codec
  <1> DEFINE new == [phy |-> m.qos.phy, sdu |-> m.qos.sdu, rtn |-> m.qos.rtn, transport |-> t,
                     delay |-> d]
  <1>1. n = [ase |-> m.ase, codec |-> m.codec, qos |-> new]
    BY DEF IsMic, IsQos, WithMic
  <1>2. IsQos(new)
    BY DEF IsQos
  <1> HIDE DEF new
  <1>3. n.ase = m.ase /\ n.codec = m.codec /\ n.qos = new
    BY <1>1
  <1>4. IsQos(n.qos)
    BY <1>2, <1>3
  <1>5. IsMic(n)
    BY <1>1, <1>3, <1>4 DEF IsMic
  <1>6. QED BY <1>3, <1>5

LEMMA SettledFits ==
  ASSUME device \in Devices, answers \in device.moods, NEW p, Fits(p), NEW s, NEW q \in Settled(s, p)
  PROVE  /\ IsPlan(q) /\ q.codec = p.codec /\ q.single = p.single /\ q.ases = p.ases
         /\ q.mic = p.mic /\ q.qos.phy = p.qos.phy /\ q.qos.delay \in Nat
         /\ Granted(q, Answers(p))
  <1> DEFINE A == Answers(p)
             custom == s.preset = "custom"
             game == s.context = "game"
             ceiling == Ceiling(A)
             rtns == Said({a.rtn : a \in A})
             refused == \/ custom /\ p.qos.delay \notin Lowest(A)..Highest(A)
                        \/ custom /\ \E x \in ceiling : p.qos.transport > x
             wanted == IF game /\ ~custom THEN 0 ELSE p.qos.delay
  <1>1. IsPlan(p) /\ IsQos(p.qos) /\ p.qos.delay \in Nat
    BY DEF Fits, Shaped, IsPlan
  <1>2. Replied(A)
    BY AnswersReplied
  <1>3. p.qos.transport \in Nat
    <2>1. Sane(p.codec, p.qos)
      BY DEF Fits, Valid
    <2>2. QED BY <2>1, Sane1
  <1> DEFINE rtn == IF custom \/ rtns = {} THEN p.qos.rtn ELSE Max(rtns)
             transport == IF custom THEN p.qos.transport ELSE Min(ceiling \cup {p.qos.transport})
  <1>4. /\ ~refused
        /\ \E d \in PresentationDelay(A, wanted, ~custom /\ ~game) : q = With(p, d, rtn, transport)
    <2> DEFINE New(d) == [p EXCEPT !.qos.delay = d,
                                   !.qos.rtn = IF custom \/ rtns = {} THEN @ ELSE Max(rtns),
                                   !.qos.transport = IF custom THEN @ ELSE Min(ceiling \cup {@})]
               D == PresentationDelay(A, wanted, ~custom /\ ~game)
    <2>1. Settled(s, p) = IF refused THEN {} ELSE {New(d) : d \in D}
      BY Zenon DEF Settled, Lowest, Highest
    <2>2. \A d : New(d) = With(p, d, rtn, transport)
      <3> HIDE DEF custom, rtns, ceiling
      <3>1. QED BY <1>1 DEF IsPlan, IsQos, With
    <2> HIDE DEF refused, D, New
    <2>3. ~refused /\ \E d \in D : q = New(d)
      BY <2>1
    <2>4. \E d \in D : q = With(p, d, rtn, transport)
      <3> HIDE DEF rtn, transport
      <3>1. QED BY <2>2, <2>3
    <2>5. QED BY <2>3, <2>4 DEF D
  <1>5. PICK d \in PresentationDelay(A, wanted, ~custom /\ ~game) : q = With(p, d, rtn, transport)
    BY <1>4
  <1>6. d \in Lowest(A)..Highest(A) /\ d \in Nat
    BY <1>1, <1>2, DelayIn
  <1>7. transport \in Nat /\ \A x \in ceiling : transport <= x
    <2>1. ceiling \subseteq Nat
      BY <1>2, Under
    <2>2. CASE custom
      BY <1>3, <1>4, <2>1, <2>2
    <2>3. CASE ~custom
      <3> DEFINE T == ceiling \cup {p.qos.transport}
      <3>1. T \subseteq Nat /\ T # {}
        BY <1>3, <2>1
      <3>2. transport = Min(T) /\ \A x \in ceiling : x \in T
        BY <2>3
      <3> HIDE DEF T, transport
      <3>3. QED BY <3>1, <3>2, Least
    <2>4. QED BY <2>2, <2>3
  <1> HIDE DEF rtn, transport
  <1>9. /\ IsPlan(q) /\ q.codec = p.codec /\ q.single = p.single /\ q.ases = p.ases
        /\ q.mic = p.mic /\ q.qos.phy = p.qos.phy /\ q.qos.delay = d
        /\ q.qos.transport = transport
    BY <1>1, <1>5, WithQos
  <1>10. \A a \in A : d \in a.min..a.max
    BY <1>2, <1>6, Between
  <1>11. \A a \in A : a.transport # 0 => transport <= a.transport
    BY <1>2, <1>7, Under
  <1>12. QED BY <1>6, <1>9, <1>10, <1>11 DEF Granted

\* The microphone's numbers are its own.
LEMMA MicAnswered ==
  ASSUME NEW p, NEW c, IsPlan(p), MicFits(p, c), NEW q \in WithMicAnswer(p)
  PROVE  /\ IsPlan(q) /\ MicFits(q, c) /\ q.codec = p.codec /\ q.single = p.single
         /\ q.ases = p.ases /\ q.qos = p.qos
  <1>1. CASE p.mic = {}
    BY <1>1 DEF WithMicAnswer
  <1>2. CASE p.mic # {}
    <2>1. PICK m : /\ p.mic = {m} /\ IsMic(m) /\ c.mics # <<>> /\ m.ase = c.mics[1]
                   /\ AcceptedBy(c.sources, m.codec)
      BY <1>2 DEF MicFits
    <2> DEFINE a == device.micAnswer
               new(x, d) == [x EXCEPT !.qos.delay = d, !.qos.transport = Min({@} \cup Said({a.transport}))]
    <2>2. \E d : q = [p EXCEPT !.mic = {new(x, d) : x \in p.mic}]
      BY <1>2 DEF WithMicAnswer
    <2>3. PICK d : q = [p EXCEPT !.mic = {new(x, d) : x \in p.mic}]
      BY <2>2
    <2>4. q = [p EXCEPT !.mic = {new(m, d)}]
      BY <2>1, <2>3
    <2>5. IsMic(new(m, d)) /\ new(m, d).ase = m.ase /\ new(m, d).codec = m.codec
      <3> DEFINE t == Min({m.qos.transport} \cup Said({a.transport}))
      <3>1. new(m, d) = WithMic(m, d, t)
        BY <2>1 DEF IsMic, IsQos, WithMic
      <3> HIDE DEF t, new
      <3>2. QED BY <2>1, <3>1, WithMicQos
    <2> DEFINE n == new(m, d)
    <2>6. IsMic(n) /\ n.ase = m.ase /\ n.codec = m.codec /\ q = [p EXCEPT !.mic = {n}]
      BY <2>4, <2>5
    <2> HIDE DEF n
    <2>7. /\ q.mic = {n} /\ IsPlan(q) /\ q.codec = p.codec /\ q.single = p.single
          /\ q.ases = p.ases /\ q.qos = p.qos
      BY <2>6 DEF IsPlan
    <2>8. QED BY <2>1, <2>6, <2>7 DEF MicFits
  <1>3. QED BY <1>1, <1>2

LEMMA AgreedFits ==
  ASSUME device \in Devices, answers \in device.moods, NEW p, Fits(p), NEW s, NEW q \in Agreed(s, p)
  PROVE  Fits(q) /\ Granted(q, Answers(q))
  <1>1. Valid(q) /\ \E x \in Settled(s, p) : q \in WithMicAnswer(x)
    BY DEF Agreed
  <1>2. PICK x \in Settled(s, p) : q \in WithMicAnswer(x)
    BY <1>1
  <1>3. /\ IsPlan(x) /\ x.codec = p.codec /\ x.single = p.single /\ x.ases = p.ases
        /\ x.mic = p.mic /\ x.qos.phy = p.qos.phy /\ x.qos.delay \in Nat
        /\ Granted(x, Answers(p))
    BY SettledFits
  <1>4. MicFits(x, Source)
    BY <1>3 DEF Fits, MicFits
  <1>5. /\ IsPlan(q) /\ MicFits(q, Source) /\ q.codec = x.codec /\ q.single = x.single
        /\ q.ases = x.ases /\ q.qos = x.qos
    BY <1>2, <1>3, <1>4, MicAnswered
  <1>6. Shaped(q, device.ases)
    BY <1>3, <1>5 DEF Fits, Shaped
  <1>7. Accepted(q)
    BY <1>3, <1>5 DEF Fits, Accepted
  <1>8. Answers(q) = Answers(p)
    BY <1>3, <1>5 DEF Answers, Answer
  <1>9. QED BY <1>1, <1>3, <1>5, <1>6, <1>7, <1>8 DEF Fits, Granted
-----------------------------------------------------------------------------
(* The inductive invariant.                                                *)

Possible == device \in Devices /\ answers \in device.moods /\ settings \in UserSettings

CapsKnown == caps = NoCaps \/ \E c \in caps : caps = {c} /\ Known(c)

PlansFit ==
    /\ \A p \in plan : Fits(p) /\ (stage = "agreed" => Granted(p, Answers(p)))
    /\ stage = "planned" => plan # {}
    /\ stage = "idle" => plan = {}

SameKey(l, m) ==
    l.codec = m.codec /\ l.phy = m.phy /\ l.latency = m.latency /\ l.context = m.context

\* What was asked lies in the past; and before the endpoints are asked in this
\* round, in a round before.
AskedBefore ==
    /\ round \in Nat
    /\ \A h \in asked : h.at \in Nat /\ h.at <= round
    /\ stage \in {"connected", "planned"} => \A h \in asked : h.at < round

Latest(h) == \A other \in asked : SameKey(other, h) => other.at <= h.at

\* A limit is what the endpoints answered when they were last asked about it.
Stated(l, h) ==
    /\ SameKey(h, l) /\ Replied(h.answers)
    /\ l.min = Lowest(h.answers) /\ l.max = Highest(h.answers)
    /\ l.transport = Ceiling(h.answers)

LimitsHold ==
    /\ \A l \in limits : \E h \in asked : Latest(h) /\ Stated(l, h)
    /\ \A l, m \in limits : SameKey(l, m) => l = m

\* Until the headset is read again, preflight would say the same.
Judged ==
    verdict \in {"refused", "within limits"} /\ plan = {} /\ stage # "failed"
        => verdict = Preflight(settings)

PlanInv == Possible /\ CapsKnown /\ PlansFit /\ AskedBefore /\ LimitsHold /\ Judged

LEMMA RecordsPublished ==
  ASSUME NEW records \in Seq(Pacs), NEW cut \in BOOLEAN
  PROVE  Records([records |-> records, cut |-> cut]) \subseteq Published(records)
  <1>1. Len(records) \in Nat /\ DOMAIN records = 1..Len(records)
    BY LenProperties
  <1>2. Records([records |-> records, cut |-> cut]) =
           {Parsed(records[i]) : i \in 1..(IF cut THEN Len(records) - 1 ELSE Len(records))}
    BY DEF Records
  <1>3. 1..(IF cut THEN Len(records) - 1 ELSE Len(records)) \subseteq DOMAIN records
    BY <1>1
  <1>4. QED BY <1>2, <1>3 DEF Published

LEMMA StreamsFit ==
  ASSUME PlanInv
  PROVE  StreamFits
  <1>1. device \in Devices
    BY DEF PlanInv, Possible
  <1>2. ASSUME NEW p \in plan
        PROVE  Fits(p) /\ (stage = "agreed" => Granted(p, Answers(p)))
    BY DEF PlanInv, PlansFit
  <1>3. ASSUME NEW p \in plan
        PROVE  /\ Consistent(p) /\ Accepted(p)
               /\ p.codec.rate \in Envelope(Published(device.sinks)).rates
               /\ p.codec.ms \in Envelope(Published(device.sinks)).ms
               /\ \A range \in Envelope(Published(device.sinks)).octets :
                     (\A r \in Published(device.sinks) : r.octets # {})
                        => p.codec.octets \in range[1]..range[2]
    <2>1. Fits(p)
      BY <1>2
    <2>2. Consistent(p) /\ Accepted(p)
      BY <1>1, <2>1, FitsConsistent DEF Fits
    <2>3. QED BY <1>1, <2>1, <2>2, FitsEnvelope
  <1>4. QED BY <1>2, <1>3 DEF StreamFits

LEMMA JudgedQuotes ==
  ASSUME PlanInv
  PROVE  PreflightQuotes
  <1>1. device \in Devices /\ settings \in UserSettings
    BY DEF PlanInv, Possible
  <1>2. SUFFICES ASSUME verdict \in {"refused", "within limits"}, plan = {}, stage # "failed",
                        NEW p \in PlanOf(settings, The(caps, {}))
                 PROVE  \E h \in asked :
                           /\ SameStream(h, p)
                           /\ \A other \in asked : SameStream(other, p) => other.at <= h.at
                           /\ verdict = "within limits" <=> Granted(p, h.answers)
    BY DEF PreflightQuotes
  <1>3. verdict = Preflight(settings)
    BY <1>2 DEF PlanInv, Judged
  <1>4. caps # NoCaps
    BY <1>2, <1>3 DEF Preflight
  <1>5. PICK c : caps = {c} /\ Known(c)
    BY <1>4 DEF PlanInv, CapsKnown
  <1>6. The(caps, {}) = c
    BY <1>5, TheOne
  <1>7. p \in PlanOf(settings, c)
    BY <1>6
  <1>8. Fits(p) /\ Only(PlanOf(settings, c), p)
    BY <1>1, <1>5, <1>7, PlannedFits
  <1>9. The(PlanOf(settings, c), {}) = p
    BY <1>7, <1>8, TheOne DEF Only
  <1>10. Preflight(settings) =
            IF settings.preset # "custom" \/ Remembered(p) = {} THEN "possible"
            ELSE IF WithinLimit(p, The(Remembered(p), {})) THEN "within limits" ELSE "refused"
    <2>1. PlanOf(settings, c) # {}
      BY <1>7
    <2>2. QED BY <1>4, <1>6, <1>9, <2>1, Zenon DEF Preflight
  <1>12. PICK l : l \in Remembered(p)
    BY <1>2, <1>3, <1>10
  <1>13. l \in limits /\ SameStream(l, p) /\ \A m \in Remembered(p) : m = l
    <2>1. \A m \in Remembered(p) : m \in limits /\ SameStream(m, p)
      BY DEF Remembered
    <2>2. \A m \in Remembered(p) : SameKey(m, l)
      BY <1>12, <2>1 DEF SameStream, SameKey
    <2>3. QED BY <1>12, <2>1, <2>2 DEF PlanInv, LimitsHold
  <1>14. The(Remembered(p), {}) = l
    BY <1>12, <1>13, TheOne
  <1>15. PICK h \in asked : Latest(h) /\ Stated(l, h)
    BY <1>13 DEF PlanInv, LimitsHold
  <1>16. SameStream(h, p) /\ \A other \in asked : SameStream(other, p) => other.at <= h.at
    BY <1>13, <1>15 DEF Stated, Latest, SameKey, SameStream
  <1>17. p.qos.delay \in Nat /\ p.qos.transport \in Nat
    <2>1. Sane(p.codec, p.qos) /\ p.qos.delay \in Nat
      BY <1>8 DEF Fits, Shaped, Valid
    <2>2. QED BY <2>1, Sane1
  <1>18. /\ p.qos.delay \in l.min..l.max <=> \A a \in h.answers : p.qos.delay \in a.min..a.max
         /\ (\A x \in l.transport : p.qos.transport <= x) <=>
               \A a \in h.answers : a.transport # 0 => p.qos.transport <= a.transport
    BY <1>15, <1>17, Between, Under DEF Stated
  <1>19. WithinLimit(p, l) <=> Granted(p, h.answers)
    BY <1>18 DEF WithinLimit, Granted
  <1>20. verdict = "within limits" <=> Granted(p, h.answers)
    BY <1>2, <1>3, <1>10, <1>12, <1>14, <1>19
  <1>21. QED BY <1>16, <1>20
-----------------------------------------------------------------------------
(* Every step keeps it.                                                    *)

LEMMA CapsStay ==
  ASSUME CapsKnown, device' = device, caps' = caps
  PROVE  CapsKnown'
  BY DEF CapsKnown, Known

LEMMA LimitsStay ==
  ASSUME LimitsHold, asked' = asked, limits' = limits
  PROVE  LimitsHold'
  <1>1. \A h : Latest(h) => Latest(h)'
    BY DEF Latest
  <1>2. QED BY <1>1 DEF LimitsHold

LEMMA PlanStays ==
  ASSUME device' = device, answers' = answers, settings' = settings, NEW p
  PROVE  /\ Fits(p) => Fits(p)'
         /\ Granted(p, Answers(p)) => Granted(p, Answers(p))'
  <1>1. Source' = Source /\ Answers(p)' = Answers(p)
    BY DEF Source, Answers, Answer
  <1>2. Accepted(p) => Accepted(p)'
    BY DEF Accepted
  <1>3. QED BY <1>1, <1>2 DEF Fits, Granted

LEMMA Initially ==
  ASSUME PlanInit
  PROVE  PlanInv
  BY DEF PlanInit, PlanInv, Possible, CapsKnown, PlansFit, AskedBefore, LimitsHold, Judged

LEMMA ConnectCommandKeeps ==
  ASSUME PlanInv, ConnectCommand
  PROVE  PlanInv'
  <1>1. Possible'
    BY DEF PlanInv, Possible, ConnectCommand
  <1>2. CapsKnown' /\ LimitsHold'
    BY CapsStay, LimitsStay DEF PlanInv, ConnectCommand
  <1>3. PlansFit' /\ AskedBefore'
    <2>1. PlansFit'
      BY DEF PlansFit, ConnectCommand
    <2>2. round \in Nat /\ round' = round + 1 /\ asked' = asked
      BY DEF PlanInv, AskedBefore, ConnectCommand
    <2>3. QED BY <2>1, <2>2 DEF PlanInv, AskedBefore
  <1>4. Judged'
    <2>1. verdict' = Preflight(settings') /\ caps' = caps /\ limits' = limits
      BY DEF ConnectCommand
    <2>2. \A p : Remembered(p)' = Remembered(p)
      BY <2>1 DEF Remembered
    <2>3. Preflight(settings)' = Preflight(settings')
      BY <2>1, <2>2 DEF Preflight
    <2>4. QED BY <2>1, <2>3 DEF Judged
  <1>5. QED BY <1>1, <1>2, <1>3, <1>4 DEF PlanInv

LEMMA ReadCapabilitiesKeeps ==
  ASSUME PlanInv, ReadCapabilities
  PROVE  PlanInv'
  <1>1. /\ device' = device /\ answers' = answers /\ settings' = settings /\ limits' = limits
        /\ asked' = asked /\ verdict' = verdict /\ round' = round /\ stage = "connected"
        /\ device \in Devices /\ settings \in UserSettings
    BY DEF PlanInv, Possible, ReadCapabilities
  <1>2. PICK cut \in BOOLEAN :
          LET read == [sinks |-> Records([records |-> device.sinks, cut |-> cut]),
                       sources |-> Records([records |-> device.sources, cut |-> FALSE]),
                       ases |-> device.ases, mics |-> device.mics, contexts |-> device.contexts]
              p == PlanOf(settings, read)
          IN /\ cut => device.sinks # <<>>
             /\ caps' = {read} /\ plan' = p
             /\ stage' = IF p = {} THEN "failed" ELSE "planned"
    BY DEF ReadCapabilities
  <1> DEFINE read == [sinks |-> Records([records |-> device.sinks, cut |-> cut]),
                      sources |-> Records([records |-> device.sources, cut |-> FALSE]),
                      ases |-> device.ases, mics |-> device.mics, contexts |-> device.contexts]
  <1>3. PICK c : /\ Known(c) /\ caps' = {c} /\ plan' = PlanOf(settings, c)
                 /\ stage' = IF PlanOf(settings, c) = {} THEN "failed" ELSE "planned"
    <2>1. Known(read)
      <3>1. device.sinks \in Seq(Pacs) /\ device.sources \in Seq(Pacs)
        BY <1>1, TheHeadset
      <3>2. /\ Records([records |-> device.sinks, cut |-> cut]) \subseteq Published(device.sinks)
            /\ Records([records |-> device.sources, cut |-> FALSE]) \subseteq Published(device.sources)
        BY <3>1, RecordsPublished
      <3>3. QED BY <3>2 DEF Known
    <2>2. /\ caps' = {read} /\ plan' = PlanOf(settings, read)
          /\ stage' = IF PlanOf(settings, read) = {} THEN "failed" ELSE "planned"
      BY <1>2
    <2> HIDE DEF read
    <2>3. QED BY <2>1, <2>2
  <1>4. Possible' /\ AskedBefore'
    BY <1>1, <1>3 DEF PlanInv, Possible, AskedBefore
  <1>5. CapsKnown'
    <2>1. Known(c)'
      BY <1>1, <1>3 DEF Known
    <2>2. QED BY <1>3, <2>1 DEF CapsKnown
  <1>6. LimitsHold'
    BY <1>1, LimitsStay DEF PlanInv
  <1>7. PlansFit'
    <2>1. ASSUME NEW p \in plan'
          PROVE  Fits(p)'
      BY <1>1, <1>3, PlannedFits, PlanStays
    <2>2. stage' \notin {"agreed", "idle"} /\ (stage' = "planned" => plan' # {})
      BY <1>3
    <2>3. QED BY <2>1, <2>2 DEF PlansFit
  <1>8. Judged'
    BY <1>3 DEF Judged
  <1>9. QED BY <1>4, <1>5, <1>6, <1>7, <1>8 DEF PlanInv

\* The limits of a stream take the place of those known of it before.
LEMMA Replaced ==
  ASSUME PlanInv, NEW p, Fits(p), stage = "planned", RememberLimits(p), Note(p)
  PROVE  /\ LimitsHold'
         /\ \A h \in asked' : h \in asked \/ h.at = round
  <1> DEFINE n == Limit(p)
             others == {l \in limits : ~SameStream(l, p)}
  <1>1. \A l \in limits' : l = n \/ l \in others
    BY DEF RememberLimits
  <1>2. PICK note :
          /\ note = [codec |-> p.codec, phy |-> p.qos.phy, latency |-> p.latency,
                     context |-> p.context, answers |-> Answers(p), at |-> round]
          /\ asked' = asked \cup {note}
    BY DEF Note
  <1>3. Stated(n, note)
    <2>1. Replied(Answers(p))
      BY AnswersReplied DEF PlanInv, Possible
    <2>2. /\ n.min = Lowest(Answers(p)) /\ n.max = Highest(Answers(p))
          /\ n.transport = Ceiling(Answers(p)) /\ SameKey(note, n) /\ note.answers = Answers(p)
      BY <1>2 DEF Limit, Lowest, Highest, SameKey
    <2> HIDE DEF n
    <2>3. QED BY <2>1, <2>2 DEF Stated
  <1>4. SameStream(n, p) /\ SameStream(note, p) /\ note.at = round
    BY <1>2 DEF Limit, SameStream
  <1> HIDE DEF n
  <1>5. \A h \in asked : h.at \in Nat /\ h.at < round
    BY DEF PlanInv, AskedBefore
  <1>6. \A l \in others : ~SameKey(l, n) /\ ~SameKey(n, l)
    BY <1>4 DEF SameKey, SameStream
  <1>7. Latest(note)'
    <2>1. ASSUME NEW h \in asked'
          PROVE  h.at <= note.at
      BY <1>2, <1>4, <1>5 DEF PlanInv, AskedBefore
    <2>2. QED BY <2>1 DEF Latest
  <1>8. ASSUME NEW l \in others
        PROVE  \E h \in asked' : Latest(h)' /\ Stated(l, h)
    <2>1. PICK h \in asked : Latest(h) /\ Stated(l, h)
      BY DEF PlanInv, LimitsHold
    <2>2. ~SameKey(note, h)
      BY <1>4, <2>1 DEF Stated, SameKey, SameStream
    <2>3. Latest(h)'
      BY <1>2, <2>1, <2>2 DEF Latest
    <2>4. QED BY <1>2, <2>1, <2>3
  <1>9. \A l \in limits' : \E h \in asked' : Latest(h)' /\ Stated(l, h)
    BY <1>1, <1>2, <1>3, <1>7, <1>8
  <1>10. ASSUME NEW l \in limits', NEW m \in limits', SameKey(l, m)
         PROVE  l = m
    BY <1>1, <1>6, <1>10 DEF PlanInv, LimitsHold
  <1>11. QED BY <1>2, <1>4, <1>9, <1>10 DEF LimitsHold

LEMMA NegotiateKeeps ==
  ASSUME PlanInv, Negotiate
  PROVE  PlanInv'
  <1>1. /\ stage = "planned" /\ device' = device /\ answers' = answers /\ settings' = settings
        /\ caps' = caps /\ verdict' = verdict /\ round' = round
        /\ stage' = IF plan' = {} THEN "failed" ELSE "agreed"
    BY DEF Negotiate
  <1>2. PICK p : /\ p \in plan
                 /\ IF Usable(p) THEN RememberLimits(p) /\ Note(p) ELSE UNCHANGED <<limits, asked>>
                 /\ plan' = IF Usable(p) THEN Agreed(settings, p) ELSE {}
    <2>1. plan # {}
      BY <1>1 DEF PlanInv, PlansFit
    <2>2. The(plan, {}) \in plan
      BY <2>1, TheOne
    <2>3. QED BY <2>2 DEF Negotiate
  <1>3. Fits(p) /\ device \in Devices /\ answers \in device.moods
    BY <1>2 DEF PlanInv, PlansFit, Possible
  <1>4. Possible' /\ CapsKnown'
    BY <1>1, CapsStay DEF PlanInv, Possible
  <1>5. LimitsHold' /\ AskedBefore'
    <2>1. LimitsHold' /\ \A h \in asked' : h \in asked \/ h.at = round
      <3>1. CASE Usable(p)
        BY <1>1, <1>2, <1>3, <3>1, Replaced
      <3>2. CASE ~Usable(p)
        BY <1>2, <3>2, LimitsStay DEF PlanInv
      <3>3. QED BY <3>1, <3>2
    <2>2. stage' \notin {"connected", "planned"} /\ round \in Nat
      BY <1>1 DEF PlanInv, AskedBefore
    <2>3. QED BY <1>1, <2>1, <2>2 DEF PlanInv, AskedBefore
  <1>6. PlansFit'
    <2>1. ASSUME NEW q \in plan'
          PROVE  Fits(q)' /\ Granted(q, Answers(q))'
      <3>1. q \in Agreed(settings, p)
        BY <1>2
      <3>2. Fits(q) /\ Granted(q, Answers(q))
        BY <1>3, <3>1, AgreedFits
      <3>3. QED BY <1>1, <3>2, PlanStays
    <2>2. stage' \notin {"planned", "idle"}
      BY <1>1
    <2>3. QED BY <2>1, <2>2 DEF PlansFit
  <1>7. Judged'
    BY <1>1 DEF Judged
  <1>8. QED BY <1>4, <1>5, <1>6, <1>7 DEF PlanInv

LEMMA SamePreflight ==
  ASSUME settings' = settings, caps' = caps, limits' = limits
  PROVE  Preflight(settings)' = Preflight(settings)
  <1>1. \A p : Remembered(p)' = Remembered(p)
    BY DEF Remembered
  <1>2. QED BY <1>1 DEF Preflight

LEMMA EndsKeeps ==
  ASSUME PlanInv, Ends
  PROVE  PlanInv'
  <1>1. /\ device' = device /\ answers' = answers /\ settings' = settings /\ caps' = caps
        /\ limits' = limits /\ asked' = asked /\ round' = round
        /\ stage' = "idle" /\ plan' = {} /\ verdict' = "unknown"
    BY DEF Ends
  <1>2. Possible' /\ CapsKnown' /\ LimitsHold'
    BY <1>1, CapsStay, LimitsStay DEF PlanInv, Possible
  <1>3. PlansFit' /\ AskedBefore' /\ Judged'
    BY <1>1 DEF PlanInv, PlansFit, AskedBefore, Judged
  <1>4. QED BY <1>2, <1>3 DEF PlanInv

\* Another mood changes neither what is remembered nor what was said.
LEMMA ChangesItsMindKeeps ==
  ASSUME PlanInv, ChangesItsMind
  PROVE  PlanInv'
  <1>1. /\ device' = device /\ answers' \in device.moods /\ settings' = settings /\ caps' = caps
        /\ limits' = limits /\ asked' = asked /\ round' = round
        /\ stage = "idle" /\ stage' = stage /\ plan' = plan /\ verdict' = verdict
    BY DEF ChangesItsMind
  <1>2. Possible' /\ CapsKnown' /\ LimitsHold'
    BY <1>1, CapsStay, LimitsStay DEF PlanInv, Possible
  <1>3. PlansFit' /\ AskedBefore'
    BY <1>1 DEF PlanInv, PlansFit, AskedBefore
  <1>4. Judged'
    BY <1>1, SamePreflight DEF PlanInv, Judged
  <1>5. QED BY <1>2, <1>3, <1>4 DEF PlanInv

LEMMA PlanStuttering ==
  ASSUME PlanInv, UNCHANGED planVars
  PROVE  PlanInv'
  <1>1. /\ device' = device /\ answers' = answers /\ settings' = settings /\ caps' = caps
        /\ limits' = limits /\ asked' = asked /\ round' = round
        /\ stage' = stage /\ plan' = plan /\ verdict' = verdict
    BY DEF planVars
  <1>2. Possible' /\ CapsKnown' /\ LimitsHold' /\ AskedBefore'
    BY <1>1, CapsStay, LimitsStay DEF PlanInv, Possible, AskedBefore
  <1>3. PlansFit'
    <2>1. ASSUME NEW p \in plan'
          PROVE  Fits(p)' /\ (stage' = "agreed" => Granted(p, Answers(p))')
      BY <1>1, PlanStays DEF PlanInv, PlansFit
    <2>2. (stage' = "planned" => plan' # {}) /\ (stage' = "idle" => plan' = {})
      BY <1>1 DEF PlanInv, PlansFit
    <2>3. QED BY <2>1, <2>2 DEF PlansFit
  <1>4. Judged'
    BY <1>1, SamePreflight DEF PlanInv, Judged
  <1>5. QED BY <1>2, <1>3, <1>4 DEF PlanInv

THEOREM PlanInvariant == PlanSpec => []PlanInv
  <1>1. PlanInit => PlanInv
    BY Initially
  <1>2. PlanInv /\ [PlanNext]_planVars => PlanInv'
    BY ConnectCommandKeeps, ReadCapabilitiesKeeps, NegotiateKeeps, EndsKeeps,
       ChangesItsMindKeeps, PlanStuttering DEF PlanNext
  <1>3. QED BY <1>1, <1>2, PTL DEF PlanSpec

\* A stream that is asked for is one the headset published, and one all of its
\* endpoints agreed to.
THEOREM StreamsAlwaysFit == PlanSpec => []StreamFits
  <1>1. PlanInv => StreamFits
    BY StreamsFit
  <1>2. QED BY <1>1, PlanInvariant, PTL

\* What preflight says of a custom configuration is what the headset said the last
\* time it was asked for this very stream.
THEOREM PreflightAlwaysQuotes == PlanSpec => []PreflightQuotes
  <1>1. PlanInv => PreflightQuotes
    BY JudgedQuotes
  <1>2. QED BY <1>1, PlanInvariant, PTL
=============================================================================
