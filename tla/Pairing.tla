------------------------------ MODULE Pairing ------------------------------
(***************************************************************************)
(* How the key of one device comes about, is kept and is used again: LE    *)
(* Secure Connections pairing (smp.rs, Session::pair), encryption with a   *)
(* saved key (Session::resume_encryption), the bond in memory and in its   *)
(* file (bonding.rs, persistence.rs) and the agent's use of all three      *)
(* (Agent::connect_device, Agent::forget).  The process may end at any     *)
(* step, the link at any step, and a save may fail.                        *)
(*                                                                         *)
(* A key is a number, 0 is no key.  What the peer sends while pairing is   *)
(* what it should be, or has one flaw; cryptography is what it detects.    *)
(***************************************************************************)
EXTENDS Integers, FiniteSets, Sequences

CONSTANTS MaxKey,       \* bound: keys that can be told apart
          MaxTrouble    \* bound: failures, flaws, crashes and forgettings

ASSUME PairingAssumption == {MaxKey, MaxTrouble} \subseteq Nat

VARIABLES
    pc,         \* what the worker is doing; "down": no process
    step,       \* the pairing PDU that is waited for
    flaw,       \* what is wrong with the peer's side of this pairing
    hand,       \* the key in use: being offered, or agreed a moment ago
    identity,   \* the identity received with it (Session.peer_identity)
    mem,        \* the bond in memory
    file,       \* the file
    temporary,  \* the temporary file of a save
    saved,      \* what the running save is for
    peerKey,    \* the key the peer keeps for us
    peerNew,    \* the key the peer has agreed to and not put to use
    up, encrypted,  \* the link as the controller has it
    authorised, \* media::authorize has been called for this link
    trouble     \* counter for the bound

peerVars == <<peerKey, peerNew>>
storeVars == <<mem, file, temporary, saved>>
linkVars == <<up, encrypted>>
vars == <<pc, step, flaw, hand, identity, storeVars, peerVars, linkVars, authorised, trouble>>

Key == 1..MaxKey
Bond(key, id) == [key |-> key, id |-> id]
NoBond == Bond(0, 0)
Damaged == Bond(-1, 0)      \* a file that was not written to its end

PairingSteps == <<"response", "key", "confirm", "random", "check">>

Flaws == {"refusal", "capabilities", "point", "nonce", "proof"}

Init ==
    /\ pc = "idle" /\ step = 1 /\ flaw = "none" /\ hand = 0 /\ identity = 0
    /\ mem = NoBond /\ file = NoBond /\ temporary = NoBond /\ saved = "nothing"
    /\ peerKey = 0 /\ peerNew = 0
    /\ up = FALSE /\ encrypted = FALSE /\ authorised = FALSE
    /\ trouble = 0

Trouble == trouble < MaxTrouble /\ trouble' = trouble + 1
-----------------------------------------------------------------------------
(* A connection attempt.                                                   *)

ResetLink == FALSE      \* media::reset_link, the first thing an attempt does

\* connect_within_until gets through.  A saved key is tried first.
Connect ==
    /\ pc = "idle" /\ ~up
    /\ authorised' = ResetLink
    /\ up' = TRUE /\ encrypted' = FALSE
    /\ hand' = mem.key
    /\ IF mem.key # 0 THEN pc' = "resume" /\ UNCHANGED <<step, flaw, identity, trouble>>
       ELSE /\ pc' = "pair" /\ step' = 1 /\ identity' = 0
            /\ \/ flaw' = "none" /\ UNCHANGED trouble
               \/ flaw' \in Flaws /\ Trouble
    /\ peerNew' = 0
    /\ UNCHANGED <<storeVars, peerKey>>

\* Session::disconnect after a failure; the attempt is over.
HangUp ==
    /\ pc' = "idle" /\ hand' = 0
    /\ up' = FALSE /\ encrypted' = FALSE
    /\ authorised' = FALSE

Idle == <<step, flaw, identity, storeVars>>

\* enable_encryption with the saved key, and the peer has the same.
Resumes ==
    /\ pc = "resume" /\ up /\ hand = peerKey
    /\ encrypted' = TRUE /\ authorised' = TRUE
    /\ pc' = "keyed"
    /\ UNCHANGED <<step, flaw, hand, identity, storeVars, peerVars, up, trouble>>

\* Mutant: a missing key on the other side is an error like any other.
RejectedPinOnly(status) == status = 5

\* saved_key_rejected: PIN or key missing, or authentication failure.
SavedKeyRejected(status) == status \in {5, 6}

\* The peer has no key for us and says so: status 6.
Rejected ==
    /\ pc = "resume" /\ up /\ peerKey = 0
    /\ IF SavedKeyRejected(6)
       THEN /\ pc' = "pair" /\ step' = 1 /\ identity' = 0
            /\ \/ flaw' = "none" /\ UNCHANGED trouble
               \/ flaw' \in Flaws /\ Trouble
            /\ UNCHANGED <<hand, storeVars, peerVars, linkVars, authorised>>
       ELSE HangUp /\ UNCHANGED <<Idle, peerVars, trouble>>

\* The peer has another key.  The first encrypted packet does not check, and
\* the link ends: an error that does not permit replacement pairing.
Mismatch ==
    /\ pc = "resume" /\ up /\ peerKey \notin {0, hand}
    /\ HangUp
    /\ UNCHANGED <<Idle, peerVars, trouble>>
-----------------------------------------------------------------------------
(* Pairing, one received PDU per step.                                     *)

\* Mutant: the confirm value is not compared.
CheckedWithoutConfirm(what) ==
    CASE what = "response" -> {"refusal"}
      [] what = "random" -> {"point"}
      [] what = "check" -> {"capabilities", "proof"}
      [] OTHER -> {}

\* What each handler finds out.  The response is checked for Secure Connections
\* and full key size; key and confirm only for their form; the random against
\* the confirm, when the point is used for the first time; the check covers
\* the capabilities of the response too.
Checked(what) ==
    CASE what = "response" -> {"refusal"}
      [] what = "random" -> {"point", "nonce"}
      [] what = "check" -> {"capabilities", "proof"}
      [] OTHER -> {}

\* Keys are random: a new one is none of those that are still kept somewhere.
FreshKeys == Key \ {hand, mem.key, file.key, temporary.key, peerKey}

\* The handler of this PDU is content and its answer goes out.  After the last
\* one both sides have the new key; the peer keeps it when it is first used.
PairingGoesOn ==
    /\ pc = "pair" /\ up
    /\ flaw \notin Checked(PairingSteps[step])
    /\ IF step < Len(PairingSteps)
       THEN step' = step + 1 /\ UNCHANGED <<pc, hand, peerNew>>
       ELSE /\ pc' = "encrypt" /\ step' = 1
            /\ hand' \in FreshKeys
            /\ peerNew' = IF flaw = "none" THEN hand' ELSE 0
    /\ UNCHANGED <<flaw, identity, storeVars, peerKey, linkVars, authorised, trouble>>

PairingFails ==
    /\ pc = "pair"
    /\ flaw \in Checked(PairingSteps[step])
    /\ HangUp
    /\ UNCHANGED <<Idle, peerVars, trouble>>

\* enable_encryption with the new key.  The peer takes it up as encryption
\* starts; whether we hear of it is another matter (Interrupted).
PeerEncrypts ==
    /\ pc = "encrypt" /\ up /\ ~encrypted /\ peerNew # 0
    /\ encrypted' = TRUE
    /\ peerKey' = peerNew /\ peerNew' = 0
    /\ UNCHANGED <<pc, step, flaw, hand, identity, storeVars, up, authorised, trouble>>

\* Encryption Change arrives; then the peer's identity, if it announced one.
Encrypted ==
    /\ pc = "encrypt" /\ encrypted
    /\ authorised' = TRUE
    /\ \/ pc' = "identity" \/ pc' = "keyed"
    /\ UNCHANGED <<step, flaw, hand, identity, storeVars, peerVars, linkVars, trouble>>

IdentityArrives ==
    /\ pc = "identity" /\ up
    /\ identity' = hand
    /\ pc' = "keyed"
    /\ UNCHANGED <<step, flaw, hand, storeVars, peerVars, linkVars, authorised, trouble>>

\* At any of these steps: no answer in time, Pairing Failed, a malformed PDU, a
\* status nobody expected, the link lost.  A saved bond is left as it is.
Interrupted ==
    /\ pc \in {"resume", "pair", "encrypt", "identity"}
    /\ Trouble
    /\ HangUp
    /\ UNCHANGED <<Idle, peerVars>>
-----------------------------------------------------------------------------
(* The bond.                                                               *)

Reused == mem.key = hand

IdentityToKeep == IF Reused THEN mem.id ELSE identity

\* connect_device: the bond is inserted, replacing an older one, and saved.
Remember ==
    /\ pc = "keyed"
    /\ mem' = Bond(hand, IdentityToKeep)
    /\ identity' = 0
    /\ pc' = "saving" /\ saved' = "bond"
    /\ UNCHANGED <<step, flaw, hand, file, temporary, peerVars, linkVars, authorised, trouble>>

\* Mutant: the file is opened for writing, and so emptied, before the contents
\* are there.
WriteInPlace == temporary' = mem /\ file' = Damaged

\* atomic_write: a temporary file beside the real one is written and synced,
WriteTemporary == temporary' = mem /\ UNCHANGED file

SaveWrites ==
    /\ pc = "saving"
    /\ WriteTemporary
    /\ pc' = "renaming"
    /\ UNCHANGED <<step, flaw, hand, identity, mem, saved, peerVars, linkVars,
                   authorised, trouble>>

\* then renamed over it.
SaveDone ==
    /\ pc = "renaming"
    /\ file' = temporary /\ temporary' = NoBond
    /\ pc' = IF saved = "bond" THEN "linked" ELSE "idle"
    /\ saved' = "nothing"
    /\ UNCHANGED <<step, flaw, hand, identity, mem, peerVars, linkVars, authorised, trouble>>

\* An error of either removes the temporary file.  After a pairing nobody
\* looks at it; a forget reports it.
SaveFails ==
    /\ pc \in {"saving", "renaming"}
    /\ Trouble
    /\ temporary' = NoBond
    /\ pc' = IF saved = "bond" THEN "linked" ELSE "idle"
    /\ saved' = "nothing"
    /\ UNCHANGED <<step, flaw, hand, identity, mem, file, peerVars, linkVars, authorised>>

\* Agent::forget: the connected device is disconnected first.
Forget ==
    /\ pc \in {"idle", "linked"} /\ mem # NoBond
    /\ Trouble
    /\ mem' = NoBond
    /\ pc' = "saving" /\ saved' = "forgetting"
    /\ hand' = 0 /\ up' = FALSE /\ encrypted' = FALSE
    /\ authorised' = IF pc = "linked" THEN FALSE ELSE authorised
    /\ UNCHANGED <<step, flaw, identity, file, temporary, peerVars>>

\* The link ends while it is in use; the agent finds out and is idle again.
LinkLost ==
    /\ up /\ Trouble
    /\ up' = FALSE /\ encrypted' = FALSE
    /\ UNCHANGED <<pc, step, flaw, hand, identity, storeVars, peerVars, authorised>>

LossSeen ==
    /\ pc = "linked" /\ ~up
    /\ pc' = "idle" /\ hand' = 0
    /\ UNCHANGED <<step, flaw, identity, storeVars, peerVars, linkVars, authorised, trouble>>

\* Waiting on a link that is gone: the events say so, or the time is up.
LossNoticed ==
    /\ pc \in {"resume", "pair", "encrypt", "identity"} /\ ~up
    /\ HangUp
    /\ UNCHANGED <<Idle, peerVars, trouble>>

\* BondStore::load: a damaged or missing file is "nothing paired yet", and so is one
\* that could not be read this time; the next save then replaces it.
Loaded == {NoBond} \cup (IF file = Damaged THEN {} ELSE {file})

\* The process ends, wherever it is, and is started again.  The controller is
\* reset, which ends the link.  A temporary file that is left is never read.
Crash ==
    /\ Trouble
    /\ mem' \in Loaded /\ temporary' = NoBond /\ saved' = "nothing"
    /\ pc' = "idle" /\ step' = 1 /\ flaw' = "none" /\ hand' = 0 /\ identity' = 0
    /\ up' = FALSE /\ encrypted' = FALSE /\ authorised' = FALSE
    /\ UNCHANGED <<file, peerVars>>

\* The device is reset, or pairs with another computer and forgets us.
PeerForgets ==
    /\ Trouble /\ ~up
    /\ peerKey # 0 /\ peerKey' = 0 /\ peerNew' = 0
    /\ UNCHANGED <<pc, step, flaw, hand, identity, storeVars, linkVars, authorised>>

Next ==
    \/ Connect \/ Resumes \/ Rejected \/ Mismatch
    \/ PairingGoesOn \/ PairingFails \/ PeerEncrypts \/ Encrypted \/ IdentityArrives
    \/ Interrupted \/ Remember \/ SaveWrites \/ SaveDone \/ SaveFails
    \/ Forget \/ LinkLost \/ LossSeen \/ LossNoticed \/ Crash \/ PeerForgets

Spec == Init /\ [][Next]_vars

\* The worker goes on, every wait has a limit, and the user or the automatic
\* reconnect tries again.  Trouble is never owed.
Fairness ==
    /\ WF_vars(Connect) /\ WF_vars(Resumes) /\ WF_vars(Rejected) /\ WF_vars(Mismatch)
    /\ WF_vars(PairingGoesOn) /\ WF_vars(PairingFails) /\ WF_vars(PeerEncrypts)
    /\ WF_vars(Encrypted) /\ WF_vars(IdentityArrives) /\ WF_vars(Remember)
    /\ WF_vars(SaveWrites) /\ WF_vars(SaveDone) /\ WF_vars(LossSeen) /\ WF_vars(LossNoticed)

FairSpec == Spec /\ Fairness
-----------------------------------------------------------------------------
TypeOK ==
    /\ pc \in {"idle", "resume", "pair", "encrypt", "identity", "keyed",
               "saving", "renaming", "linked"}
    /\ step \in 1..Len(PairingSteps) /\ flaw \in Flaws \cup {"none"}
    /\ hand \in 0..MaxKey /\ identity \in 0..MaxKey
    /\ peerKey \in 0..MaxKey /\ peerNew \in 0..MaxKey
    /\ \A b \in {mem, file, temporary} : b.key \in -1..MaxKey /\ b.id \in 0..MaxKey
    /\ saved \in {"nothing", "bond", "forgetting"}
    /\ \A b \in {up, encrypted, authorised} : b \in BOOLEAN
    /\ trouble \in 0..MaxTrouble

AgreedOnly == pc = "encrypt" => flaw = "none" /\ (up => hand \in {peerKey, peerNew})

AuthorisedIsEncrypted == (authorised /\ up => encrypted) /\ (encrypted => up)

IdentityOfKey == \A b \in {mem, file, temporary} : b.id \in {0, b.key}

\* What a link is trusted for has been earned on that link.  A key is used only
\* when the peer's commitment, proof and capabilities were all checked for it,
\* the media server is opened only to an encrypted link, whatever the last link
\* was, and a bond never pairs the key of one pairing with the identity of
\* another (handle_random, handle_dhkey_check, media::reset_link, connect_device).
TrustEarned == AgreedOnly /\ AuthorisedIsEncrypted /\ IdentityOfKey

\* A bond leaves the file only because it was forgotten or replaced by a newer
\* one with its identity intact: never because the process ended in the middle
\* of a save, because one failed, or because a connection did (atomic_write,
\* saved_key_rejected).
BondSurvives ==
    [][/\ file' # file => saved \in {"bond", "forgetting"} /\ file' = mem
       /\ (file # NoBond /\ file' = NoBond) => saved = "forgetting"
       /\ (mem.key # 0 /\ mem'.key = mem.key) => mem'.id = mem.id]_vars

\* Both sides have a key and it is not the same: a new pairing was cut short
\* after the peer had taken up its key, or its bond was not saved.
Torn == mem.key # 0 /\ peerKey # 0 /\ mem.key # peerKey

\* Unless the two sides hold different keys, the link comes back: a missing key
\* on either side is replaced, and no failure leaves the agent unable to try
\* again (connect_device).  With different keys it stays away until the user
\* unpairs, since only a key the peer says it misses may be replaced.
Recovers == []<>(pc = "linked") \/ <>[]Torn
=============================================================================
