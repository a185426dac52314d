----------------------------- MODULE PairingProofs -----------------------------
(***************************************************************************)
(* The types, OneLink and EmitsOnLive of the client, and CardOnFile,       *)
(* PairingKept and NotTurnedAway of the engine around it, for every number *)
(* of starts and troubles, every curve and every limit of failures.        *)
(*                                                                         *)
(* A pairing is kept because nobody outside ever hears of a key (Traces)   *)
(* that a saved state.json does not name: IdentityKept says so for every   *)
(* stage, among them a crash at it.                                        *)
(***************************************************************************)
EXTENDS Pairing, TLAPS

\* A socket that is open is the one _channel is on, and run() is past connect().
LinkServed ==
  link \in NotClosed =>
    channel = "current" /\ pc \in {"subscribe", "hello", "park", "cancelled"}

\* The failure that reaches the limit ends run().
FailuresBelow == pc # "unpaired" => failures < MaxTokenFailures

ClientInv ==
  /\ TypeOK
  /\ OneLink
  /\ LinkServed
  /\ FailuresBelow

\* The stages that follow the choice of a key, and those that follow its save.
KeyChosen == {"save", "saving", "nonce", "post", "show", "shown", "serve", "serving"}
KeySaved == {"nonce", "post", "show", "shown", "serve", "serving"}

\* The keys that somebody outside the engine has heard of.
Traces == bound \cup ({filed, card} \ {NoKey})

\* The next start finds the key by its name, or no start follows.
KeyNamed == stateFile.text = "cut" \/ stateFile.named

\* One key is generated in a start at most; the key in hand is a key; and the
\* service knows the engine by it.
KeyInHand ==
  /\ made <= starts
  /\ stage = "key" => made < starts
  /\ stage \in KeyChosen \cup {"write"} => key \in Keys
  /\ device <=> key \in bound
  /\ late => stage \in KeyChosen
  /\ stage # "serving" => link = "none" /\ failures = 0 /\ pc # "unpaired"

IdentityKept ==
  SaveFirst /\ ~removed =>
    /\ \A k \in Traces : keyFile = k /\ KeyNamed
    /\ stage \in KeyChosen => keyFile = key /\ named
    /\ stage \in KeySaved \/ late => KeyNamed
    /\ stage = "write" => Traces = {}
    /\ stage = "key" => (named <=> stateFile.named) /\ stateFile.text # "cut"

\* Without a revocation, an engine that takes itself for paired is.
PairedIsBound ==
  SaveFirst /\ ~removed /\ ~revoked =>
    /\ paired \/ stateFile.paired => bound # {}
    /\ stage \in {"serve", "serving"} => device

IInv ==
  /\ PairingTypeOK
  /\ ClientInv
  /\ KeyInHand
  /\ CardOnFile
  /\ IdentityKept
  /\ PairedIsBound
  /\ SaveFirst => NotTurnedAway

-------------------------------------------------------------------------------
(***************************************************************************)
(* The client.                                                             *)
(***************************************************************************)

\* A step of the client, or of its surroundings, keeps ClientInv.
LEMMA ClientKept ==
  ASSUME ClientInv, [Next]_vars
  PROVE  ClientInv'
<1> USE CountsAssumption
    DEF ClientInv, TypeOK, OneLink, LinkServed, FailuresBelow, NotClosed, Ended, Trouble
<1>1. CASE FetchToken
  BY <1>1 DEF FetchToken
<1>2. CASE FetchFindsUnpaired
  BY <1>2 DEF FetchFindsUnpaired, ExitUnpaired
<1>3. CASE FetchFails
  <2>1. /\ failures' = failures + 1 /\ failures' \in 0..MaxTokenFailures
        /\ troubles' \in 0..MaxTroubles
    BY <1>3 DEF FetchFails
  <2>2. CASE failures' >= MaxTokenFailures /\ ExitUnpaired
    BY <1>3, <2>1, <2>2 DEF FetchFails, ExitUnpaired
  <2>3. CASE /\ failures' < MaxTokenFailures /\ BackOff
             /\ UNCHANGED <<link, channel, ka, shown, paired, device, leaked>>
    BY <1>3, <2>1, <2>3 DEF FetchFails, BackOff
  <2> QED
    BY <1>3, <2>2, <2>3 DEF FetchFails
<1>4. CASE BackoffEnds
  BY <1>4 DEF BackoffEnds
<1>5. CASE Connect
  BY <1>5 DEF Connect
<1>6. CASE AttemptFails
  BY <1>6 DEF AttemptFails, BackOff
<1>7. CASE Subscribe
  BY <1>7 DEF Subscribe
<1>8. CASE SayHello
  BY <1>8 DEF SayHello
<1>9. CASE DeclareDead
  BY <1>9 DEF DeclareDead
<1>10. CASE DeclareAlone
  BY <1>10 DEF DeclareAlone
<1>11. CASE PingRaises
  BY <1>11 DEF PingRaises
<1>12. CASE LinkLost
  BY <1>12 DEF LinkLost
<1>13. CASE Revoke
  <2>1. device' \in BOOLEAN
    BY <1>13 DEF Revoke
  <2> QED
    BY <1>13, <2>1 DEF Revoke
<1>14. CASE Cancel
  BY <1>14 DEF Cancel
<1>15. CASE UNCHANGED vars
  BY <1>15 DEF vars
<1> QED
  BY <1>1, <1>2, <1>3, <1>4, <1>5, <1>6, <1>7, <1>8, <1>9, <1>10, <1>11, <1>12, <1>13,
     <1>14, <1>15 DEF Next, Run

-------------------------------------------------------------------------------
(***************************************************************************)
(* The engine around it.                                                   *)
(***************************************************************************)

\* What State.load() reads are two Booleans, be there a file or none.
LEMMA FileTyped ==
  ASSUME PairingTypeOK
  PROVE  stateFile.named \in BOOLEAN /\ stateFile.paired \in BOOLEAN
<1>1. CASE stateFile \in {NoFile, CutFile}
  <2>1. stateFile.named = FALSE /\ stateFile.paired = FALSE
    BY <1>1 DEF NoFile, CutFile
  <2> QED
    BY <2>1
<1>2. CASE \E n, p \in BOOLEAN : stateFile = Json(n, p)
  BY <1>2 DEF Json
<1> QED
  BY <1>1, <1>2 DEF PairingTypeOK

\* The only key the service can have paired is the one in keypair.bin.
LEMMA BoundKey ==
  ASSUME IInv, SaveFirst, ~removed, ~revoked, paired
  PROVE  keyFile \in bound
<1>1. PICK k \in bound : TRUE
  BY DEF IInv, PairedIsBound
<1>2. keyFile = k
  BY <1>1 DEF IInv, IdentityKept, Traces
<1> QED
  BY <1>1, <1>2

\* The end of the process, at any stage, takes nothing from the files.
LEMMA DiesKeeps ==
  ASSUME IInv, Dies, troubles' \in 0..MaxTroubles
  PROVE  IInv'
<1> USE StartsAssumption, SaveFirstAssumption, CountsAssumption
    DEF IInv, PairingTypeOK, ClientInv, KeyInHand, CardOnFile, IdentityKept,
      PairedIsBound, NotTurnedAway, KeyChosen, KeySaved, Traces, KeyNamed, Stages, Keys,
      NoKey, Cut, client, identity, files, service, past, vars, TypeOK, OneLink,
      LinkServed, FailuresBelow, NotClosed, Ended
<1>1. {named', paired', device', late'} \subseteq BOOLEAN
  BY DEF Dies
<1>2. PairingTypeOK'
  BY <1>1 DEF Dies
<1>3. KeyInHand'
  <2>1. key' \notin bound' /\ device' = FALSE /\ late' = FALSE
    BY DEF Dies
  <2> QED
    BY <2>1 DEF Dies
<1>4. ClientInv'
  BY <1>2 DEF Dies
<1>5. CardOnFile' /\ (SaveFirst => NotTurnedAway)'
  BY DEF Dies
<1>6. IdentityKept'
  BY DEF Dies
<1>7. PairedIsBound'
  BY DEF Dies
<1> QED
  BY <1>2, <1>3, <1>4, <1>5, <1>6, <1>7

\* A step of the client leaves the files and the service alone; paired it only
\* clears, and it ends with a 404 only when the service does not know the key.
LEMMA ServeKeeps ==
  ASSUME IInv, Serve
  PROVE  IInv'
<1>1. UNCHANGED identity /\ stage = "serving"
  BY DEF Serve
<1>2. [Next]_vars
  BY DEF Serve, Next
<1>3. ClientInv'
  BY <1>2, ClientKept DEF IInv
<1>4. device' = device /\ (paired' => paired)
  BY DEF Serve, Run, FetchToken, FetchFindsUnpaired, FetchFails, ExitUnpaired, BackOff,
    BackoffEnds, Connect, AttemptFails, Subscribe, SayHello, DeclareDead, DeclareAlone,
    PingRaises, LinkLost, Cancel
<1>5. pc' = "unpaired" /\ failures' < MaxTokenFailures
        => ~device \/ (pc = "unpaired" /\ failures < MaxTokenFailures)
  BY CountsAssumption
  DEF Serve, Run, FetchToken, FetchFindsUnpaired, FetchFails, ExitUnpaired, BackOff,
    BackoffEnds, Connect, AttemptFails, Subscribe, SayHello, DeclareDead, DeclareAlone,
    PingRaises, LinkLost, Cancel, IInv, ClientInv, TypeOK
<1>6. PairingTypeOK'
  BY <1>1, <1>3 DEF IInv, ClientInv, PairingTypeOK, identity, files, service, past
<1>7. KeyInHand' /\ CardOnFile' /\ IdentityKept'
  BY <1>1, <1>4 DEF IInv, KeyInHand, CardOnFile, IdentityKept, Traces, KeyNamed,
    identity,
    files, service, past
<1>8. PairedIsBound'
  BY <1>1, <1>4 DEF IInv, PairedIsBound, identity, files, service, past
<1>9. (SaveFirst => NotTurnedAway)'
  BY <1>1, <1>4, <1>5 DEF IInv, PairedIsBound, NotTurnedAway, identity, files,
    service, past
<1> QED
  BY <1>3, <1>6, <1>7, <1>8, <1>9 DEF IInv

\* IInv is inductive.
LEMMA StepPreserves ==
  ASSUME IInv, [PairingNext]_allVars
  PROVE  IInv'
<1> USE StartsAssumption, SaveFirstAssumption, CountsAssumption
    DEF IInv, PairingTypeOK, ClientInv, KeyInHand, CardOnFile, IdentityKept,
      PairedIsBound, NotTurnedAway, KeyChosen, KeySaved, Traces, KeyNamed, Stages, Keys,
      NoKey, Cut, client, identity, files, service, past, vars, Json, NoFile, CutFile,
      TypeOK, OneLink, LinkServed, FailuresBelow, NotClosed, Ended
<1>1. CASE Boot
  <2>1. PairingTypeOK'
    <3>1. {named', paired'} \subseteq BOOLEAN
      BY <1>1, FileTyped DEF Boot
    <3> QED
      BY <1>1, <3>1 DEF Boot, Goes
  <2>2. ClientInv' /\ KeyInHand' /\ CardOnFile' /\ IdentityKept' /\
       PairedIsBound' /\ (SaveFirst => NotTurnedAway)'
    BY <1>1, <2>1 DEF Boot, Goes
  <2> QED
    BY <2>1, <2>2
<1>2. CASE LoadKey
  <2>1. PairingTypeOK'
    BY <1>2 DEF LoadKey, KeyExists, Goes, SignWith, Ready
  <2>2. KeyInHand'
    <3>1. device' <=> key' \in bound'
      <4>1. key' = keyFile /\ bound' = bound
        BY <1>2 DEF LoadKey, SignWith
      <4>2. device' = (keyFile \in bound)
        BY <1>2 DEF LoadKey, SignWith
      <4> HIDE DEF IInv
      <4> QED
        BY <4>1, <4>2
    <3>2. key' \in Keys
      BY <1>2 DEF LoadKey, KeyExists, SignWith
    <3> QED
      BY <1>2, <3>1, <3>2 DEF LoadKey, Goes, Ready
  <2>3. IdentityKept'
    <3>1. named' /\ key' = keyFile /\ stage' \in {"serve", "nonce"}
      BY <1>2 DEF LoadKey, KeyExists, Goes, SignWith, Ready
    <3>2. SaveFirst /\ ~removed => KeyNamed
      BY <1>2 DEF LoadKey, KeyExists, Goes
    <3> QED
      BY <1>2, <3>1, <3>2 DEF LoadKey
  <2>4. PairedIsBound'
    <3>1. SaveFirst /\ ~removed /\ ~revoked /\ paired => keyFile \in bound
      BY BoundKey
    <3>2. stage' \in {"serve", "serving"} => paired
      BY <1>2 DEF LoadKey, Goes, Ready
    <3> QED
      BY <1>2, <3>1, <3>2 DEF LoadKey, SignWith
  <2>5. ClientInv' /\ CardOnFile' /\ (SaveFirst => NotTurnedAway)'
    BY <1>2, <2>1 DEF LoadKey, KeyExists, Goes, SignWith, Ready
  <2> QED
    BY <2>1, <2>2, <2>3, <2>4, <2>5
<1>3. CASE GenerateOpens
  <2>1. PairingTypeOK'
    BY <1>3 DEF GenerateOpens, KeyExists, Goes, SignWith
  <2>2. KeyInHand'
    <3>1. device' <=> key' \in bound'
      BY <1>3 DEF GenerateOpens, SignWith
    <3>2. key' \in Keys /\ made' <= starts'
      BY <1>3 DEF GenerateOpens, Goes, SignWith
    <3> QED
      BY <1>3, <3>1, <3>2 DEF GenerateOpens, Goes
  <2>3. IdentityKept'
    <3>1. ASSUME SaveFirst, ~removed, NEW k \in Traces
          PROVE  FALSE
      <4>1. keyFile = k /\ KeyNamed
        BY <3>1
      <4>2. k # NoKey
        BY <3>1
      <4> QED
        BY <1>3, <3>1, <4>1, <4>2 DEF GenerateOpens, KeyExists, Goes
    <3>2. Traces' = Traces /\ ~late'
      BY <1>3 DEF GenerateOpens, Goes
    <3> QED
      BY <1>3, <3>1, <3>2 DEF GenerateOpens, Goes
  <2>4. ClientInv' /\ CardOnFile' /\ PairedIsBound' /\
       (SaveFirst => NotTurnedAway)'
    BY <1>3, <2>1 DEF GenerateOpens, KeyExists, Goes, SignWith
  <2> QED
    BY <2>1, <2>2, <2>3, <2>4
<1>4. CASE GenerateWrites
  <2>1. PairingTypeOK'
    BY <1>4 DEF GenerateWrites, Goes, Ready
  <2>2. ClientInv' /\ KeyInHand' /\ CardOnFile' /\ IdentityKept' /\
       PairedIsBound' /\ (SaveFirst => NotTurnedAway)'
    BY <1>4, <2>1 DEF GenerateWrites, Goes, Ready
  <2> QED
    BY <2>1, <2>2
<1>5. CASE SaveOpens
  <2>1. PairingTypeOK'
    BY <1>5 DEF SaveOpens, Goes
  <2>2. ClientInv' /\ KeyInHand' /\ CardOnFile' /\ IdentityKept' /\
       PairedIsBound' /\ (SaveFirst => NotTurnedAway)'
    BY <1>5, <2>1 DEF SaveOpens, Goes
  <2> QED
    BY <2>1, <2>2
<1>6. CASE SaveWrites
  <2>1. PairingTypeOK'
    BY <1>6 DEF SaveWrites, Goes, Ready
  <2>2. PairedIsBound'
    <3>1. SaveFirst /\ ~removed /\ ~revoked /\ paired => key \in bound
      BY <1>6, BoundKey DEF SaveWrites, Goes
    <3>2. stage' \in {"serve", "serving"} => paired
      BY <1>6 DEF SaveWrites, Goes, Ready
    <3>3. stateFile'.paired = paired /\ UNCHANGED <<paired, device, bound, removed, revoked>>
      BY <1>6 DEF SaveWrites
    <3> QED
      BY <3>1, <3>2, <3>3
  <2>3. ClientInv' /\ KeyInHand' /\ CardOnFile' /\ IdentityKept' /\
       (SaveFirst => NotTurnedAway)'
    BY <1>6, <2>1 DEF SaveWrites, Goes, Ready
  <2> QED
    BY <2>1, <2>2, <2>3
<1>7. CASE GetNonce
  <2>1. PairingTypeOK'
    BY <1>7 DEF GetNonce, Goes
  <2>2. ClientInv' /\ KeyInHand' /\ CardOnFile' /\ IdentityKept' /\
       PairedIsBound' /\ (SaveFirst => NotTurnedAway)'
    BY <1>7, <2>1 DEF GetNonce, Goes
  <2> QED
    BY <2>1, <2>2
<1>8. CASE RequestFails
  <2>1. PairingTypeOK'
    <3>1. late' = late \/ late' = TRUE
      BY <1>8, Zenon DEF RequestFails, Accepted
    <3>2. late \in BOOLEAN
      OBVIOUS
    <3>3. late' \in BOOLEAN
      <4> HIDE DEF IInv
      <4> QED
        BY <3>1, <3>2
    <3> QED
      BY <1>8, <3>3 DEF RequestFails, Mishap, Goes, Accepted
  <2>2. ClientInv' /\ KeyInHand' /\ CardOnFile' /\ IdentityKept' /\
       PairedIsBound' /\ (SaveFirst => NotTurnedAway)'
    BY <1>8, <2>1 DEF RequestFails, Mishap, Goes, Accepted
  <2> QED
    BY <2>1, <2>2
<1>9. CASE PostAccepted
  <2>1. PairingTypeOK'
    BY <1>9 DEF PostAccepted, Goes, Accepted
  <2>2. ClientInv' /\ KeyInHand' /\ CardOnFile' /\ IdentityKept' /\
       PairedIsBound' /\ (SaveFirst => NotTurnedAway)'
    BY <1>9, <2>1 DEF PostAccepted, Goes, Accepted
  <2> QED
    BY <2>1, <2>2
<1>10. CASE PostConflict
  <2>1. PairingTypeOK'
    <3>1. late' \in BOOLEAN
      BY <1>10 DEF PostConflict
    <3> QED
      BY <1>10, <3>1 DEF PostConflict, Goes
  <2>2. ClientInv' /\ KeyInHand' /\ CardOnFile' /\ IdentityKept' /\
       PairedIsBound' /\ (SaveFirst => NotTurnedAway)'
    BY <1>10, <2>1 DEF PostConflict, Goes
  <2> QED
    BY <2>1, <2>2
<1>11. CASE LateArrives
  <2>1. PairingTypeOK'
    <3>1. late' \in BOOLEAN
      BY <1>11 DEF LateArrives
    <3> QED
      BY <1>11, <3>1 DEF LateArrives
  <2>2. ClientInv' /\ KeyInHand' /\ CardOnFile' /\ IdentityKept' /\
       PairedIsBound' /\ (SaveFirst => NotTurnedAway)'
    BY <1>11, <2>1 DEF LateArrives
  <2> QED
    BY <2>1, <2>2
<1>12. CASE OpenBrowser
  <2>1. PairingTypeOK'
    BY <1>12 DEF OpenBrowser, Goes
  <2>2. ClientInv' /\ KeyInHand' /\ CardOnFile' /\ IdentityKept' /\
       PairedIsBound' /\ (SaveFirst => NotTurnedAway)'
    BY <1>12, <2>1 DEF OpenBrowser, Goes
  <2> QED
    BY <2>1, <2>2
<1>13. CASE Confirm
  <2>1. PairingTypeOK'
    <3>1. device' \in BOOLEAN
      BY <1>13 DEF Confirm
    <3>2. card \in Keys
      BY <1>13 DEF Confirm, CardEnds
    <3>3. bound' \subseteq Keys
      BY <1>13, <3>2 DEF Confirm
    <3>4. filed' \in {filed, NoKey} /\ card' = NoKey
      BY <1>13 DEF Confirm, CardEnds
    <3> QED
      BY <1>13, <3>1, <3>3, <3>4 DEF Confirm
  <2>2. KeyInHand'
    <3>1. device' <=> key' \in bound'
      BY <1>13 DEF Confirm
    <3> QED
      BY <1>13, <3>1 DEF Confirm, CardEnds
  <2>3. ClientInv' /\ CardOnFile' /\ IdentityKept' /\ PairedIsBound' /\
       (SaveFirst => NotTurnedAway)'
    BY <1>13, <2>1 DEF Confirm, CardEnds
  <2> QED
    BY <2>1, <2>2, <2>3
<1>14. CASE Expire
  <2>1. PairingTypeOK'
    BY <1>14 DEF Expire, CardEnds
  <2>2. ClientInv' /\ KeyInHand' /\ CardOnFile' /\ IdentityKept' /\
       PairedIsBound' /\ (SaveFirst => NotTurnedAway)'
    BY <1>14, <2>1 DEF Expire, CardEnds
  <2> QED
    BY <2>1, <2>2
<1>15. CASE Renew
  <2>1. PairingTypeOK'
    <3>1. late' \in BOOLEAN
      BY <1>15 DEF Renew
    <3> QED
      BY <1>15, <3>1 DEF Renew, Goes
  <2>2. ClientInv' /\ KeyInHand' /\ CardOnFile' /\ IdentityKept' /\
       PairedIsBound' /\ (SaveFirst => NotTurnedAway)'
    BY <1>15, <2>1 DEF Renew, Goes
  <2> QED
    BY <2>1, <2>2
<1>16. CASE Learn
  <2>1. PairingTypeOK'
    BY <1>16 DEF Learn, Goes
  <2>2. KeyInHand'
    <3>1. device' <=> key' \in bound'
      BY <1>16 DEF Learn
    <3> QED
      BY <1>16, <3>1 DEF Learn, Goes
  <2>3. ClientInv' /\ CardOnFile' /\ IdentityKept' /\ PairedIsBound' /\
       (SaveFirst => NotTurnedAway)'
    BY <1>16, <2>1 DEF Learn, Goes
  <2> QED
    BY <2>1, <2>2, <2>3
<1>17. CASE RunClient
  <2>1. PairingTypeOK'
    BY <1>17 DEF RunClient, Goes
  <2>2. ClientInv' /\ KeyInHand' /\ CardOnFile' /\ IdentityKept' /\
       PairedIsBound' /\ (SaveFirst => NotTurnedAway)'
    BY <1>17, <2>1 DEF RunClient, Goes
  <2> QED
    BY <2>1, <2>2
<1>18. CASE RevokePairing
  <2>1. PairingTypeOK'
    <3>1. {device', revoked'} \subseteq BOOLEAN
      BY <1>18 DEF RevokePairing, Revoke
    <3> QED
      BY <1>18, <3>1 DEF RevokePairing, Revoke, Trouble
  <2>2. ClientInv' /\ KeyInHand' /\ CardOnFile' /\ IdentityKept' /\
       PairedIsBound' /\ (SaveFirst => NotTurnedAway)'
    BY <1>18, <2>1 DEF RevokePairing, Revoke, Trouble
  <2> QED
    BY <2>1, <2>2
<1>19. CASE RemoveKeyFile
  <2>1. PairingTypeOK'
    BY <1>19 DEF RemoveKeyFile
  <2>2. ClientInv' /\ KeyInHand' /\ CardOnFile' /\ IdentityKept' /\
       PairedIsBound' /\ (SaveFirst => NotTurnedAway)'
    BY <1>19, <2>1 DEF RemoveKeyFile
  <2> QED
    BY <2>1, <2>2
<1>20. CASE Crash
  BY <1>20, DiesKeeps DEF Crash
<1>21. CASE LoadKeyRaises
  BY <1>21, DiesKeeps DEF LoadKeyRaises
<1>22. CASE BadBody
  BY <1>22, DiesKeeps DEF BadBody, Mishap
<1>23. CASE Serve
  BY <1>23, ServeKeeps
<1>24. CASE UNCHANGED allVars
  BY <1>24 DEF allVars
<1> HIDE DEF IInv
<1> QED
  BY <1>1, <1>2, <1>3, <1>4, <1>5, <1>6, <1>7, <1>8, <1>9, <1>10, <1>11, <1>12, <1>13,
    <1>14, <1>15, <1>16, <1>17, <1>18, <1>19, <1>20, <1>21, <1>22, <1>23, <1>24 DEF
    PairingNext, Pair

-------------------------------------------------------------------------------
\* An engine that was never started: no files, and nobody has heard of a key.
LEMMA InitEstablishes ==
  ASSUME PairingInit
  PROVE  IInv
<1> USE StartsAssumption, CountsAssumption DEF PairingInit
<1>1. TypeOK
  <2>1. {paired, device} \subseteq BOOLEAN
    OBVIOUS
  <2> QED
    BY <2>1 DEF TypeOK, Ended
<1>2. PairingTypeOK
  <2>1. /\ {removed, revoked} \subseteq BOOLEAN
        /\ named \in BOOLEAN
        /\ late \in BOOLEAN
    OBVIOUS
  <2> QED
    BY <1>1, <2>1 DEF PairingTypeOK, Stages, NoKey, NoFile
<1>3. ClientInv
  BY <1>1 DEF ClientInv, OneLink, LinkServed, NotClosed, FailuresBelow
<1>4. KeyInHand /\ CardOnFile
  BY DEF KeyInHand, CardOnFile, KeyChosen
<1>5. IdentityKept
  BY DEF IdentityKept, Traces, KeyChosen, KeySaved, NoKey
<1>6. PairedIsBound
  BY DEF PairedIsBound, NoFile
<1>7. SaveFirst => NotTurnedAway
  BY DEF NotTurnedAway
<1> QED
  BY <1>2, <1>3, <1>4, <1>5, <1>6, <1>7 DEF IInv

\* Every state the engine, its files and the service get into satisfies IInv.
THEOREM Invariant == PairingSpec => []IInv
<1>1. PairingInit => IInv
  BY InitEstablishes
<1>2. IInv /\ [PairingNext]_allVars => IInv'
  BY StepPreserves
<1> QED
  BY <1>1, <1>2, PTL DEF PairingSpec

\* Type correctness of the engine's identity, the service and the client.
THEOREM PairingTyped == PairingSpec => []PairingTypeOK
<1>1. IInv => PairingTypeOK
  BY DEF IInv
<1> QED
  BY <1>1, Invariant, PTL

\* run() never replaces a connection it has not closed (client.py:118-180), across
\* failures, reconnections and restarts of the engine.
THEOREM OneLinkEver == PairingSpec => []OneLink
<1>1. IInv => OneLink
  BY DEF IInv, ClientInv
<1> QED
  BY <1>1, Invariant, PTL

\* What emit() sends while the engine is joined goes out on the connection that is
\* joined (client.py:161, 240).
THEOREM LiveChannel == PairingSpec => []EmitsOnLive
<1>1. IInv => EmitsOnLive
  BY DEF IInv, ClientInv, LinkServed, EmitsOnLive, NotClosed
<1> QED
  BY <1>1, Invariant, PTL

\* pair_init_post() returns only when the key in hand is on file (pair_init.py:5),
\* whatever requests and answers were lost or late.
THEOREM PostedIsOnFile == PairingSpec => []CardOnFile
<1>1. IInv => CardOnFile
  BY DEF IInv
<1> QED
  BY <1>1, Invariant, PTL

\* An engine that saves the State before it posts its key keeps its pairing
\* through a crash between any two writes.
THEOREM CrashKeepsPairing == PairingSpec => [](SaveFirst => PairingKept)
<1>1. IInv => (SaveFirst => PairingKept)
  BY DEF IInv, IdentityKept, PairingKept, Traces, KeyNamed
<1> QED
  BY <1>1, Invariant, PTL

\* Such an engine is told 404 only after a revocation or the loss of its key.
THEOREM UnpairedForCause == PairingSpec => [](SaveFirst => NotTurnedAway)
<1>1. IInv => (SaveFirst => NotTurnedAway)
  BY DEF IInv
<1> QED
  BY <1>1, Invariant, PTL
===============================================================================
