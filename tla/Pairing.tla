------------------------------- MODULE Pairing -------------------------------
(***************************************************************************)
(* The identity of the engine, from its key file to the signaling client:  *)
(* pairing/ed25519.py, pairing/pair_init.py, pairing/code.py, State.load   *)
(* and State.save, and then SignalingClient with the key and the State     *)
(* that came of it.                                                        *)
(*                                                                         *)
(* The "engine state machine" (pair_init.py:18) that calls these functions *)
(* is not in the repository; stage says which of them it is in.  What it   *)
(* does between them is external, and follows their docstrings: it saves   *)
(* the State that load_or_generate changed, posts the code until the       *)
(* frontend has it, with a fresh one after a 409, opens the pair page,     *)
(* and runs the client once the State is paired.                           *)
(*                                                                         *)
(* Keys are numbered in the order they are generated, and a fresh pairing  *)
(* code is one nobody has seen, so that only the code in hand and the one  *)
(* in the browser matter.                                                  *)
(***************************************************************************)
EXTENDS SignalingClient

CONSTANTS
  MaxStarts,      \* bound of the model: processes started
  SaveFirst,      \* is the State saved before its key is posted, or only when
                  \* the pairing is known?
  PairingFaults   \* "crash", "http", "body", "remove"

ASSUME StartsAssumption == MaxStarts \in Nat \ {0}
ASSUME SaveFirstAssumption == SaveFirst \in BOOLEAN
ASSUME PairingFaultsAssumption == PairingFaults \subseteq {"crash", "http", "body", "remove"}

VARIABLES
  stage,      \* what the engine is about to do
  named,      \* keypair_path of the State object is set
  key,        \* the SigningKey in hand
  keyFile,    \* keypair.bin
  stateFile,  \* state.json: keypair_path and paired_user_id
  filed,      \* the frontend API: the key on file under the code in hand
  card,       \* the key on file under the code the browser shows
  late,       \* a POST with the code in hand that timed out may still arrive
  bound,      \* the token service: keys of paired devices
  made,       \* keys generated so far
  starts,     \* bound: processes started so far
  removed,    \* history: somebody deleted keypair.bin
  revoked     \* history: somebody revoked a pairing

files == <<keyFile, stateFile>>
service == <<filed, card, late, bound>>
past == <<made, starts, removed, revoked>>
client == <<pc, failures, step, link, channel, ka, shown, leaked>>
identity == <<stage, named, key, files, service, past>>
allVars == <<vars, identity>>

NoKey == 0
Cut == -1  \* keypair.bin after it was emptied and before it was written
Keys == 1 .. MaxStarts

Json(n, p) == [text |-> "json", named |-> n, paired |-> p]
NoFile == [text |-> "none", named |-> FALSE, paired |-> FALSE]
CutFile == [text |-> "cut", named |-> FALSE, paired |-> FALSE]

Stages == {"off", "key", "write", "save", "saving", "nonce", "post", "show", "shown",
           "serve", "serving"}

PairingTypeOK ==
  /\ TypeOK
  /\ stage \in Stages
  /\ named \in BOOLEAN
  /\ key \in Keys \cup {NoKey}
  /\ keyFile \in Keys \cup {NoKey, Cut}
  /\ stateFile \in {Json(n, p) : n, p \in BOOLEAN} \cup {NoFile, CutFile}
  /\ {filed, card} \subseteq Keys \cup {NoKey}
  /\ late \in BOOLEAN
  /\ bound \subseteq Keys
  /\ made \in 0 .. MaxStarts
  /\ starts \in 0 .. MaxStarts
  /\ {removed, revoked} \subseteq BOOLEAN

PairingInit ==
  /\ pc = "cancelled"
  /\ failures = 0
  /\ step = 0
  /\ link = "none"
  /\ channel = "none"
  /\ ka = "none"
  /\ shown = "offline"
  /\ leaked = 0
  /\ paired = FALSE
  /\ device = FALSE
  /\ troubles = 0
  /\ stage = "off"
  /\ named = FALSE
  /\ key = NoKey
  /\ keyFile = NoKey
  /\ stateFile = NoFile
  /\ filed = NoKey
  /\ card = NoKey
  /\ late = FALSE
  /\ bound = {}
  /\ made = 0
  /\ starts = 0
  /\ removed = FALSE
  /\ revoked = FALSE

-------------------------------------------------------------------------------
Goes(from, to) ==
  /\ stage = from
  /\ stage' = to

Mishap(fault) ==
  /\ fault \in PairingFaults
  /\ troubles < MaxTroubles
  /\ troubles' = troubles + 1

\* An engine with its key: a paired one runs the client, another one pairs.
Ready == IF paired THEN "serve" ELSE "nonce"

\* The process ends: memory is gone, files and the service stay.  A POST that
\* arrives now puts a code on file that nobody will ever see.
Dies ==
  /\ stage' = "off"
  /\ named' = FALSE
  /\ paired' = FALSE
  /\ key' = NoKey
  /\ device' = FALSE
  /\ filed' = NoKey
  /\ late' = FALSE
  /\ pc' = "cancelled"
  /\ link' = "none"
  /\ channel' = "none"
  /\ ka' = "none"
  /\ shown' = "offline"
  /\ failures' = 0
  /\ step' = 0
  /\ leaked' = 0
  /\ UNCHANGED <<files, card, bound, past>>

Crash ==
  /\ "crash" \in PairingFaults
  /\ stage # "off"
  /\ Dies
  /\ UNCHANGED troubles

(***************************************************************************)
(* The State object and the key.                                           *)
(***************************************************************************)

\* State.load(): a state.json that was cut is no JSON, and raises.
Boot ==
  /\ Goes("off", "key")
  /\ starts < MaxStarts
  /\ stateFile.text # "cut"
  /\ named' = stateFile.named
  /\ paired' = stateFile.paired
  /\ starts' = starts + 1
  /\ UNCHANGED <<client, device, troubles, key, files, service, made, removed, revoked>>

SignWith(k) ==
  /\ key' = k
  /\ device' = (k \in bound)

\* Mutant: the key that is there is not looked for.
KeyExists_Never == FALSE

KeyExists == named /\ keyFile # NoKey

LoadKey ==
  /\ KeyExists
  /\ keyFile # Cut
  /\ Goes("key", Ready)
  /\ SignWith(keyFile)
  /\ UNCHANGED <<client, paired, troubles, named, files, service, past>>

\* ValueError: not 32 bytes.
LoadKeyRaises ==
  /\ stage = "key"
  /\ KeyExists
  /\ keyFile = Cut
  /\ Dies
  /\ UNCHANGED troubles

\* write_bytes() empties keypair.bin when it opens it ...
GenerateOpens ==
  /\ ~KeyExists
  /\ Goes("key", "write")
  /\ made' = made + 1
  /\ SignWith(made')
  /\ keyFile' = Cut
  /\ UNCHANGED <<client, paired, troubles, named, stateFile, service, starts, removed, revoked>>

\* ... and writes it; then the State object names it.
GenerateWrites ==
  /\ Goes("write", IF SaveFirst THEN "save" ELSE Ready)
  /\ keyFile' = key
  /\ named' = TRUE
  /\ UNCHANGED <<client, paired, device, troubles, key, stateFile, service, past>>

\* State.save(): write_text() empties the file when it opens it ...
SaveOpens ==
  /\ Goes("save", "saving")
  /\ stateFile' = CutFile
  /\ UNCHANGED <<vars, named, key, keyFile, service, past>>

\* ... and writes it.
SaveWrites ==
  /\ Goes("saving", Ready)
  /\ stateFile' = Json(named, paired)
  /\ UNCHANGED <<vars, named, key, keyFile, service, past>>

-------------------------------------------------------------------------------
(***************************************************************************)
(* pair_init_post()                                                        *)
(***************************************************************************)
GetNonce ==
  /\ Goes("nonce", "post")
  /\ UNCHANGED <<vars, named, key, files, service, past>>

\* The frontend API takes a code that nobody has claimed.
Accepted ==
  /\ filed = NoKey
  /\ filed' = key

\* Mutant: a POST that failed is not told from one that was answered.
RequestFails_Swallowed ==
  /\ Mishap("http")
  /\ \/ /\ Goes("nonce", "nonce")
        /\ UNCHANGED <<filed, late>>
     \/ /\ Goes("post", "show")
        /\ \/ UNCHANGED <<filed, late>>
           \/ Accepted /\ UNCHANGED late
           \/ late' = TRUE /\ UNCHANGED filed
  /\ UNCHANGED <<client, paired, device, named, key, files, card, bound, past>>

\* PairInitError: no connection, a timeout, an error status.  Of a POST the
\* request may be lost, or the answer, or the request only comes late.  The
\* engine tries again with the code it has.
RequestFails ==
  /\ Mishap("http")
  /\ \/ /\ Goes("nonce", "nonce")
        /\ UNCHANGED <<filed, late>>
     \/ /\ Goes("post", "nonce")
        /\ \/ UNCHANGED <<filed, late>>
           \/ Accepted /\ UNCHANGED late
           \/ late' = TRUE /\ UNCHANGED filed
  /\ UNCHANGED <<client, paired, device, named, key, files, card, bound, past>>

\* What json.loads() raises for a body that is no JSON is not a PairInitError:
\* nothing says that the engine catches it.
BadBody ==
  /\ stage = "nonce"
  /\ Mishap("body")
  /\ Dies

PostAccepted ==
  /\ Goes("post", "show")
  /\ Accepted
  /\ UNCHANGED <<vars, named, key, files, card, late, bound, past>>

\* Mutant: 409 is an error like any other, and the code is tried again.
PostConflict_SameCode ==
  /\ filed # NoKey
  /\ Goes("post", "nonce")
  /\ UNCHANGED <<vars, named, key, files, service, past>>

\* 409, PairCodeConflictError: the code is claimed, be it by an earlier POST of
\* this engine whose answer was lost.  generate_pairing_code() draws another.
PostConflict ==
  /\ filed # NoKey
  /\ Goes("post", "nonce")
  /\ filed' = NoKey
  /\ late' = FALSE
  /\ UNCHANGED <<vars, named, key, files, card, bound, past>>

LateArrives ==
  /\ late
  /\ late' = FALSE
  /\ filed' = IF filed = NoKey THEN key ELSE filed
  /\ UNCHANGED <<vars, stage, named, key, files, card, bound, past>>

-------------------------------------------------------------------------------
(***************************************************************************)
(* The pair page, its user, and what the engine does about it.             *)
(***************************************************************************)
OpenBrowser ==
  /\ Goes("show", "shown")
  /\ card' = filed
  /\ UNCHANGED <<vars, named, key, files, filed, late, bound, past>>

\* The code of the card is used up, or too old.
CardEnds ==
  /\ card # NoKey
  /\ card' = NoKey
  /\ filed' = IF stage = "shown" THEN NoKey ELSE filed

\* The user pairs what the card shows, whether or not that engine still runs.
Confirm ==
  /\ CardEnds
  /\ bound' = bound \cup {card}
  /\ device' = (key \in bound')
  /\ UNCHANGED <<client, paired, troubles, stage, named, key, files, late, past>>

Expire ==
  /\ CardEnds
  /\ UNCHANGED <<vars, stage, named, key, files, late, bound, past>>

\* The card is void and the engine not paired: another code.
Renew ==
  /\ card = NoKey
  /\ ~device
  /\ Goes("shown", "nonce")
  /\ filed' = NoKey
  /\ late' = FALSE
  /\ UNCHANGED <<vars, named, key, files, card, bound, past>>

\* paired_user_id is set, and saved.
Learn ==
  /\ device
  /\ Goes("shown", "save")
  /\ paired' = TRUE
  /\ UNCHANGED <<client, device, troubles, named, key, files, service, past>>

\* EngineSignalingClient(...).run()
RunClient ==
  /\ Goes("serve", "serving")
  /\ pc' = "token"
  /\ shown' = "reconnecting"
  /\ UNCHANGED <<failures, step, link, channel, ka, paired, device, leaked, troubles,
                 named, key, files, service, past>>

Serve ==
  /\ stage = "serving"
  /\ Run \/ DeclareDead \/ DeclareAlone \/ PingRaises \/ LinkLost \/ Cancel
  /\ UNCHANGED identity

RevokePairing ==
  /\ Revoke
  /\ bound' = bound \ {key}
  /\ revoked' = TRUE
  /\ UNCHANGED <<stage, named, key, files, filed, card, late, made, starts, removed>>

\* A file of the configuration directory is deleted while the engine is off.
RemoveKeyFile ==
  /\ "remove" \in PairingFaults
  /\ stage = "off"
  /\ keyFile # NoKey
  /\ keyFile' = NoKey
  /\ removed' = TRUE
  /\ UNCHANGED <<vars, stage, named, key, stateFile, service, made, starts, revoked>>

-------------------------------------------------------------------------------
Pair ==
  \/ LoadKey \/ LoadKeyRaises \/ GenerateOpens \/ GenerateWrites
  \/ SaveOpens \/ SaveWrites
  \/ GetNonce \/ RequestFails \/ PostAccepted \/ PostConflict
  \/ OpenBrowser \/ RunClient

PairingNext ==
  \/ Boot \/ Pair \/ BadBody \/ LateArrives
  \/ Confirm \/ Expire \/ Renew \/ Learn
  \/ Serve \/ RevokePairing \/ RemoveKeyFile \/ Crash

PairingSpec == PairingInit /\ [][PairingNext]_allVars

\* The engine goes on with what it is doing, and so does the client.
PairingLive ==
  /\ PairingSpec
  /\ WF_allVars(Pair)
  /\ WF_allVars(stage = "serving" /\ Run /\ UNCHANGED identity)
  /\ WF_allVars(stage = "serving" /\ DeclareDead /\ UNCHANGED identity)

\* A download thread of the first launch still holds the State object that was
\* loaded before there was a key (__main__.py:83), and saves all of it.
StaleSave ==
  /\ starts = 1
  /\ stage # "off"
  /\ stateFile.text = "json"
  /\ stateFile' = Json(FALSE, FALSE)
  /\ UNCHANGED <<vars, stage, named, key, keyFile, service, past>>

SpecWithPicker == PairingInit /\ [][PairingNext \/ StaleSave]_allVars

-------------------------------------------------------------------------------
(***************************************************************************)
(* Properties.                                                             *)
(***************************************************************************)

\* pair_init.py:5: the server has code and public key on file before the user
\* sees the pair card.
CardOnFile == stage = "show" => filed = key

\* A pairing survives crashes between any two writes: as long as nobody deletes
\* it, keypair.bin is the key the service has paired, and state.json names it,
\* unless its last save was cut.
PairingKept ==
  \A k \in bound :
    ~removed => keyFile = k /\ (stateFile.text = "cut" \/ stateFile.named)

\* An engine that was paired is told that it is not (404, "device_not_found")
\* only when somebody revoked the pairing or deleted the key.
NotTurnedAway ==
  pc = "unpaired" /\ failures < MaxTokenFailures => revoked \/ removed

\* Whatever becomes of requests and answers, while failures are finitely many:
\* an engine that was started shows its card, or runs its client, or ends.
PairingProceeds ==
  stage \in {"key", "write", "save", "saving", "nonce", "post", "show"}
    ~> stage \in {"shown", "serve", "serving", "off"}

\* token.py:66 of the 404: "Caller MUST clear state.paired_user_id and
\* state.signaling, save state".
UnpairedIsSaved == pc = "unpaired" ~> ~stateFile.paired
===============================================================================
