---------------------------- MODULE SignalingClient ----------------------------
(***************************************************************************)
(* signaling/client.py: EngineSignalingClient.run() with its token fetch   *)
(* (token.py), its backoff (reconnect.py) and its watchdog (Keepalive,     *)
(* here without time).  pc is the await run() is in.  The token service    *)
(* and the Realtime server are external.                                   *)
(***************************************************************************)
EXTENDS Integers

CONSTANTS
  MaxTokenFailures,  \* _MAX_TOKEN_FAILURES
  CurveLength,       \* the number of different delays in _CURVE
  MaxTroubles,       \* bound of the model: failures the environment causes
  Faults             \* which failures those are

ASSUME CountsAssumption ==
  /\ {MaxTokenFailures, CurveLength} \subseteq Nat \ {0}
  /\ MaxTroubles \in Nat
ASSUME ClientFaultsAssumption ==
  Faults \subseteq
    {"token", "connect", "reject", "drop", "alone", "revoke", "route", "raise", "cancel"}

VARIABLES
  pc,        \* the await run() is in, or how it ended
  failures,  \* consecutive_token_failures
  step,      \* the delay the backoff iterator yields next, counted from 0
  link,      \* the connection of _rt_client
  channel,   \* _channel: None, of the connection in link, or of an earlier one
  ka,        \* the task of _keepalive
  shown,     \* the last on_state_change
  paired,    \* paired_user_id and signaling of the State object are set
  device,    \* the token service knows the engine's key
  leaked,    \* history: connections replaced before they were closed
  troubles   \* failures so far

vars == <<pc, failures, step, link, channel, ka, shown, paired, device, leaked, troubles>>

Ended == {"unpaired", "cancelled"}

TypeOK ==
  /\ pc \in {"token", "connect", "subscribe", "hello", "park", "backoff"} \cup Ended
  /\ failures \in 0..MaxTokenFailures
  /\ step \in 0..CurveLength
  /\ link \in {"none", "opened", "joined", "lost", "closed"}
  /\ channel \in {"none", "current", "stale"}
  /\ ka \in {"none", "running", "fired", "raised", "stopped"}
  /\ shown \in {"reconnecting", "connected", "offline"}
  /\ {paired, device} \subseteq BOOLEAN
  /\ leaked \in Nat
  /\ troubles \in 0..MaxTroubles

Init ==
  /\ pc = "token"
  /\ failures = 0
  /\ step = 0
  /\ link = "none"
  /\ channel = "none"
  /\ ka = "none"
  /\ shown = "reconnecting"
  /\ paired = TRUE
  /\ device = TRUE
  /\ leaked = 0
  /\ troubles = 0

\* Sockets the engine has not closed, whatever became of the other end.
NotClosed == {"opened", "joined", "lost"}

Trouble(fault) ==
  /\ fault \in Faults
  /\ troubles < MaxTroubles
  /\ troubles' = troubles + 1

\* Mutant: the iterator steps past the end of the curve.
BackOff_PastCurve ==
  /\ pc' = "backoff"
  /\ step' = step + 1

\* asyncio.sleep(next(delays))
BackOff ==
  /\ pc' = "backoff"
  /\ step' = IF step < CurveLength THEN step + 1 ELSE step

-------------------------------------------------------------------------------
(***************************************************************************)
(* The token fetch.                                                        *)
(***************************************************************************)

\* AsyncRealtimeClient(...) becomes _rt_client; _channel stays what it was.
FetchToken ==
  /\ pc = "token"
  /\ device
  /\ pc' = "connect"
  /\ failures' = 0
  /\ link' = "none"
  /\ leaked' = IF link \in NotClosed THEN leaked + 1 ELSE leaked
  /\ channel' = IF channel = "none" THEN "none" ELSE "stale"
  /\ UNCHANGED <<step, ka, shown, paired, device, troubles>>

\* on_state_change("offline"), _clear_pairing(), UnpairedExit
ExitUnpaired ==
  /\ pc' = "unpaired"
  /\ shown' = "offline"
  /\ paired' = FALSE
  /\ channel' = "none"
  /\ UNCHANGED <<step, link, ka, device, leaked>>

\* HTTP 404: EngineUnpairedError
FetchFindsUnpaired ==
  /\ pc = "token"
  /\ ~device
  /\ ExitUnpaired
  /\ UNCHANGED <<failures, troubles>>

\* Mutant: any failure of the fetch is taken for a device that is not known.
FetchFails_Unpairs ==
  /\ pc = "token"
  /\ Trouble("token")
  /\ ExitUnpaired
  /\ UNCHANGED failures

\* Any other exception of the fetch: the network, 401, 429, 5xx, a bad body.
FetchFails ==
  /\ pc = "token"
  /\ Trouble("token")
  /\ failures' = failures + 1
  /\ \/ /\ failures' >= MaxTokenFailures
        /\ ExitUnpaired
     \/ /\ failures' < MaxTokenFailures
        /\ BackOff
        /\ UNCHANGED <<link, channel, ka, shown, paired, device, leaked>>

\* Mutant: the iterator ends with the curve, and the loop with it.
BackoffEnds_Finite ==
  /\ pc = "backoff"
  /\ step < CurveLength
  /\ pc' = "token"
  /\ shown' = "reconnecting"
  /\ UNCHANGED <<failures, step, link, channel, ka, paired, device, leaked, troubles>>

\* The loop starts over after the sleep.
BackoffEnds ==
  /\ pc = "backoff"
  /\ pc' = "token"
  /\ shown' = "reconnecting"
  /\ UNCHANGED <<failures, step, link, channel, ka, paired, device, leaked, troubles>>

-------------------------------------------------------------------------------
(***************************************************************************)
(* The connection.                                                         *)
(***************************************************************************)

\* Mutant: a channel that is already there is kept.
Connect_KeepsChannel ==
  /\ pc = "connect"
  /\ pc' = "subscribe"
  /\ link' = "opened"
  /\ channel' = IF channel = "none" THEN "current" ELSE channel
  /\ UNCHANGED <<failures, step, ka, shown, paired, device, leaked, troubles>>

\* connect() returned: _channel is set before it is subscribed.
Connect ==
  /\ pc = "connect"
  /\ pc' = "subscribe"
  /\ link' = "opened"
  /\ channel' = "current"
  /\ UNCHANGED <<failures, step, ka, shown, paired, device, leaked, troubles>>

\* Mutant: the socket of a failed attempt is not closed.
AttemptFails_LeavesOpen ==
  /\ pc \in {"connect", "subscribe"}
  /\ Trouble("connect")
  /\ BackOff
  /\ UNCHANGED <<failures, link, channel, ka, shown, paired, device, leaked>>

\* connect() or subscribe() raised.
AttemptFails ==
  /\ pc \in {"connect", "subscribe"}
  /\ Trouble("connect")
  /\ BackOff
  /\ link' = "closed"
  /\ UNCHANGED <<failures, channel, ka, shown, paired, device, leaked>>

\* subscribe() returned.  That the server joined the channel is told to
\* _on_subscribe, which only logs when it did not.
Subscribe ==
  /\ pc = "subscribe"
  /\ pc' = "hello"
  /\ step' = 0
  /\ shown' = "connected"
  /\ \/ link = "opened" /\ link' = "joined" /\ UNCHANGED troubles
     \/ Trouble("reject") /\ UNCHANGED link
     \/ link = "lost" /\ UNCHANGED <<link, troubles>>
  /\ UNCHANGED <<failures, channel, ka, paired, device, leaked>>

\* The hello was sent, or raised and was logged; the watchdog starts.
SayHello ==
  /\ pc = "hello"
  /\ pc' = "park"
  /\ ka' = "running"
  /\ UNCHANGED <<failures, step, link, channel, shown, paired, device, leaked, troubles>>

\* Mutant: the dead link is closed but not shown.
DeclareDead_Unseen ==
  /\ ka = "running"
  /\ link \in {"opened", "lost"}
  /\ ka' = "fired"
  /\ link' = "closed"
  /\ UNCHANGED <<pc, failures, step, channel, shown, paired, device, leaked, troubles>>

\* _on_keepalive_dead: a peer that does not hear the pings sends no pong.
DeclareDead ==
  /\ ka = "running"
  /\ link \in {"opened", "lost"}
  /\ ka' = "fired"
  /\ shown' = "reconnecting"
  /\ link' = "closed"
  /\ UNCHANGED <<pc, failures, step, channel, paired, device, leaked, troubles>>

\* A pong is a broadcast of a page on the channel: with no page open, the
\* watchdog takes a link that works for a dead one.
DeclareAlone ==
  /\ Trouble("alone")
  /\ ka = "running"
  /\ link = "joined"
  /\ ka' = "fired"
  /\ shown' = "reconnecting"
  /\ link' = "closed"
  /\ UNCHANGED <<pc, failures, step, channel, paired, device, leaked>>

\* The ping raised: the watchdog's task is over.
PingRaises ==
  /\ Trouble("raise")
  /\ ka = "running"
  /\ link = "lost"
  /\ ka' = "raised"
  /\ UNCHANGED <<pc, failures, step, link, channel, shown, paired, device, leaked>>

LinkLost ==
  /\ Trouble("drop")
  /\ link \in {"opened", "joined"}
  /\ link' = "lost"
  /\ UNCHANGED <<pc, failures, step, channel, ka, shown, paired, device, leaked>>

Revoke ==
  /\ Trouble("revoke")
  /\ device
  /\ device' = FALSE
  /\ UNCHANGED <<pc, failures, step, link, channel, ka, shown, paired, leaked>>

\* The task of run() is cancelled; only the park loop cleans up.
Cancel ==
  /\ "cancel" \in Faults
  /\ pc \in {"connect", "subscribe", "hello", "park", "backoff"}
  /\ pc' = "cancelled"
  /\ \/ /\ pc = "park"
        /\ ka' = IF ka = "running" THEN "stopped" ELSE ka
        /\ link' = "closed"
     \/ pc # "park" /\ UNCHANGED <<ka, link>>
  /\ UNCHANGED <<failures, step, channel, shown, paired, device, leaked, troubles>>

-------------------------------------------------------------------------------
Run ==
  \/ FetchToken \/ FetchFindsUnpaired \/ FetchFails \/ BackoffEnds
  \/ Connect \/ AttemptFails \/ Subscribe \/ SayHello

Next ==
  Run \/ DeclareDead \/ DeclareAlone \/ PingRaises \/ LinkLost \/ Revoke \/ Cancel

\* run() goes on whenever its await has returned (the sleeps, the HTTP and the
\* socket calls have timeouts), and a silent link is noticed by the watchdog
\* (Keepalive!DeathDetected) unless its task ended.
Fairness == WF_vars(Run) /\ WF_vars(DeclareDead)

Spec == Init /\ [][Next]_vars
LiveSpec == Spec /\ Fairness

\* A 404 that is not "device_not_found", of a route that is away for a moment:
\* token.py:191 asks for the status alone.
FetchFindsNoRoute ==
  /\ pc = "token"
  /\ Trouble("route")
  /\ ExitUnpaired
  /\ UNCHANGED failures

SpecWithRoute == Init /\ [][Next \/ FetchFindsNoRoute]_vars

-------------------------------------------------------------------------------
\* Every connection is closed before another takes its place: no socket goes on
\* receiving offers next to the one the engine uses.
OneLink == leaked = 0

\* What emit() sends while the engine is joined goes out on the connection that is
\* joined, however many attempts have set _channel before.
EmitsOnLive == link = "joined" => channel = "current"

\* An attempt to connect comes to an end however many of its steps fail: the
\* engine subscribes, or run() ends (D-09, while failures are finitely many).
RetryEnds == pc \notin {"park"} \cup Ended ~> pc \in {"park"} \cup Ended

\* The tray does not go on saying "connected" on a link nobody serves, as long as
\* the task of the watchdog lives.
ShownLinkServed ==
  shown = "connected" /\ link # "joined"
    ~> shown # "connected" \/ pc = "cancelled" \/ ka = "raised"

\* client.py:107 of run(): "Reconnects on any error using exponential backoff
\* (D-09)."
ReconnectsAfterLoss == link = "lost" ~> link = "joined" \/ pc \in Ended

\* keepalive.py:4 calls a connection dead that has no pong for 50s: one that works
\* is closed only when run() ends.
WorkingLinkKept == [][link = "joined" /\ link' = "closed" => pc' \in Ended]_vars

\* client.py:50: "Raised by run() when the engine is confirmed unpaired."
UnpairedIsConfirmed == pc = "unpaired" => ~device

\* client.py:240 of emit(): "No-op if channel is not currently subscribed."
EmitNeedsSubscription == channel # "none" => link = "joined"
===============================================================================
