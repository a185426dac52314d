------------------------------- MODULE Keepalive -------------------------------
(***************************************************************************)
(* signaling/keepalive.py: the ping/pong watchdog of one connection, in    *)
(* discrete time.  Ages and intervals are counted in ticks of an arbitrary *)
(* length; a deadline is a bound past which time does not advance.         *)
(*                                                                         *)
(* The peer's side (a pong for every ping) and the latencies are the       *)
(* environment's: the loop resumes a sleeper at most Late after its time,  *)
(* send_ping returns within SendMax, a pong arrives within RoundTrip of    *)
(* the ping.                                                               *)
(***************************************************************************)
EXTENDS Integers

CONSTANTS
  PingInterval,  \* ping_interval
  DeadAfter,     \* dead_after
  Late, SendMax, RoundTrip,
  Faults         \* "down": the link dies; "raise": send_ping may then raise

ASSUME DurationsAssumption ==
  /\ {PingInterval, DeadAfter, Late, SendMax, RoundTrip} \subseteq Nat
  /\ PingInterval > 0
ASSUME KeepaliveFaultsAssumption == Faults \subseteq {"down", "raise"}

VARIABLES
  pc,     \* where _run is
  slept,  \* time in sleep(), then in send_ping() as well
  since,  \* monotonic() - _last_pong
  pongs,  \* ages of the pongs that are under way
  fired,  \* _dead_fired
  link,   \* does the peer hear the pings?
  silent, \* history: time since the last pong, or since start()
  deaths  \* history: calls of on_dead

vars == <<pc, slept, since, pongs, fired, link, silent, deaths>>

\* A watchdog that works calls on_dead before this much time without a pong.
Bound == DeadAfter + PingInterval + Late + SendMax

TypeOK ==
  /\ pc \in {"idle", "sleep", "sending", "calling", "returned", "raised", "stopped"}
  /\ slept \in Nat
  /\ since \in Nat
  /\ pongs \in SUBSET Nat
  /\ fired \in BOOLEAN
  /\ link \in {"up", "down"}
  /\ silent \in Nat
  /\ deaths \in Nat

Init ==
  /\ pc = "idle"
  /\ slept = 0
  /\ since = 0
  /\ pongs = {}
  /\ fired = FALSE
  /\ link = "up"
  /\ silent = 0
  /\ deaths = 0

\* start(): once for each connection.
Start ==
  /\ pc = "idle"
  /\ pc' = "sleep"
  /\ slept' = 0
  /\ since' = 0
  /\ fired' = FALSE
  /\ UNCHANGED <<pongs, link, silent, deaths>>

\* stop(): the task is cancelled at the await it is in.
Stop ==
  /\ pc \in {"sleep", "sending", "calling"}
  /\ pc' = "stopped"
  /\ UNCHANGED <<slept, since, pongs, fired, link, silent, deaths>>

Wake ==
  /\ pc = "sleep"
  /\ slept >= PingInterval
  /\ pc' = "sending"
  /\ UNCHANGED <<slept, since, pongs, fired, link, silent, deaths>>

\* The peer answers a ping it hears; nothing tells the engine that it did not.
PingOut == pongs' = IF link = "up" THEN pongs \cup {0} ELSE pongs

\* Mutant: the test is not strict.
Expired_AtOnce == since >= DeadAfter

Expired == since > DeadAfter

\* Mutant: a ping that was sent counts as a sign of life.
PingSent_Resets ==
  /\ pc = "sending"
  /\ ~Expired
  /\ PingOut
  /\ pc' = "sleep"
  /\ slept' = 0
  /\ since' = 0
  /\ UNCHANGED <<fired, link, silent, deaths>>

\* send_ping() returned and the pong is not late: sleep again.
PingSent ==
  /\ pc = "sending"
  /\ ~Expired
  /\ PingOut
  /\ pc' = "sleep"
  /\ slept' = 0
  /\ UNCHANGED <<since, fired, link, silent, deaths>>

\* send_ping() returned and the connection is declared dead.
DeclareDead ==
  /\ pc = "sending"
  /\ Expired
  /\ ~fired
  /\ PingOut
  /\ fired' = TRUE
  /\ deaths' = deaths + 1
  /\ pc' = "calling"
  /\ UNCHANGED <<slept, since, link, silent>>

OnDeadReturns ==
  /\ pc = "calling"
  /\ pc' = "returned"
  /\ UNCHANGED <<slept, since, pongs, fired, link, silent, deaths>>

\* The exception ends the task; nobody awaits it.
PingRaises ==
  /\ "raise" \in Faults
  /\ link = "down"
  /\ pc = "sending"
  /\ pc' = "raised"
  /\ UNCHANGED <<slept, since, pongs, fired, link, silent, deaths>>

\* Mutant: the pong is credited to the end of its tick.
PongArrives_Early ==
  /\ \E age \in pongs : pongs' = pongs \ {age}
  /\ since' = -1
  /\ silent' = 0
  /\ UNCHANGED <<pc, slept, fired, link, deaths>>

\* record_pong()
PongArrives ==
  /\ \E age \in pongs : pongs' = pongs \ {age}
  /\ since' = 0
  /\ silent' = 0
  /\ UNCHANGED <<pc, slept, fired, link, deaths>>

LinkDown ==
  /\ "down" \in Faults
  /\ link = "up"
  /\ link' = "down"
  /\ pongs' = {}
  /\ UNCHANGED <<pc, slept, since, fired, silent, deaths>>

\* Time passes unless something is due; it stops mattering past Bound.
Tick ==
  /\ pc # "idle"
  /\ silent <= Bound
  /\ pc = "sleep" => slept < PingInterval + Late
  /\ pc = "sending" => slept < PingInterval + Late + SendMax
  /\ pc # "calling"
  /\ \A age \in pongs : age < RoundTrip
  /\ slept' = IF pc \in {"sleep", "sending"} THEN slept + 1 ELSE slept
  /\ since' = since + 1
  /\ silent' = silent + 1
  /\ pongs' = {age + 1 : age \in pongs}
  /\ UNCHANGED <<pc, fired, link, deaths>>

Next ==
  \/ Start \/ Stop \/ Wake \/ PingSent \/ DeclareDead \/ OnDeadReturns \/ PingRaises
  \/ PongArrives \/ LinkDown \/ Tick

Spec == Init /\ [][Next]_vars

-------------------------------------------------------------------------------
\* A peer that answers every ping before the next one is due, on a loop that is
\* not too late, is never declared dead: the test is strict, and it is made
\* with the pong of the previous ping in.
InTime == RoundTrip < PingInterval /\ PingInterval + Late + SendMax <= DeadAfter

NoFalseDeath == InTime /\ link = "up" => deaths = 0

\* As long as its task lives and stop() is not called, the watchdog calls
\* on_dead at the latest one round of its loop after dead_after without a pong.
WatchdogDetects == silent > Bound /\ pc \notin {"idle", "stopped", "raised"} => deaths > 0

\* The same, of every task that was started.  keepalive.py:3: "if no `pong` is
\* received within 50s, the connection is considered dead and on_dead() is
\* called".
DeathDetected == silent > Bound /\ pc \notin {"idle", "stopped"} => deaths > 0
===============================================================================
