---------------------------- MODULE KeepaliveProofs ----------------------------
(***************************************************************************)
(* The watchdog's type invariant, NoFalseDeath and WatchdogDetects, for    *)
(* every choice of the intervals and latencies.                            *)
(*                                                                         *)
(* Neither property is inductive.  What is measured since the last pong    *)
(* has to be related to slept, the time since the last ping: a round       *)
(* starts with a pong that is not late (RoundsBounded), and on a link that *)
(* is up the pong of the last ping is either in or still under way, and    *)
(* then as old as the round (PongOfRound).                                 *)
(***************************************************************************)
EXTENDS Keepalive, TLAPS

Rounds == {"sleep", "sending"}

\* Where the loop is says how long its round has lasted at most, and at least.
RoundsTimed ==
  /\ pc = "sleep" => slept <= PingInterval + Late
  /\ pc = "sending" => slept >= PingInterval /\ slept <= PingInterval + Late + SendMax

\* A round is not begun with a late pong.
RoundsBounded == pc \in Rounds => since <= DeadAfter + slept

\* A pong that is under way has not been for longer than a round trip.
PongsTimed == \A age \in pongs : age <= RoundTrip

\* The pong of the ping this round began with is in, or it is under way.
PongOfRound == pc \in Rounds /\ link = "up" => since <= slept \/ slept \in pongs

\* The two clocks agree, before start() nothing is counted, and on_dead has been
\* called where the loop has gone past it.
Counted ==
  /\ silent = since
  /\ pc = "idle" => since = 0 /\ pongs = {} /\ deaths = 0
  /\ pc \in {"calling", "returned"} => deaths > 0

IInv ==
  /\ TypeOK
  /\ RoundsTimed
  /\ RoundsBounded
  /\ PongsTimed
  /\ PongOfRound
  /\ Counted
  /\ NoFalseDeath

-------------------------------------------------------------------------------
LEMMA InitEstablishes == Init => IInv
<1> SUFFICES ASSUME Init
             PROVE  IInv
  OBVIOUS
<1> USE DurationsAssumption DEF Init
<1>1. TypeOK
  BY DEF TypeOK
<1>2. RoundsTimed /\ RoundsBounded /\ PongOfRound
  BY DEF Rounds, RoundsTimed, RoundsBounded, PongOfRound
<1>3. PongsTimed /\ Counted /\ NoFalseDeath
  BY DEF PongsTimed, Counted, NoFalseDeath
<1> QED
  BY <1>1, <1>2, <1>3 DEF IInv

LEMMA StepPreserves ==
  ASSUME IInv, [Next]_vars
  PROVE  IInv'
<1> USE DurationsAssumption DEF IInv, TypeOK, Rounds, RoundsTimed, RoundsBounded, PongsTimed,
      PongOfRound, Counted
<1>1. CASE Start
  <2>1. TypeOK'
    BY <1>1 DEF Start
  <2>2. RoundsTimed' /\ RoundsBounded'
    BY <1>1 DEF Start
  <2>3. PongsTimed' /\ PongOfRound'
    BY <1>1 DEF Start
  <2>4. Counted' /\ NoFalseDeath'
    BY <1>1 DEF Start, NoFalseDeath
  <2> QED
    BY <2>1, <2>2, <2>3, <2>4
<1>2. CASE Stop
  BY <1>2 DEF Stop, NoFalseDeath
<1>3. CASE Wake
  BY <1>3 DEF Wake, NoFalseDeath
<1>4. CASE PingSent
  BY <1>4 DEF PingSent, PingOut, Expired, NoFalseDeath
<1>5. CASE DeclareDead
  <2>1. ~(InTime /\ link = "up")
    BY <1>5 DEF DeclareDead, Expired, InTime
  <2> QED
    BY <1>5, <2>1 DEF DeclareDead, PingOut, NoFalseDeath, InTime
<1>6. CASE OnDeadReturns
  BY <1>6 DEF OnDeadReturns, NoFalseDeath
<1>7. CASE PingRaises
  BY <1>7 DEF PingRaises, NoFalseDeath
<1>8. CASE PongArrives
  BY <1>8 DEF PongArrives, NoFalseDeath
<1>9. CASE LinkDown
  BY <1>9 DEF LinkDown, NoFalseDeath
<1>10. CASE Tick
  BY <1>10 DEF Tick, NoFalseDeath
<1>11. CASE UNCHANGED vars
  BY <1>11 DEF vars, NoFalseDeath
<1> QED
  BY <1>1, <1>2, <1>3, <1>4, <1>5, <1>6, <1>7, <1>8, <1>9, <1>10, <1>11 DEF Next

LEMMA Invariant == Spec => []IInv
<1>1. IInv /\ [Next]_vars => IInv'
  BY StepPreserves
<1> QED
  BY <1>1, InitEstablishes, PTL DEF Spec

-------------------------------------------------------------------------------
\* The variables keep their types: ages and clocks stay natural numbers.
THEOREM KeepaliveTyped == Spec => []TypeOK
<1>1. IInv => TypeOK
  BY DEF IInv
<1> QED
  BY <1>1, Invariant, PTL

\* A peer that answers in time is never declared dead, whatever the intervals
\* and latencies that satisfy InTime.
THEOREM LivePeerKept == Spec => []NoFalseDeath
<1>1. IInv => NoFalseDeath
  BY DEF IInv
<1> QED
  BY <1>1, Invariant, PTL

\* A watchdog that lives finds a dead link within Bound, whatever the latencies.
THEOREM DeadLinkDetected == Spec => []WatchdogDetects
<1>1. IInv => WatchdogDetects
  BY DurationsAssumption DEF IInv, TypeOK, Rounds, RoundsTimed, RoundsBounded, Counted,
    WatchdogDetects, Bound
<1> QED
  BY <1>1, Invariant, PTL
===============================================================================
