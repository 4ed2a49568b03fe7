---------------------------- MODULE RelayPolicies ---------------------------
(***************************************************************************)
(* When an endpoint may upload, and when a missing heartbeat raises no     *)
(* alert: the weekly upload windows and the gate of internal/relaywindow,  *)
(* and the delayed-heartbeat policies of internal/relayheartbeat, against  *)
(* a definition by the intervals of time that the windows stand for.       *)
(*                                                                         *)
(* Time is a minute number of the window's own time zone; a change of the  *)
(* zone's offset is not modelled.  A state is a question to the code.      *)
(***************************************************************************)
EXTENDS Integers, Sequences, FiniteSets, SequencesExt

CONSTANTS
  DayLength,      \* minutesPerDay
  WeekLength,     \* days of a week
  MaxGrace,       \* maximumPostWindowGrace
  MaxDrift,       \* maximumClockDrift
  WindowSets,     \* the sequences of windows that are asked about
  PolicySets,     \* the sequences of delayed-heartbeat policies
  FirstTime, EndTime

ASSUME PoliciesAssumption ==
  /\ {DayLength, WeekLength} \subseteq Nat \ {0} /\ MaxGrace \in 0..DayLength
  /\ MaxDrift \in Nat /\ FirstTime >= (WeekLength + 1) * DayLength /\ EndTime > FirstTime

VARIABLE question

RelayWindow ==
  [id : Nat, days : SUBSET (0..WeekLength-1), start : 0..DayLength-1,
   end : 0..DayLength-1, enabled : BOOLEAN]
DelayedPolicy == [target : {"endpoint", "other", "group"}, allow : BOOLEAN, grace : 0..MaxGrace]

Weekday(t) == (t \div DayLength) % WeekLength
MinuteOf(t) == t % DayLength
previousDay(day) == IF day = 0 THEN WeekLength - 1 ELSE day - 1

ValidateWindow(w) == w.start # w.end /\ w.days # {}

\* A window that starts late ends on the next day.
WindowOpen(w, t) ==
  /\ w.enabled
  /\ IF w.start < w.end
     THEN Weekday(t) \in w.days /\ w.start <= MinuteOf(t) /\ MinuteOf(t) < w.end
     ELSE IF MinuteOf(t) >= w.start THEN Weekday(t) \in w.days
     ELSE MinuteOf(t) < w.end /\ previousDay(Weekday(t)) \in w.days

Distance(a, b) == IF a < b THEN b - a ELSE a - b

\* The gate of an upload: agent is the endpoint's clock, t the server's.
Evaluate(ws, agent, t) ==
  IF Distance(agent, t) > MaxDrift THEN "clock_drift_detected"
  ELSE IF \E i \in DOMAIN ws : \/ ~ValidateWindow(ws[i])
                               \/ \E j \in 1..i-1 : ws[j].id = ws[i].id
  THEN "invalid_window_policy"
  ELSE IF \E i \in DOMAIN ws : WindowOpen(ws[i], t) THEN "approved_window_open"
  ELSE IF \E i \in DOMAIN ws : ws[i].enabled THEN "outside_approved_window"
  ELSE "no_enabled_window"

Latest(times) == IF times = {} THEN 0 ELSE CHOOSE t \in times : \A u \in times : u <= t

\* As mostRecentClose, with every window closing on the day it opens.
mostRecentCloseSameDay(w, t) ==
  Latest({c \in {((t \div DayLength) - offset) * DayLength + w.end :
                   offset \in {o \in 0..WeekLength : Weekday(t - o * DayLength) \in w.days}} :
            c <= t})

\* The latest close at or before t of the windows that start in the last week.
mostRecentClose(w, t) ==
  LET overnight == IF w.start > w.end THEN DayLength ELSE 0
      starts == {o \in 0..WeekLength : Weekday(t - o * DayLength) \in w.days}
  IN  Latest({c \in {((t \div DayLength) - o) * DayLength + overnight + w.end : o \in starts} :
                c <= t})

\* 0 stands for no close at all.
HeartbeatAlertSuppression(ws, policy, t) ==
  LET enabled == {i \in DOMAIN ws : ws[i].enabled}
      latest == Latest({mostRecentClose(ws[i], t) : i \in enabled})
  IN  IF ~policy.allow THEN FALSE
      ELSE \/ \E i \in enabled : WindowOpen(ws[i], t)
           \/ latest # 0 /\ policy.grace > 0 /\ t <= latest + policy.grace

ResolvedPolicy(allow, grace) == [allow |-> allow, grace |-> grace]

\* The policy of the endpoint itself, else what its groups agree on.
ResolvePolicies(ps) ==
  LET own == SelectSeq(ps, LAMBDA p : p.target = "endpoint")
      groups == SelectSeq(ps, LAMBDA p : p.target = "group")
      Inherit(p, r) == IF ~p.allow THEN ResolvedPolicy(FALSE, 0)
                       ELSE [r EXCEPT !.grace = IF p.grace < @ THEN p.grace ELSE @]
  IN  IF Len(own) > 1 THEN ResolvedPolicy(FALSE, 0)
      ELSE IF Len(own) = 1
      THEN ResolvedPolicy(own[1].allow, IF own[1].allow THEN own[1].grace ELSE 0)
      ELSE IF groups = <<>> THEN ResolvedPolicy(FALSE, 0)
      ELSE FoldSeq(Inherit, ResolvedPolicy(TRUE, MaxGrace), groups)

ValidatePolicy(p) == p.allow \/ p.grace = 0

PoliciesInit ==
  \E ws \in WindowSets, ps \in PolicySets, agent \in {0, MaxDrift + 1} :
    /\ \A i \in DOMAIN ps : ValidatePolicy(ps[i])
    /\ question = [windows |-> ws, policies |-> ps, ahead |-> agent, at |-> FirstTime]

\* The same question a minute later.
AskLater ==
  /\ question.at < EndTime
  /\ question' = [question EXCEPT !.at = @ + 1]

PoliciesSpec == PoliciesInit /\ [][AskLater]_question

-----------------------------------------------------------------------------
\* Reference: the intervals of time a window stands for, day by day.
Openings(w) ==
  {<<d * DayLength + w.start,
     d * DayLength + w.end + IF w.start > w.end THEN DayLength ELSE 0>> :
     d \in {n \in 0..(EndTime \div DayLength) : n % WeekLength \in w.days}}
OpeningsOf(ws) == UNION {IF ws[i].enabled THEN Openings(ws[i]) ELSE {} : i \in DOMAIN ws}

Groups(ps) == {i \in DOMAIN ps : ps[i].target = "group"}
Own(ps) == {i \in DOMAIN ps : ps[i].target = "endpoint"}
Deciding(ps) == IF Own(ps) = {} THEN Groups(ps) ELSE Own(ps)

(* The upload gate opens exactly inside the windows that are enabled,      *)
(* overnight ones included, and shuts on clock drift or any window that is *)
(* invalid.                                                                *)
GateFollowsWindows ==
  LET ws == question.windows  t == question.at IN
  (Evaluate(ws, t + question.ahead, t) = "approved_window_open") <=>
    /\ question.ahead <= MaxDrift
    /\ \A i \in DOMAIN ws : ValidateWindow(ws[i])
    /\ \A i, j \in DOMAIN ws : ws[i].id = ws[j].id => i = j
    /\ \E o \in OpeningsOf(ws) : o[1] <= t /\ t < o[2]

(* A heartbeat alert is held back exactly while a window is open, or for   *)
(* the shortest grace after the close of any window, and only when the one *)
(* policy of the endpoint, or else every group, allows it.                 *)
GraceFollowsWindows ==
  LET ws == question.windows  ps == question.policies  t == question.at IN
  (\A i \in DOMAIN ws : ValidateWindow(ws[i])) =>
  (HeartbeatAlertSuppression(ws, ResolvePolicies(ps), t) <=>
    /\ Deciding(ps) # {} /\ \A i \in Deciding(ps) : ps[i].allow
    /\ Cardinality(Own(ps)) <= 1
    /\ \E o \in OpeningsOf(ws) :
         \/ o[1] <= t /\ t < o[2]
         \/ \A i \in Deciding(ps) : o[2] <= t /\ ps[i].grace > 0 /\ t <= o[2] + ps[i].grace)

(* Upload windows and delayed-heartbeat policies mean what they say.       *)
WindowsRight == GateFollowsWindows /\ GraceFollowsWindows
=============================================================================
