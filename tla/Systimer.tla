------------------------------ MODULE Systimer ------------------------------
(***************************************************************************)
(* One counter and one comparator of the SYSTIMER (systimer.rs).  The      *)
(* other counter and the other two comparators are copies; they meet only  *)
(* in COMP_LOAD of another comparator, which checks every alarm.  Choosing *)
(* the other counter for a comparator looks like loading this one.         *)
(***************************************************************************)
EXTENDS Integers

CONSTANTS
  StMod,        \* the modulus of a counter, 2^52
  LoadValue,    \* counter values firmware loads; they are not masked
  TargetValue,  \* one-shot targets
  Period        \* values of the target_period field

ASSUME SystimerAssumption ==
  /\ StMod \in Nat \ {0}
  /\ UNION {LoadValue, TargetValue, Period} \subseteq Nat

VARIABLES
  unit,      \* [on, counter]
  tconf,     \* TARGET_CONF: [period, p]
  work, ena, \* the comparator's work_en bit, its bit of INT_ENA
  target,
  alarm,     \* [armed, active, boundary, raw]
  stQuiet,   \* firmware leaves the peripheral, its clock on, alone from now on
  shots      \* history: one-shot alarms since the last COMP_LOAD, up to 2

stConf == <<tconf, work, ena, target, stQuiet>>
systimerVars == <<unit, stConf, alarm, shots>>

SystimerInit ==
  /\ unit = [on |-> TRUE, counter |-> 0]
  /\ tconf = [period |-> FALSE, p |-> 0] /\ work = FALSE /\ ena = FALSE /\ target = 0
  /\ alarm = [armed |-> FALSE, active |-> FALSE, boundary |-> 0, raw |-> FALSE]
  /\ stQuiet = FALSE /\ shots = 0

StPeriod == IF tconf.p = 0 THEN 1 ELSE tconf.p

\* Mutant: the next boundary is one period after the late tick.
AdvanceDrifts(b, c) == c + StPeriod

\* The first boundary of the grid through b that lies after c.
Advance(b, c) == b + ((c - b) \div StPeriod + 1) * StPeriod

\* Mutant: an alarm fires only past its boundary.
PeriodAlarmPast(a, c) ==
  IF ~(work /\ ena) THEN [a EXCEPT !.active = FALSE]
  ELSE LET b == IF a.active THEN a.boundary ELSE c
       IN  IF ~a.raw /\ c > b
           THEN [a EXCEPT !.active = TRUE, !.raw = TRUE, !.boundary = Advance(b, c)]
           ELSE [a EXCEPT !.active = TRUE, !.boundary = b]

\* The FreeRTOS tick: a fresh activation fires at once, then at every
\* boundary of its grid.
PeriodAlarm(a, c) ==
  IF ~(work /\ ena) THEN [a EXCEPT !.active = FALSE]
  ELSE LET b == IF a.active THEN a.boundary ELSE c
       IN  IF ~a.raw /\ c >= b
           THEN [a EXCEPT !.active = TRUE, !.raw = TRUE, !.boundary = Advance(b, c)]
           ELSE [a EXCEPT !.active = TRUE, !.boundary = b]

\* Mutant: the arm survives the alarm.
OneShotStays(a, c) ==
  [a EXCEPT !.active = FALSE, !.raw = @ \/ (a.armed /\ work /\ c >= target)]

\* One alarm per COMP_LOAD, also for a target in the past.
OneShot(a, c) ==
  LET fire == a.armed /\ work /\ ~a.raw /\ c >= target
  IN  [a EXCEPT !.active = FALSE, !.armed = @ /\ ~fire, !.raw = @ \/ fire]

\* check_alarms for an alarm a at count c, after n shots.
CheckAlarms(a, c, n) ==
  /\ alarm' = IF tconf.period THEN PeriodAlarm(a, c) ELSE OneShot(a, c)
  /\ shots' = IF ~tconf.period /\ ~a.raw /\ alarm'.raw /\ n < 2 THEN n + 1 ELSE n

-----------------------------------------------------------------------------
(* Firmware                                                                *)

\* CONF carries the enables of counter and comparator.
StWriteConf ==
  /\ ~stQuiet
  /\ \E u \in BOOLEAN : unit' = [unit EXCEPT !.on = u]
  /\ work' \in BOOLEAN
  /\ UNCHANGED <<tconf, ena, target, stQuiet, alarm, shots>>

WriteTargetConf ==
  /\ ~stQuiet
  /\ tconf' \in [period : BOOLEAN, p : Period]
  /\ UNCHANGED <<unit, work, ena, target, stQuiet, alarm, shots>>

WriteTarget ==
  /\ ~stQuiet
  /\ target' \in TargetValue
  /\ UNCHANGED <<unit, tconf, work, ena, stQuiet, alarm, shots>>

StWriteEna ==
  /\ ~stQuiet
  /\ ena' = ~ena
  /\ UNCHANGED <<unit, tconf, work, target, stQuiet, alarm, shots>>

StIntClr ==
  /\ ~stQuiet
  /\ alarm' = [alarm EXCEPT !.raw = FALSE]
  /\ UNCHANGED <<unit, stConf, shots>>

\* A non-zero COMP_LOAD arms the comparator and checks it at once.
CompLoad ==
  /\ ~stQuiet
  /\ CheckAlarms([alarm EXCEPT !.armed = TRUE], unit.counter, 0)
  /\ UNCHANGED <<unit, stConf>>

CompUnload ==
  /\ ~stQuiet
  /\ alarm' = [alarm EXCEPT !.armed = FALSE]
  /\ UNCHANGED <<unit, stConf, shots>>

\* COMP_LOAD of another comparator.
CompLoadOther ==
  /\ ~stQuiet
  /\ CheckAlarms(alarm, unit.counter, shots)
  /\ UNCHANGED <<unit, stConf>>

LoadApply ==
  /\ ~stQuiet
  /\ \E v \in LoadValue : unit' = [unit EXCEPT !.counter = v]
  /\ UNCHANGED <<stConf, alarm, shots>>

StLeave ==
  /\ ~stQuiet /\ stQuiet' = TRUE
  /\ UNCHANGED <<unit, tconf, work, ena, target, alarm, shots>>

-----------------------------------------------------------------------------
(* Time                                                                    *)

\* A gated SYSTEM clock, or the fast path of tick() while no counter runs and
\* no alarm is armed, is a tick that does not come.
SystimerTick ==
  /\ unit' = IF unit.on THEN [unit EXCEPT !.counter = (@ + 1) % StMod] ELSE unit
  /\ CheckAlarms(alarm, unit'.counter, shots)
  /\ UNCHANGED stConf

SystimerNext ==
  \/ StWriteConf \/ WriteTargetConf \/ WriteTarget \/ StWriteEna \/ StIntClr
  \/ CompLoad \/ CompUnload \/ CompLoadOther \/ LoadApply \/ StLeave
  \/ SystimerTick

-----------------------------------------------------------------------------
(* Properties                                                              *)

\* The counter holds a value it counts to or was loaded with.
SystimerTypeOK ==
  /\ unit \in [on : BOOLEAN, counter : (0 .. StMod - 1) \union LoadValue]
  /\ tconf \in [period : BOOLEAN, p : Period \union {0}]
  /\ target \in TargetValue \union {0}
  /\ alarm \in [armed : BOOLEAN, active : BOOLEAN, boundary : Nat, raw : BOOLEAN]
  /\ {work, ena, stQuiet} \subseteq BOOLEAN /\ shots \in 0 .. 2

\* However late the ISR clears it, the tick keeps its grid: the boundary moves
\* by whole periods, and to the first one that is still ahead.
TickKeepsGrid ==
  [][alarm.active /\ alarm'.active /\ alarm'.boundary # alarm.boundary
       => /\ (alarm'.boundary - alarm.boundary) % StPeriod = 0
          /\ unit'.counter < alarm'.boundary
          /\ alarm'.boundary <= unit'.counter + StPeriod]_systimerVars

\* A target in the past raises its alarm once per COMP_LOAD: no storm on the
\* steps after the ISR cleared it.
OncePerLoad == shots <= 1

\* An armed one-shot alarm whose target is a value of the counter.
OneShotDue == ~tconf.period /\ alarm.armed /\ target < StMod

\* A periodic one whose boundary is a value of the counter.
TickDue == ena /\ tconf.period /\ alarm.active /\ alarm.boundary < StMod

\* The registers stay within their fields and no alarm repeats itself.
SystimerSound == SystimerTypeOK /\ OncePerLoad

\* Neither kind of alarm is missed: a one-shot alarm the counter can reach is
\* raised, and the tick goes on after the counter was loaded with a smaller
\* value or has wrapped.
AlarmsArrive ==
  (stQuiet /\ unit.on /\ work /\ (OneShotDue \/ TickDue)) ~> alarm.raw
=============================================================================
