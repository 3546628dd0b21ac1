----------------------------- MODULE TimgTimer -----------------------------
(***************************************************************************)
(* One of the two 64-bit timers of a timer group (timg.rs, tick_timer and  *)
(* the timer's registers).  A word is 0 .. B-1 and a counter two words; B  *)
(* stands for 2^32.  The divider counts clock cycles in divAcc; an alarm   *)
(* is an exact match of the new count, and may reload the counter.         *)
(***************************************************************************)
EXTENDS Integers

CONSTANTS
  B,         \* the modulus of a register word
  Divider,   \* the values of the DIVIDER field firmware programs
  TimerCap   \* bound: the history stops here; it outlasts every period

ASSUME TimerAssumption ==
  /\ B \in Nat /\ B >= 2
  /\ Divider \subseteq Nat /\ 0 \in Divider
  /\ TimerCap \in Nat \ {0}
  /\ \A d \in Divider \union {1} : B * B * d <= TimerCap

VARIABLES
  tconfig,    \* TnCONFIG: [en, inc, reload, div, alarm]
  alarmLo, alarmHi, loadLo, loadHi,
  counter, divAcc,
  hiLatched,  \* what TnHI reads
  timerRaw,   \* the timer's bit of INT_RAW
  timerQuiet, \* the firmware leaves the timer alone from now on
  sinceAlarm, \* history: cycles since the last alarm, up to TimerCap
  stable      \* history: an alarm fired and nothing was written since

timerRegs == <<tconfig, alarmLo, alarmHi, loadLo, loadHi>>
timerVars == <<timerRegs, counter, divAcc, hiLatched, timerRaw, timerQuiet, sinceAlarm, stable>>

Word == 0 .. B - 1
Mod == B * B

Config == [en : BOOLEAN, inc : BOOLEAN, reload : BOOLEAN, div : Divider, alarm : BOOLEAN]

TimerInit ==
  /\ tconfig = [en |-> FALSE, inc |-> FALSE, reload |-> FALSE, div |-> 0, alarm |-> FALSE]
  /\ alarmLo = 0 /\ alarmHi = 0 /\ loadLo = 0 /\ loadHi = 0
  /\ counter = 0 /\ divAcc = 0 /\ hiLatched = 0 /\ timerRaw = FALSE
  /\ timerQuiet = FALSE /\ sinceAlarm = 0 /\ stable = FALSE

Alarm == alarmHi * B + alarmLo
Reload == loadHi * B + loadLo
Cycles == IF tconfig.div = 0 THEN 1 ELSE tconfig.div

-----------------------------------------------------------------------------
(* Firmware                                                                *)

\* Every register write but UPDATE restarts the history.
WriteConfig ==
  /\ ~timerQuiet /\ tconfig' \in Config
  /\ stable' = FALSE
  /\ UNCHANGED <<alarmLo, alarmHi, loadLo, loadHi, counter, divAcc, hiLatched,
                 timerRaw, timerQuiet, sinceAlarm>>

\* A 64-bit alarm or reload value is written one word at a time.
WriteWord ==
  /\ ~timerQuiet
  /\ \E w \in Word :
       \/ alarmLo' = w /\ UNCHANGED <<alarmHi, loadLo, loadHi>>
       \/ alarmHi' = w /\ UNCHANGED <<alarmLo, loadLo, loadHi>>
       \/ loadLo' = w /\ UNCHANGED <<alarmLo, alarmHi, loadHi>>
       \/ loadHi' = w /\ UNCHANGED <<alarmLo, alarmHi, loadLo>>
  /\ stable' = FALSE
  /\ UNCHANGED <<tconfig, counter, divAcc, hiLatched, timerRaw, timerQuiet, sinceAlarm>>

TimerLoad ==
  /\ ~timerQuiet
  /\ counter' = Reload
  /\ stable' = FALSE
  /\ UNCHANGED <<timerRegs, divAcc, hiLatched, timerRaw, timerQuiet, sinceAlarm>>

TimerUpdate ==
  /\ ~timerQuiet
  /\ hiLatched' = counter \div B
  /\ UNCHANGED <<timerRegs, counter, divAcc, timerRaw, timerQuiet, sinceAlarm, stable>>

TimerIntClr ==
  /\ ~timerQuiet /\ timerRaw
  /\ timerRaw' = FALSE
  /\ UNCHANGED <<timerRegs, counter, divAcc, hiLatched, timerQuiet, sinceAlarm, stable>>

TimerLeave ==
  /\ ~timerQuiet /\ timerQuiet' = TRUE
  /\ UNCHANGED <<timerRegs, counter, divAcc, hiLatched, timerRaw, sinceAlarm, stable>>

-----------------------------------------------------------------------------
(* Time                                                                    *)

\* Mutant: the accumulator is compared before it is advanced.
DividedLate == tconfig.div # 0 /\ divAcc < tconfig.div

\* The cycle is swallowed by the divider.
Divided == tconfig.div # 0 /\ divAcc + 1 < tconfig.div

\* The next count: wrapping_add or wrapping_sub of one.
TimerStep == IF tconfig.inc THEN (counter + 1) % Mod ELSE (counter + Mod - 1) % Mod

\* Mutant: alarms are looked for only while counting up.
MatchUp == tconfig.alarm /\ tconfig.inc /\ TimerStep = Alarm

Match == tconfig.alarm /\ TimerStep = Alarm

TimerTick ==
  /\ tconfig.en
  /\ IF Divided
     THEN divAcc' = divAcc + 1 /\ UNCHANGED <<counter, timerRaw, stable>>
          /\ sinceAlarm' = (IF sinceAlarm < TimerCap THEN sinceAlarm + 1 ELSE TimerCap)
     ELSE /\ divAcc' = 0
          /\ counter' = (IF Match /\ tconfig.reload THEN Reload ELSE TimerStep)
          /\ timerRaw' = (timerRaw \/ Match)
          /\ stable' = (stable \/ Match)
          /\ sinceAlarm' = (IF Match THEN 0 ELSE IF sinceAlarm < TimerCap THEN sinceAlarm + 1 ELSE TimerCap)
  /\ UNCHANGED <<timerRegs, hiLatched, timerQuiet>>

-----------------------------------------------------------------------------

TimerNext ==
  \/ WriteConfig \/ WriteWord \/ TimerLoad \/ TimerUpdate \/ TimerIntClr \/ TimerLeave \/ TimerTick

-----------------------------------------------------------------------------
(* Properties                                                              *)

\* Counts from one alarm to the next.
Span ==
  LET from == IF tconfig.reload THEN Reload ELSE Alarm
      gap  == IF tconfig.inc THEN (Alarm + Mod - from) % Mod ELSE (from + Mod - Alarm) % Mod
  IN  IF gap = 0 THEN Mod ELSE gap

\* A timer left alone after an alarm raises the next one after exactly its
\* period, however long the divider: no cycle is lost or counted twice.
PeriodExact ==
  [][stable /\ sinceAlarm # 0 /\ sinceAlarm' = 0 => sinceAlarm + 1 = Span * Cycles]_timerVars

\* An enabled alarm on a counting timer is raised in the end, wherever the
\* counter was when the alarm was set.
AlarmArrives == (timerQuiet /\ tconfig.en /\ tconfig.alarm) ~> timerRaw
=============================================================================
