------------------------------- MODULE MCTimg -------------------------------
(* A timer group: the main watchdog and one of its timers.  They share no  *)
(* variable, so a behaviour drives one of them, named by part, and the     *)
(* other rests.                                                            *)
(*                                                                         *)
(* The watchdog has two stages, a prescaler that may be changed under way  *)
(* and thresholds of zero, two and four ticks; the timer has one-bit words *)
(* and wraps after four counts.                                            *)
EXTENDS Mwdt, TimgTimer

VARIABLE part

all == <<part, vars, timerVars>>

TimgInit == part \in {"mwdt", "timer"} /\ Init /\ TimerInit

MwdtStep == part = "mwdt" /\ Next /\ UNCHANGED <<part, timerVars>>
TimgTimerStep == part = "timer" /\ TimerNext /\ UNCHANGED <<part, vars>>

TimgNext == MwdtStep \/ TimgTimerStep

\* step ticks the timer groups, and polls the reset request, on every call.
TimgFairness ==
  /\ WF_vars(part = "mwdt" /\ Tick)
  /\ WF_vars(part = "mwdt" /\ ConsumeReset)
  /\ WF_timerVars(part = "timer" /\ TimerTick)

TimgSpec == TimgInit /\ [][TimgNext]_all /\ TimgFairness
=============================================================================
