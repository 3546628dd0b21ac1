------------------------------ MODULE MCSleep ------------------------------
(* SleepMachine under each of the host loops, with periods of zero and two *)
(* ticks.  A coprocessor program of five instructions outlasts the two     *)
(* steps from its start to a sleep, and the period, so that a watched      *)
(* sleep happens and its halt may come before or after the timer.          *)
EXTENDS SleepMachine

SleepSpec ==
  /\ SleepInit /\ [][SleepNext]_sleepVars
  /\ WF_sleepVars(KeepsStepping) /\ WF_sleepVars(KeepsTicking)
  /\ SF_sleepVars(KeepsPolling) /\ WF_sleepVars(KeepsSkipping)
=============================================================================
