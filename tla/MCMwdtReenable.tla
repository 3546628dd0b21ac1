--------------------------- MODULE MCMwdtReenable ---------------------------
(* Mwdt with a history of the cycles since WDT_EN was last set.            *)
EXTENDS Mwdt

VARIABLE sinceEn

ReenableInit == Init /\ sinceEn = 0

ReenableNext ==
  \/ Tick /\ sinceEn' = Smaller(Cap, sinceEn + 1)
  \/ WriteConfig0 /\ sinceEn' = IF en THEN sinceEn ELSE 0
  \/ /\ WriteProtect \/ WriteConfig1 \/ WriteHold \/ Feed \/ IntClr \/ Hang \/ ConsumeReset
     /\ UNCHANGED sinceEn

ReenableSpec == ReenableInit /\ [][ReenableNext]_<<vars, sinceEn>>

\* "Feeding (WDT_FEED write) or disabling restarts it": a stage of a watchdog
\* that was disabled does not fire before its threshold since the enable.
DisablingRestarts ==
  [][\A i \in Stage : ~fired[i] /\ fired'[i]
       => sinceEn' = Cap \/ Thr(i) <= sinceEn']_<<vars, sinceEn>>
=============================================================================
