------------------------------- MODULE MCCpu -------------------------------
(* The core's register windows and its interrupts.  The two machines share *)
(* no variable, so a behaviour drives one of them, named by part, and the  *)
(* other rests.                                                            *)
(*                                                                         *)
(* On a register file of eight units three nested calls of any mix of      *)
(* CALL4, CALL8 and CALL12 go all the way round.  Interrupts have a line   *)
(* of level 1, which EXCM masks, and one of level 4, which it does not: a  *)
(* level-1 handler, an exception in it, level 4 and the NMI make four      *)
(* interrupted contexts, so MaxNest = 5 stops nothing unless an NMI is     *)
(* taken inside another.                                                   *)
EXTENDS XtensaWindow, IntDispatch

VARIABLE part

Levels == [i \in {"low", "high"} |-> IF i = "low" THEN 1 ELSE 4]

all == <<part, windowVars, intVars>>

CpuInit == part \in {"window", "int"} /\ WindowInit /\ IntInit

WindowPart == part = "window" /\ WindowNext /\ UNCHANGED <<part, intVars>>

IntPart == part = "int" /\ IntNext /\ UNCHANGED <<part, windowVars>>

CpuNext == WindowPart \/ IntPart

\* A core that is stepped executes the instruction at its pc; blocks end in
\* an interrupt check, and timers tick between them.
CpuFairness ==
  /\ WF_windowVars(part = "window" /\ WindowStep)
  /\ WF_intVars(part = "int" /\ CheckInterrupts)
  /\ WF_intVars(part = "int" /\ TickTimers)

CpuSpec == CpuInit /\ [][CpuNext]_all /\ CpuFairness

=============================================================================
