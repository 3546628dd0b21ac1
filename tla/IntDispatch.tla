---------------------------- MODULE IntDispatch ----------------------------
(***************************************************************************)
(* Interrupt dispatch on one core: Cpu::check_interrupts, raise_cause and  *)
(* the return instructions (cpu.rs, exec.rs), over the source bitmap that  *)
(* Soc::int_pending caches between ticks (soc.rs).  step_fast checks for   *)
(* interrupts at the end of a block, so a check may follow any number of   *)
(* instructions.                                                           *)
(*                                                                         *)
(* A pc is the code it points into: the program or the handler of a level, *)
(* and how deeply that is nested.  The history variable stack holds the    *)
(* contexts interrupted and not yet returned to.  Handlers are external:   *)
(* they return, and a level-1 handler may first save EPC1 and PS and       *)
(* unmask the levels above its own, as the FreeRTOS port does.             *)
(***************************************************************************)
EXTENDS Integers, Sequences, FiniteSets

CONSTANTS
  Line,       \* interrupt lines other than the NMI's
  LevelOf,    \* INT_LEVEL_MASKS, as a level for each line
  EXCM_LEVEL,
  MaxNest,    \* bound: contexts interrupted at a time
  NmiWired    \* a peripheral is mapped to the NMI line

NMI == "nmi"
NMI_LEVEL == 7

ASSUME IntAssumption ==
  /\ LevelOf \in [Line -> 1 .. 6] /\ NMI \notin Line
  /\ EXCM_LEVEL \in 1 .. 6 /\ MaxNest \in Nat /\ NmiWired \in BOOLEAN

VARIABLES
  pc, ps,      \* ps: [lvl, excm], the INTLEVEL and EXCM fields of PS
  epc, eps,    \* EPC1..7 and EPS2..7
  intenable, intset,
  asserted,    \* lines the peripherals drive
  cached, valid,   \* cached_src through the matrix, src_valid
  stack,       \* history: contexts to return to, innermost last
  saved        \* what opened level-1 handlers keep on their stacks

cpu == <<pc, ps, epc, eps>>
lines == <<asserted, cached, valid>>
intVars == <<cpu, intenable, intset, lines, stack, saved>>

Wired == Line \cup (IF NmiWired THEN {NMI} ELSE {})
Thread == [lvl |-> 0, excm |-> FALSE]
ThreadPc == [depth |-> 0, lvl |-> 0]
Handler(l) == [depth |-> Len(stack) + 1, lvl |-> l]

IntInit ==
  /\ pc = ThreadPc /\ ps = Thread
  /\ epc = [l \in 1 .. 7 |-> ThreadPc] /\ eps = [l \in 2 .. 7 |-> Thread]
  /\ intenable = {} /\ intset = {}
  /\ asserted = {} /\ cached = {} /\ valid = FALSE
  /\ stack = <<>> /\ saved = <<>>

-----------------------------------------------------------------------------
(* check_interrupts                                                        *)

\* int_pending: the cache if it is valid, a new scan if not.
Sources == IF valid THEN cached ELSE asserted

\* Mutant: an enabled level is compared with INTLEVEL alone.
CintlevelNoExcm == ps.lvl

Cintlevel == IF ps.excm /\ ps.lvl < EXCM_LEVEL THEN EXCM_LEVEL ELSE ps.lvl

\* The level to deliver: the NMI's, else the highest enabled one, else 0.
Level(on) ==
  IF NMI \in on THEN NMI_LEVEL
  ELSE LET ls == {LevelOf[i] : i \in on \cap intenable}
       IN  IF ls = {} THEN 0 ELSE CHOOSE l \in ls : \A k \in ls : k <= l

\* Mutant: PS is saved after it has been changed.
TakeLatePs(l) ==
  /\ stack' = Append(stack, [pc |-> pc, ps |-> ps, lvl |-> l])
  /\ epc' = [epc EXCEPT ![l] = pc]
  /\ pc' = Handler(l)
  /\ IF l = 1 THEN ps' = [ps EXCEPT !.excm = TRUE] /\ UNCHANGED <<eps, intset>>
     ELSE /\ ps' = [lvl |-> l, excm |-> TRUE]
          /\ eps' = [eps EXCEPT ![l] = ps']
          /\ intset' = IF l = NMI_LEVEL THEN intset \ {NMI} ELSE intset

Take(l) ==
  /\ stack' = Append(stack, [pc |-> pc, ps |-> ps, lvl |-> l])
  /\ epc' = [epc EXCEPT ![l] = pc]
  /\ pc' = Handler(l)
  /\ IF l = 1 THEN ps' = [ps EXCEPT !.excm = TRUE] /\ UNCHANGED <<eps, intset>>
     ELSE /\ ps' = [lvl |-> l, excm |-> TRUE]
          /\ eps' = [eps EXCEPT ![l] = ps]
          /\ intset' = IF l = NMI_LEVEL THEN intset \ {NMI} ELSE intset

\* The scan leaves its result for the next check of either core.
Fills == cached' = Sources /\ valid' = TRUE

\* With nothing enabled and nothing set by software the check does nothing.
CheckInterrupts ==
  /\ intenable # {} \/ intset # {}
  /\ Fills
  /\ LET l == Level(intset \cup Sources)
     IN  IF l = 0 \/ (l # NMI_LEVEL /\ l <= Cintlevel)
         THEN UNCHANGED <<cpu, intset, stack>>
         ELSE Len(stack) < MaxNest /\ Take(l)
  /\ UNCHANGED <<intenable, asserted, saved>>

-----------------------------------------------------------------------------
(* Exceptions and returns                                                  *)

\* raise_cause, for an exception outside a masked section.
RaiseCause ==
  /\ ~ps.excm /\ Len(stack) < MaxNest
  /\ stack' = Append(stack, [pc |-> pc, ps |-> ps, lvl |-> 0])
  /\ epc' = [epc EXCEPT ![1] = pc]
  /\ ps' = [ps EXCEPT !.excm = TRUE]
  /\ pc' = Handler(0)
  /\ UNCHANGED <<eps, intenable, intset, lines, saved>>

Popped == stack' = SubSeq(stack, 1, Len(stack) - 1)

Rfe ==
  /\ pc.depth > 0 /\ pc.lvl \in {0, 1} /\ ps.excm
  /\ ps' = [ps EXCEPT !.excm = FALSE]
  /\ pc' = epc[1]
  /\ Popped /\ UNCHANGED <<epc, eps, intenable, intset, lines, saved>>

Rfi ==
  /\ pc.lvl >= 2
  /\ ps' = eps[pc.lvl] /\ pc' = epc[pc.lvl]
  /\ Popped /\ UNCHANGED <<epc, eps, intenable, intset, lines, saved>>

-----------------------------------------------------------------------------
(* Firmware (external) and the registers it writes                         *)

Opened == saved # <<>> /\ saved[Len(saved)].depth = pc.depth

\* A level-1 handler saves EPC1 and PS and lets higher levels in.
Open ==
  /\ pc.lvl = 1 /\ ps.excm /\ ~Opened
  /\ saved' = Append(saved, [depth |-> pc.depth, epc1 |-> epc[1], ps |-> ps])
  /\ ps' = [lvl |-> 1, excm |-> FALSE]
  /\ UNCHANGED <<pc, epc, eps, intenable, intset, lines, stack>>

\* It puts them back before it returns.
Close ==
  /\ Opened
  /\ epc' = [epc EXCEPT ![1] = saved[Len(saved)].epc1]
  /\ ps' = saved[Len(saved)].ps
  /\ saved' = SubSeq(saved, 1, Len(saved) - 1)
  /\ UNCHANGED <<pc, eps, intenable, intset, lines, stack>>

WriteIntenable ==
  /\ pc = ThreadPc /\ intenable' \in SUBSET Line
  /\ UNCHANGED <<cpu, intset, lines, stack, saved>>

\* WSR.INTSET and WSR.INTCLEAR; the program does not ask for an NMI from
\* inside its handler.
WriteIntset ==
  /\ pc.lvl < NMI_LEVEL
  /\ \E i \in Line \cup {NMI} : intset' = intset \cup {i}
  /\ UNCHANGED <<cpu, intenable, lines, stack, saved>>

WriteIntclear ==
  /\ \E i \in intset : intset' = intset \ {i}
  /\ UNCHANGED <<cpu, intenable, lines, stack, saved>>

-----------------------------------------------------------------------------
(* The rest of the machine                                                 *)

\* A peripheral drives its line, or firmware clears the cause of it.
Assert == \E i \in Wired \ asserted : asserted' = asserted \cup {i}
Clear == \E i \in asserted : asserted' = asserted \ {i}

Device ==
  /\ Assert \/ Clear
  /\ UNCHANGED <<cpu, intenable, intset, cached, valid, stack, saved>>

\* Mutant: the cache outlives the tick.
TickTimersKeeps == UNCHANGED intVars

\* tick_timers starts by invalidating the cache.
TickTimers ==
  /\ valid' = FALSE /\ cached' = {}
  /\ UNCHANGED <<cpu, intenable, intset, asserted, stack, saved>>

\* int_pending for the other core fills the same cache.
OtherCore == Fills /\ UNCHANGED <<cpu, intenable, intset, asserted, stack, saved>>

-----------------------------------------------------------------------------

IntNext ==
  \/ CheckInterrupts \/ RaiseCause \/ Rfe \/ Rfi \/ Open \/ Close
  \/ WriteIntenable \/ WriteIntset \/ WriteIntclear
  \/ Device \/ TickTimers \/ OtherCore

-----------------------------------------------------------------------------
(* Properties                                                              *)

Return == Rfe \/ Rfi

\* RFE and RFI resume exactly the context that was interrupted, at its pc and
\* with its PS, whatever exceptions, interrupts and NMIs came between.
ResumesExactly ==
  [][Return => LET top == stack[Len(stack)] IN pc' = top.pc /\ ps' = top.ps]_intVars

\* An interrupt only ever nests in one of a lower level.
NestsUpward ==
  \A i, j \in 1 .. Len(stack) :
    i < j /\ stack[i].lvl > 0 /\ stack[j].lvl > 0 => stack[i].lvl < stack[j].lvl

Deliverable(i) == i \in asserted /\ i \in intenable /\ LevelOf[i] > Cintlevel

\* A line that stays asserted, enabled and above the current level is taken,
\* although checks look at a cached bitmap.
Delivered == \A i \in Line : Deliverable(i) ~> ~Deliverable(i)

\* "The NMI is edge-like on this core": one that is being handled is not
\* taken again.
NmiEdgeLike == \A i, j \in 1 .. Len(stack) : stack[i].lvl = NMI_LEVEL /\ stack[j].lvl = NMI_LEVEL => i = j
=============================================================================
