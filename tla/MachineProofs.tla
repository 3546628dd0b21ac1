----------------------------- MODULE MachineProofs ----------------------------
(***************************************************************************)
(* What the machine must come back to: the code an interrupt or an         *)
(* exception left, the app an OTA update chose, and the way a sleep ends.  *)
(*                                                                         *)
(* RFE and RFI resume what was interrupted, for every set of lines, every  *)
(* assignment of levels and every EXCM_LEVEL, as long as no peripheral is  *)
(* mapped to the NMI line.                                                 *)
(*                                                                         *)
(* EPC1 is shared by exceptions and level-1 interrupts, and PS of a        *)
(* level-1 handler depends on whether it was opened.  The invariant says   *)
(* exactly what code and what PS each context on the stack has (CodeAt,    *)
(* PsAt): contexts of levels 0 and 1 lie at the bottom, an exception over  *)
(* a level-1 handler only once that has saved EPC1, and above them the     *)
(* levels ascend, each with its own EPC and EPS.                           *)
(*                                                                         *)
(* A reset boots the chosen app for every number of OTA partitions and of  *)
(* updates.  The invariant: at every moment of an update the entries in    *)
(* the live flash select what the last completed operation chose, and the  *)
(* sector being rewritten holds no valid entry until its CRC is there.     *)
(*                                                                         *)
(* A sleep ends as it should for every host loop, set of periods,          *)
(* coprocessor program and pattern of device resets.  The invariant ties   *)
(* sleep_light to the request the sleep was entered with, and the watch to *)
(* a coprocessor that ran then: both outlive the registers they were       *)
(* computed from.                                                          *)
(***************************************************************************)
EXTENDS IntDispatch, OtaBoot, SleepMachine, TLAPS

-----------------------------------------------------------------------------
(* Interrupts and exceptions                                               *)

\* The specification without fairness, which safety does not need.
IntSpec == IntInit /\ [][IntNext]_intVars

Code == [depth : Nat, lvl : 0 .. 7]
Ps == [lvl : 0 .. 7, excm : BOOLEAN]
Context == [pc : Code, ps : Ps, lvl : 0 .. 7]

Masked(l) == [lvl |-> l, excm |-> TRUE]
Kept == [depth |-> 1, epc1 |-> ThreadPc, ps |-> Masked(0)]

\* The code that runs over i - 1 contexts, and its PS.
CodeAt(i) == [depth |-> i - 1, lvl |-> IF i = 1 THEN 0 ELSE stack[i - 1].lvl]
PsAt(i) ==
  IF i = 1 THEN Thread
  ELSE IF stack[i - 1].lvl >= 2 THEN Masked(stack[i - 1].lvl)
  ELSE IF stack[i - 1].lvl = 0 THEN Masked(IF i = 2 THEN 0 ELSE 1)
  ELSE IF saved = <<>> THEN Masked(0) ELSE [lvl |-> 1, excm |-> FALSE]

Registers ==
  /\ epc \in [1 .. 7 -> Code] /\ eps \in [2 .. 7 -> Ps]
  /\ intenable \subseteq Line /\ intset \subseteq Line \cup {NMI}
  /\ asserted \subseteq Line /\ cached \subseteq Line /\ valid \in BOOLEAN

Framed ==
  /\ stack \in Seq(Context) /\ Len(stack) <= MaxNest
  /\ pc = CodeAt(Len(stack) + 1) /\ ps = PsAt(Len(stack) + 1)
  /\ \A i \in 1 .. Len(stack) : stack[i].pc = CodeAt(i) /\ stack[i].ps = PsAt(i)

LowAtBottom ==
  \A i \in 1 .. Len(stack) : stack[i].lvl <= 1 =>
    i = 1 \/ (i = 2 /\ stack[2].lvl = 0 /\ stack[1].lvl = 1 /\ saved # <<>>)

Ascending ==
  \A i, j \in 1 .. Len(stack) : i < j /\ stack[j].lvl > 0 => stack[i].lvl < stack[j].lvl

HighKept ==
  \A i \in 1 .. Len(stack) : stack[i].lvl >= 2 =>
    epc[stack[i].lvl] = stack[i].pc /\ eps[stack[i].lvl] = stack[i].ps

LowKept ==
  /\ Len(stack) >= 1 /\ saved = <<>> => (stack[1].lvl <= 1 => epc[1] = stack[1].pc)
  /\ Len(stack) >= 2 => (stack[2].lvl = 0 => epc[1] = stack[2].pc)

SavedSound == saved = <<>> \/ (saved = <<Kept>> /\ Len(stack) >= 1 /\ stack[1].lvl = 1)

NmiOnce ==
  \A i \in 1 .. Len(stack) : stack[i].lvl = 7 => i = Len(stack) /\ NMI \notin intset

DInv ==
  /\ Registers /\ Framed /\ LowAtBottom /\ Ascending
  /\ HighKept /\ LowKept /\ SavedSound /\ NmiOnce

-----------------------------------------------------------------------------

\* A set of levels has a highest one.
LEMMA Highest ==
  ASSUME NEW S \in SUBSET (1 .. 6), S # {}
  PROVE  \E l \in S : \A k \in S : k <= l
<1>1. \A k \in S : k \in {1, 2, 3, 4, 5, 6}
  OBVIOUS
<1>2. CASE 6 \in S
  BY <1>1, <1>2
<1>3. CASE 6 \notin S /\ 5 \in S
  BY <1>1, <1>3
<1>4. CASE 6 \notin S /\ 5 \notin S /\ 4 \in S
  BY <1>1, <1>4
<1>5. CASE 6 \notin S /\ 5 \notin S /\ 4 \notin S /\ 3 \in S
  BY <1>1, <1>5
<1>6. CASE 6 \notin S /\ 5 \notin S /\ 4 \notin S /\ 3 \notin S /\ 2 \in S
  BY <1>1, <1>6
<1>7. CASE S = {1}
  BY <1>7
<1>8. \/ 6 \in S \/ 5 \in S \/ 4 \in S \/ 3 \in S \/ 2 \in S
      \/ S = {1}
  BY <1>1, Zenon
<1> QED
  BY <1>2, <1>3, <1>4, <1>5, <1>6, <1>7, <1>8, Zenon

\* The level to deliver is 7 only for an NMI that software asked for.
LEMMA LevelRange ==
  ASSUME NEW on \in SUBSET (Line \cup {NMI}), intenable \subseteq Line
  PROVE  /\ Level(on) \in 0 .. 7
         /\ Level(on) = 7 => NMI \in on
<1> DEFINE ls == {LevelOf[i] : i \in on \cap intenable}
<1>1. ls \in SUBSET (1 .. 6)
  BY IntAssumption
<1>2. CASE NMI \in on
  BY <1>2 DEF Level, NMI_LEVEL
<1>3. CASE NMI \notin on /\ ls = {}
  BY <1>3 DEF Level
<1>4. CASE NMI \notin on /\ ls # {}
  <2>1. Level(on) = CHOOSE l \in ls : \A k \in ls : k <= l
    BY <1>4, Zenon DEF Level
  <2>2. Level(on) \in ls
    BY <1>1, <1>4, <2>1, Highest, Zenon
  <2> QED
    BY <1>1, <2>2
<1> QED
  BY <1>2, <1>3, <1>4, Zenon

\* Pushing a context leaves those below it alone.
LEMMA Pushed ==
  ASSUME stack \in Seq(Context), NEW c \in Context
  PROVE  /\ Append(stack, c) \in Seq(Context)
         /\ Len(Append(stack, c)) = Len(stack) + 1
         /\ \A i \in 1 .. Len(stack) : Append(stack, c)[i] = stack[i]
         /\ Append(stack, c)[Len(stack) + 1] = c
OBVIOUS

\* So does returning to the innermost one.
LEMMA PoppedFacts ==
  ASSUME stack \in Seq(Context), Len(stack) >= 1, Popped
  PROVE  /\ stack' \in Seq(Context) /\ Len(stack') = Len(stack) - 1
         /\ \A i \in 1 .. Len(stack') : stack'[i] = stack[i]
<1> DEFINE n == Len(stack)
<1>1. n \in Nat /\ n - 1 \in Nat /\ n - 1 <= n
  OBVIOUS
<1>2. stack' = SubSeq(stack, 1, n - 1)
  BY Zenon DEF Popped
<1>3. stack' = [i \in 1 .. n - 1 |-> stack[i]]
  BY <1>1, <1>2
<1>4. \A i \in 1 .. n - 1 : stack[i] \in Context
  BY <1>1
<1> HIDE DEF n
<1>5. stack' \in [1 .. n - 1 -> Context]
  BY <1>3, <1>4, Zenon
<1>6. stack' \in Seq(Context) /\ Len(stack') = n - 1
  BY <1>1, <1>5
<1>7. \A i \in 1 .. n - 1 : stack'[i] = stack[i]
  BY <1>3, Zenon
<1> QED
  BY <1>6, <1>7, Zenon DEF n

-----------------------------------------------------------------------------

\* The core after a reset satisfies the invariant.
LEMMA InitDInv == ~NmiWired /\ IntInit => DInv
<1> SUFFICES ASSUME ~NmiWired, IntInit PROVE DInv
  BY Zenon
<1>1. ThreadPc \in Code /\ Thread \in Ps
  BY DEF ThreadPc, Code, Thread, Ps
<1>2. Registers
  BY <1>1, Zenon DEF IntInit, Registers
<1>3. Framed
  BY IntAssumption DEF IntInit, Framed, CodeAt, PsAt, ThreadPc
<1>4. LowAtBottom /\ Ascending /\ HighKept /\ LowKept /\ SavedSound /\ NmiOnce
  BY DEF IntInit, LowAtBottom, Ascending, HighKept, LowKept, SavedSound, NmiOnce
<1> QED
  BY <1>2, <1>3, <1>4, Zenon DEF DInv
\* Where the running code stands: outside a masked section it is the program
\* or an opened level-1 handler, and only the program has level 0 open.
LEMMA Here ==
  ASSUME DInv
  PROVE  LET n == Len(stack)
         IN  /\ n \in Nat /\ \A i \in 1 .. n : stack[i] \in Context
             /\ pc \in Code /\ ps \in Ps /\ pc.depth = n
             /\ n = 0 => pc = ThreadPc /\ ps = Thread /\ saved = <<>>
             /\ n >= 1 => pc.lvl = stack[n].lvl
             /\ n >= 1 /\ pc.lvl >= 2 => ps = Masked(pc.lvl)
             /\ n >= 1 /\ pc.lvl <= 1 =>
                  \/ n = 1 /\ pc.lvl = 0 /\ ps = Masked(0)
                  \/ n = 1 /\ pc.lvl = 1 /\ saved = <<>> /\ ps = Masked(0)
                  \/ n = 1 /\ pc.lvl = 1 /\ saved = <<Kept>> /\ ps = [lvl |-> 1, excm |-> FALSE]
                  \/ /\ n = 2 /\ pc.lvl = 0 /\ stack[1].lvl = 1 /\ saved = <<Kept>>
                     /\ ps = Masked(1)
<1> DEFINE n == Len(stack)
<1>1. n \in Nat /\ \A i \in 1 .. n : stack[i] \in Context /\ stack[i].lvl \in 0 .. 7
  <2>1. stack \in Seq(Context)
    BY Zenon DEF DInv, Framed
  <2>2. n \in Nat /\ \A i \in 1 .. n : stack[i] \in Context
    BY <2>1
  <2>3. \A c \in Context : c.lvl \in 0 .. 7
    BY Zenon DEF Context
  <2> QED
    BY <2>2, <2>3, Zenon
<1>2. pc = CodeAt(n + 1) /\ ps = PsAt(n + 1)
  BY Zenon DEF DInv, Framed
<1>3. CASE n = 0
  <2>1. pc = ThreadPc /\ ps = Thread /\ saved = <<>>
    BY <1>2, <1>3 DEF CodeAt, PsAt, ThreadPc, DInv, SavedSound
  <2> QED
    BY <1>1, <1>3, <2>1 DEF ThreadPc, Thread, Code, Ps
<1>4. CASE n >= 1
  <2> DEFINE l == stack[n].lvl
  <2>1. l \in 0 .. 7 /\ n + 1 # 1 /\ (n + 1) - 1 = n
    BY <1>1, <1>4
  <2>2. pc = [depth |-> n, lvl |-> l]
    BY <1>2, <2>1, Zenon DEF CodeAt
  <2>3. /\ l >= 2 => ps = Masked(l)
        /\ l = 0 => ps = Masked(IF n + 1 = 2 THEN 0 ELSE 1)
        /\ l = 1 => ps = IF saved = <<>> THEN Masked(0) ELSE [lvl |-> 1, excm |-> FALSE]
    BY <1>2, <2>1 DEF PsAt
  <2>4. l <= 1 => n = 1 \/ (n = 2 /\ l = 0 /\ stack[1].lvl = 1 /\ saved # <<>>)
    <3>1. n \in 1 .. n
      BY <1>1, <1>4
    <3>2. l <= 1 => n = 1 \/ (n = 2 /\ stack[2].lvl = 0 /\ stack[1].lvl = 1 /\ saved # <<>>)
      BY <3>1, Zenon DEF DInv, LowAtBottom
    <3> QED
      BY <3>2, Zenon
  <2>5. saved = <<>> \/ saved = <<Kept>>
    BY Zenon DEF DInv, SavedSound
  <2> HIDE DEF l, n
  <2>6. ps \in Ps /\ pc \in Code /\ pc.depth = n /\ pc.lvl = l
    <3>1. \A k \in 0 .. 7 : Masked(k) \in Ps
      BY Zenon DEF Masked, Ps
    <3>2. [lvl |-> 1, excm |-> FALSE] \in Ps
      BY DEF Ps
    <3>3. ps \in Ps
      <4>1. CASE l >= 2
        BY <2>1, <2>3, <3>1, <4>1, Zenon
      <4>2. CASE l = 0
        <5>1. ps = Masked(0) \/ ps = Masked(1)
          BY <2>3, <4>2, Zenon
        <5> QED
          BY <3>1, <5>1
      <4>3. CASE l = 1
        <5>1. ps = Masked(0) \/ ps = [lvl |-> 1, excm |-> FALSE]
          BY <2>3, <4>3, Zenon
        <5>2. Masked(0) \in Ps
          BY <3>1
        <5> QED
          BY <3>2, <5>1, <5>2, Zenon
      <4> QED
        BY <2>1, <4>1, <4>2, <4>3
    <3>4. pc \in Code
      BY <1>1, <2>1, <2>2, Zenon DEF Code
    <3> QED
      BY <2>2, <3>3, <3>4, Zenon
  <2>7. l <= 1 =>
          \/ n = 1 /\ l = 0 /\ ps = Masked(0)
          \/ n = 1 /\ l = 1 /\ saved = <<>> /\ ps = Masked(0)
          \/ n = 1 /\ l = 1 /\ saved = <<Kept>> /\ ps = [lvl |-> 1, excm |-> FALSE]
          \/ n = 2 /\ l = 0 /\ stack[1].lvl = 1 /\ saved = <<Kept>> /\ ps = Masked(1)
    <3>1. CASE l = 0 /\ n = 1
      BY <2>3, <3>1
    <3>2. CASE l = 0 /\ n = 2
      BY <2>3, <2>4, <2>5, <3>2
    <3>3. CASE l = 1 /\ saved = <<>>
      BY <2>3, <2>4, <3>3, Zenon
    <3>4. CASE l = 1 /\ saved = <<Kept>>
      <4>1. saved # <<>>
        BY <3>4, Zenon
      <4> QED
        BY <2>3, <2>4, <3>4, <4>1, Zenon
    <3> QED
      BY <2>1, <2>4, <2>5, <3>1, <3>2, <3>3, <3>4
  <2> QED
    BY <1>1, <1>4, <2>3, <2>6, <2>7 DEF l, n
<1> QED
  BY <1>1, <1>3, <1>4
\* A step that leaves the contexts and the registers of returns alone.
LEMMA KeepsDInv ==
  ASSUME DInv, UNCHANGED <<pc, ps, epc, eps, stack, saved>>, Registers', NmiOnce'
  PROVE  DInv'
BY DEF DInv, Framed, LowAtBottom, Ascending, HighKept, LowKept, SavedSound, CodeAt, PsAt

\* Entering the handler of a level above all that are being handled.
LEMMA PushHigh ==
  ASSUME DInv, NEW l \in 2 .. 7, \A i \in 1 .. Len(stack) : stack[i].lvl < l,
         Len(stack) < MaxNest,
         stack' = Append(stack, [pc |-> pc, ps |-> ps, lvl |-> l]),
         epc' = [epc EXCEPT ![l] = pc], eps' = [eps EXCEPT ![l] = ps],
         pc' = Handler(l), ps' = Masked(l), saved' = saved,
         intset' \subseteq intset, l = 7 => NMI \notin intset',
         UNCHANGED <<intenable, asserted>>, cached' \subseteq Line, valid' \in BOOLEAN
  PROVE  DInv'
<1>0. PICK n : n = Len(stack)
  BY Zenon
<1> DEFINE c == [pc |-> pc, ps |-> ps, lvl |-> l]
<1>1. /\ n \in Nat /\ n = Len(stack) /\ (\A i \in 1 .. n : stack[i] \in Context /\ stack[i].lvl \in 0 .. 7)
      /\ pc \in Code /\ ps \in Ps /\ pc.depth = n
  BY <1>0, Here, Zenon DEF Context
<1>2. c \in Context
  BY <1>1 DEF Context
<1>3. /\ stack' \in Seq(Context) /\ Len(stack') = n + 1
      /\ \A i \in 1 .. n : stack'[i] = stack[i]
      /\ stack'[n + 1] = c
  BY <1>0, <1>2, Pushed DEF DInv, Framed
<1>4. Registers'
  BY <1>1, Zenon DEF DInv, Registers
<1>5. \A i \in 1 .. n + 1 : CodeAt(i)' = CodeAt(i) /\ PsAt(i)' = PsAt(i)
  BY <1>1, <1>3 DEF CodeAt, PsAt
<1>6. CodeAt(n + 2)' = [depth |-> n + 1, lvl |-> l] /\ PsAt(n + 2)' = Masked(l)
  <2>1. (n + 2) - 1 = n + 1 /\ n + 2 # 1 /\ stack'[n + 1].lvl = l /\ l >= 2
    BY <1>1, <1>3
  <2> QED
    BY <2>1, Zenon DEF CodeAt, PsAt, Masked
<1>7. Framed'
  <2>1. n + 1 <= MaxNest
    BY <1>1, IntAssumption
  <2>2. pc' = CodeAt(n + 2)' /\ ps' = PsAt(n + 2)'
    BY <1>1, <1>6, Zenon DEF Handler
  <2>3. c.pc = CodeAt(n + 1) /\ c.ps = PsAt(n + 1)
    BY <1>0, Zenon DEF DInv, Framed
  <2>4. \A i \in 1 .. n : stack[i].pc = CodeAt(i) /\ stack[i].ps = PsAt(i)
    BY <1>0, Zenon DEF DInv, Framed
  <2>5. \A i \in 1 .. n + 1 : stack'[i].pc = CodeAt(i)' /\ stack'[i].ps = PsAt(i)'
    <3>1. \A i \in 1 .. n + 1 : i \in 1 .. n \/ i = n + 1
      BY <1>1
    <3> QED
      BY <1>3, <1>5, <2>3, <2>4, <3>1
  <2>6. (n + 1) + 1 = n + 2
    BY <1>1
  <2> QED
    BY <1>3, <2>1, <2>2, <2>5, <2>6, Zenon DEF Framed
<1>8. LowAtBottom'
  <2>1. \A i \in 1 .. n : stack[i].lvl <= 1 =>
          i = 1 \/ (i = 2 /\ stack[2].lvl = 0 /\ stack[1].lvl = 1 /\ saved # <<>>)
    BY <1>0, Zenon DEF DInv, LowAtBottom
  <2> QED
    BY <1>1, <1>3, <2>1 DEF LowAtBottom
<1>9. Ascending'
  BY <1>1, <1>3 DEF DInv, Ascending
<1>10. HighKept'
  <2>1. epc'[l] = pc /\ eps'[l] = ps /\ \A k \in 2 .. 7 \ {l} : epc'[k] = epc[k] /\ eps'[k] = eps[k]
    BY DEF DInv, Registers
  <2> QED
    BY <1>1, <1>3, <2>1 DEF DInv, HighKept
<1>11. LowKept'
  <2>1. epc'[1] = epc[1]
    BY DEF DInv, Registers
  <2> QED
    BY <1>1, <1>3, <2>1 DEF DInv, LowKept
<1>12. SavedSound'
  BY <1>1, <1>3 DEF DInv, SavedSound
<1>13. NmiOnce'
  BY <1>1, <1>3 DEF NmiOnce
<1> QED
  BY <1>4, <1>7, <1>8, <1>9, <1>10, <1>11, <1>12, <1>13, Zenon DEF DInv
\* Setting EXCM masks the level PS has.
LEMMA MaskedPs ==
  ASSUME NEW p \in Ps
  PROVE  [p EXCEPT !.excm = TRUE] = Masked(p.lvl)
<1>1. PICK l \in 0 .. 7, e \in BOOLEAN : p = [lvl |-> l, excm |-> e]
  BY Zenon DEF Ps
<1>2. p.lvl = l
  BY <1>1, Zenon
<1>3. \A b : [[lvl |-> l, excm |-> e] EXCEPT !.excm = b] = [lvl |-> l, excm |-> b]
  OBVIOUS
<1>4. [p EXCEPT !.excm = TRUE] = [lvl |-> l, excm |-> TRUE]
  BY <1>1, <1>3, Zenon
<1> QED
  BY <1>2, <1>4, Zenon DEF Masked

\* The PS of an exception handler over an opened level-1 handler.
LEMMA NestedPs ==
  ASSUME NEW i, i # 1, i # 2, stack'[i - 1].lvl = 0
  PROVE  PsAt(i)' = Masked(1)
BY DEF PsAt

\* Entering an exception or level-1 handler from the program, or an exception
\* handler from an opened level-1 handler.
LEMMA PushLow ==
  ASSUME DInv, NEW l \in {0, 1},
         \/ Len(stack) = 0
         \/ Len(stack) = 1 /\ l = 0 /\ stack[1].lvl = 1 /\ saved = <<Kept>>
              /\ ps = [lvl |-> 1, excm |-> FALSE],
         Len(stack) < MaxNest,
         stack' = Append(stack, [pc |-> pc, ps |-> ps, lvl |-> l]),
         epc' = [epc EXCEPT ![1] = pc], eps' = eps,
         pc' = Handler(l), ps' = [ps EXCEPT !.excm = TRUE], saved' = saved,
         UNCHANGED <<intset, intenable, asserted>>, cached' \subseteq Line, valid' \in BOOLEAN
  PROVE  DInv'
<1>0. PICK n : n = Len(stack)
  BY Zenon
<1> DEFINE c == [pc |-> pc, ps |-> ps, lvl |-> l]
<1>1. /\ n \in Nat /\ n = Len(stack)
      /\ (\A i \in 1 .. n : stack[i] \in Context /\ stack[i].lvl \in 0 .. 7)
      /\ pc \in Code /\ ps \in Ps /\ pc.depth = n
      /\ n = 0 => ps = Thread /\ saved = <<>>
  BY <1>0, Here, Zenon DEF Context
<1>2. c \in Context
  BY <1>1 DEF Context
<1>3. /\ stack' \in Seq(Context) /\ Len(stack') = n + 1
      /\ \A i \in 1 .. n : stack'[i] = stack[i]
      /\ stack'[n + 1] = c
  BY <1>0, <1>2, Pushed DEF DInv, Framed
<1>4. Registers'
  BY <1>1, Zenon DEF DInv, Registers
<1>5. \A i \in 1 .. n + 1 : CodeAt(i)' = CodeAt(i) /\ PsAt(i)' = PsAt(i)
  BY <1>1, <1>3 DEF CodeAt, PsAt
<1>6. CodeAt(n + 2)' = [depth |-> n + 1, lvl |-> l] /\ PsAt(n + 2)' = ps'
  <2>1. (n + 2) - 1 = n + 1 /\ n + 2 # 1 /\ stack'[n + 1].lvl = l
    BY <1>1, <1>3
  <2>2. CASE n = 0
    <3>1. ps.lvl = 0 /\ saved' = <<>>
      BY <1>1, <2>2 DEF Thread
    <3>2. ps' = Masked(0)
      BY <1>1, <3>1, MaskedPs, Zenon
    <3> HIDE DEF c
    <3>3. CodeAt(n + 2)' = [depth |-> n + 1, lvl |-> l]
      BY <2>1, Zenon DEF CodeAt
    <3>4. PsAt(n + 2)' = Masked(0)
      BY <2>1, <2>2, <3>1 DEF PsAt
    <3> QED
      BY <3>2, <3>3, <3>4, Zenon
  <2>3. CASE n = 1 /\ l = 0
    <3>1. ps.lvl = 1
      BY <1>0, <2>3
    <3>2. ps' = Masked(1)
      BY <1>1, <3>1, MaskedPs, Zenon
    <3>3. CodeAt(n + 2)' = [depth |-> n + 1, lvl |-> l]
      BY <2>1, Zenon DEF CodeAt
    <3>4. PsAt(n + 2)' = Masked(1)
      <4>1. n + 2 # 2
        BY <2>3
      <4>2. stack'[(n + 2) - 1].lvl = 0
        BY <2>1, <2>3, Zenon
      <4> QED
        BY <2>1, <4>1, <4>2, NestedPs, Zenon
    <3> QED
      BY <3>2, <3>3, <3>4, Zenon
  <2> QED
    BY <1>0, <2>2, <2>3, Zenon
<1>7. Framed'
  <2>1. n + 1 <= MaxNest
    BY <1>1, IntAssumption
  <2>2. pc' = CodeAt(n + 2)' /\ ps' = PsAt(n + 2)'
    BY <1>1, <1>6, Zenon DEF Handler
  <2>3. c.pc = CodeAt(n + 1) /\ c.ps = PsAt(n + 1)
    BY <1>0, Zenon DEF DInv, Framed
  <2>4. \A i \in 1 .. n : stack[i].pc = CodeAt(i) /\ stack[i].ps = PsAt(i)
    BY <1>0, Zenon DEF DInv, Framed
  <2>5. \A i \in 1 .. n + 1 : stack'[i].pc = CodeAt(i)' /\ stack'[i].ps = PsAt(i)'
    <3>1. \A i \in 1 .. n + 1 : i \in 1 .. n \/ i = n + 1
      BY <1>1
    <3> QED
      BY <1>3, <1>5, <2>3, <2>4, <3>1, Zenon
  <2>6. (n + 1) + 1 = n + 2
    BY <1>1
  <2> QED
    BY <1>3, <2>1, <2>2, <2>5, <2>6, Zenon DEF Framed
<1>8. (n = 0 /\ saved = <<>>) \/ (n = 1 /\ l = 0 /\ stack[1].lvl = 1 /\ saved = <<Kept>>)
  BY <1>0, <1>1, Zenon
<1>9. LowAtBottom' /\ Ascending' /\ HighKept' /\ SavedSound' /\ NmiOnce'
  <2>1. saved = <<Kept>> => saved # <<>>
    OBVIOUS
  <2> HIDE DEF Kept
  <2> QED
    BY <1>1, <1>3, <1>8, <2>1
    DEF LowAtBottom, Ascending, HighKept, SavedSound, NmiOnce
<1>10. LowKept'
  <2>1. epc'[1] = pc
    BY DEF DInv, Registers
  <2>2. saved = <<Kept>> => saved # <<>>
    OBVIOUS
  <2> QED
    BY <1>1, <1>3, <1>8, <2>1, <2>2 DEF LowKept
<1> QED
  BY <1>4, <1>7, <1>9, <1>10, Zenon DEF DInv

\* Returning to the innermost context.
LEMMA PopSound ==
  ASSUME DInv, Len(stack) >= 1, Len(stack) = 1 => saved = <<>>,
         pc' = stack[Len(stack)].pc, ps' = stack[Len(stack)].ps, Popped,
         UNCHANGED <<epc, eps, intenable, intset, lines, saved>>
  PROVE  DInv'
<1>0. PICK n : n = Len(stack)
  BY Zenon
<1>1. /\ n \in Nat /\ n = Len(stack) /\ n >= 1
      /\ \A i \in 1 .. n : stack[i] \in Context /\ stack[i].lvl \in 0 .. 7
  BY <1>0, Here, Zenon DEF Context
<1>2. /\ stack' \in Seq(Context) /\ Len(stack') = n - 1
      /\ \A i \in 1 .. n - 1 : stack'[i] = stack[i]
  BY <1>0, PoppedFacts, Zenon DEF DInv, Framed
<1>3. Registers'
  BY Zenon DEF DInv, Registers, lines
<1>4. \A i \in 1 .. n : CodeAt(i)' = CodeAt(i) /\ PsAt(i)' = PsAt(i)
  BY <1>1, <1>2 DEF CodeAt, PsAt
<1>5. Framed'
  <2>1. n - 1 <= MaxNest /\ (n - 1) + 1 = n
    BY <1>1, IntAssumption DEF DInv, Framed
  <2>2. \A i \in 1 .. n : stack[i].pc = CodeAt(i) /\ stack[i].ps = PsAt(i)
    BY <1>0, Zenon DEF DInv, Framed
  <2>3. pc' = CodeAt(n)' /\ ps' = PsAt(n)'
    BY <1>1, <1>4, <2>2
  <2>4. \A i \in 1 .. n - 1 : stack'[i].pc = CodeAt(i)' /\ stack'[i].ps = PsAt(i)'
    BY <1>1, <1>2, <1>4, <2>2
  <2> QED
    BY <1>2, <2>1, <2>3, <2>4, Zenon DEF Framed
<1>6. LowAtBottom'
  BY <1>1, <1>2 DEF DInv, LowAtBottom
<1>7. Ascending' /\ NmiOnce'
  <2>1. Ascending'
    BY <1>1, <1>2 DEF DInv, Ascending
  <2>2. \A i \in 1 .. n - 1 : stack[i].lvl # 7
    <3>1. \A i \in 1 .. n : stack[i].lvl = 7 => i = n
      BY <1>0, Zenon DEF DInv, NmiOnce
    <3> QED
      BY <1>1, <3>1
  <2> QED
    BY <1>2, <2>1, <2>2, Zenon DEF NmiOnce
<1>8. HighKept' /\ LowKept'
  BY <1>1, <1>2 DEF DInv, HighKept, LowKept
<1>9. SavedSound'
  BY <1>1, <1>2 DEF DInv, SavedSound
<1> QED
  BY <1>3, <1>5, <1>6, <1>7, <1>8, <1>9, Zenon DEF DInv
-----------------------------------------------------------------------------

\* RFE and RFI return to the innermost context, which was saved where they
\* look for it.
LEMMA ReturnFacts ==
  ASSUME DInv, Return
  PROVE  /\ Len(stack) >= 1 /\ (Len(stack) = 1 => saved = <<>>)
         /\ pc' = stack[Len(stack)].pc /\ ps' = stack[Len(stack)].ps /\ Popped
         /\ UNCHANGED <<epc, eps, intenable, intset, lines, saved>>
<1>0. PICK n : n = Len(stack)
  BY Zenon
<1>1. /\ n \in Nat /\ n = Len(stack) /\ pc.depth = n
      /\ n = 0 => pc = ThreadPc
      /\ n >= 1 => pc.lvl = stack[n].lvl
      /\ n >= 1 /\ pc.lvl <= 1 =>
           \/ n = 1 /\ pc.lvl = 0 /\ ps = Masked(0)
           \/ n = 1 /\ pc.lvl = 1 /\ saved = <<>> /\ ps = Masked(0)
           \/ n = 1 /\ pc.lvl = 1 /\ saved = <<Kept>> /\ ps = [lvl |-> 1, excm |-> FALSE]
           \/ n = 2 /\ pc.lvl = 0 /\ stack[1].lvl = 1 /\ saved = <<Kept>> /\ ps = Masked(1)
  BY <1>0, Here, Zenon
<1>2. /\ saved = <<>> \/ (saved = <<Kept>> /\ n >= 1 /\ stack[1].lvl = 1)
      /\ \A i \in 1 .. n : stack[i].pc = CodeAt(i) /\ stack[i].ps = PsAt(i)
      /\ \A i \in 1 .. n : stack[i].lvl >= 2 =>
           epc[stack[i].lvl] = stack[i].pc /\ eps[stack[i].lvl] = stack[i].ps
      /\ n >= 1 /\ saved = <<>> => (stack[1].lvl <= 1 => epc[1] = stack[1].pc)
      /\ n >= 2 => (stack[2].lvl = 0 => epc[1] = stack[2].pc)
  BY <1>0, Zenon DEF DInv, Framed, HighKept, LowKept, SavedSound
<1>3. CASE Rfi
  <2>1. /\ pc.lvl >= 2 /\ ps' = eps[pc.lvl] /\ pc' = epc[pc.lvl] /\ Popped
        /\ UNCHANGED <<epc, eps, intenable, intset, lines, saved>>
    BY <1>3, Zenon DEF Rfi
  <2>2. n >= 1
    BY <1>1, <2>1 DEF ThreadPc
  <2>3. n = 1 => saved = <<>>
    BY <1>1, <1>2, <2>1
  <2>4. pc' = stack[n].pc /\ ps' = stack[n].ps
    BY <1>1, <1>2, <2>1, <2>2
  <2> QED
    BY <1>1, <2>1, <2>2, <2>3, <2>4, Zenon
<1>4. CASE Rfe
  <2>1. /\ pc.depth > 0 /\ pc.lvl \in {0, 1} /\ ps.excm /\ pc' = epc[1] /\ Popped
        /\ UNCHANGED <<epc, eps, intenable, intset, lines, saved>>
    BY <1>4, Zenon DEF Rfe
  <2>2. ps' = [ps EXCEPT !.excm = FALSE]
    BY <1>4, Zenon DEF Rfe
  <2>3. \A l \in {0, 1} : [Masked(l) EXCEPT !.excm = FALSE] = [lvl |-> l, excm |-> FALSE]
    <3>1. \A l, b : [[lvl |-> l, excm |-> TRUE] EXCEPT !.excm = b] = [lvl |-> l, excm |-> b]
      OBVIOUS
    <3> QED
      BY <3>1, Zenon DEF Masked
  <2>4. ps # [lvl |-> 1, excm |-> FALSE]
    BY <2>1
  <2>5. CASE n = 1 /\ ps = Masked(0)
    <3>1. saved = <<>>
      BY <1>1, <1>2, <2>1, <2>5
    <3>2. pc' = stack[1].pc
      BY <1>1, <1>2, <2>1, <2>5, <3>1
    <3>3. stack[1].ps = Thread
      BY <1>2, <2>5 DEF PsAt
    <3>4. ps' = Thread
      BY <2>2, <2>3, <2>5, Zenon DEF Thread
    <3> QED
      BY <1>1, <2>1, <2>5, <3>1, <3>2, <3>3, <3>4
  <2>6. CASE n = 2 /\ pc.lvl = 0 /\ stack[1].lvl = 1 /\ saved = <<Kept>> /\ ps = Masked(1)
    <3>1. pc' = stack[2].pc
      BY <1>1, <1>2, <2>1, <2>6
    <3>2. stack[2].ps = PsAt(2)
      BY <1>2, <2>6
    <3>3. PsAt(2) = [lvl |-> 1, excm |-> FALSE]
      <4>1. saved # <<>>
        BY <2>6, Zenon
      <4> QED
        BY <2>6, <4>1 DEF PsAt
    <3>4. ps' = [lvl |-> 1, excm |-> FALSE]
      BY <2>2, <2>3, <2>6, Zenon
    <3> QED
      BY <1>1, <2>1, <2>6, <3>1, <3>2, <3>3, <3>4
  <2> QED
    BY <1>1, <2>1, <2>4, <2>5, <2>6
<1> QED
  BY <1>3, <1>4, Zenon DEF Return

\* A level that is taken lies above those being handled, and level 1 is taken
\* by the program only.
LEMMA TakenAbove ==
  ASSUME DInv, NEW l \in 1 .. 7, l = 7 => NMI \in intset, l # 7 => l > Cintlevel
  PROVE  /\ l = 1 => Len(stack) = 0
         /\ \A i \in 1 .. Len(stack) : stack[i].lvl < l
<1>0. PICK n : n = Len(stack)
  BY Zenon
<1>1. /\ n \in Nat /\ n = Len(stack) /\ ps \in Ps
      /\ (\A i \in 1 .. n : stack[i] \in Context /\ stack[i].lvl \in 0 .. 7)
      /\ n >= 1 => pc.lvl = stack[n].lvl
      /\ n >= 1 /\ pc.lvl >= 2 => ps = Masked(pc.lvl)
      /\ n >= 1 /\ pc.lvl <= 1 =>
           \/ n = 1 /\ pc.lvl = 0 /\ ps = Masked(0)
           \/ n = 1 /\ pc.lvl = 1 /\ ps = Masked(0)
           \/ n = 1 /\ pc.lvl = 1 /\ ps = [lvl |-> 1, excm |-> FALSE]
           \/ n = 2 /\ pc.lvl = 0 /\ stack[1].lvl = 1 /\ ps = Masked(1)
  BY <1>0, Here, Zenon DEF Context
<1>2. CASE l = 7
  <2>1. \A i \in 1 .. n : stack[i].lvl # 7
    BY <1>0, <1>2, Zenon DEF DInv, NmiOnce
  <2> QED
    BY <1>1, <1>2, <2>1
<1>3. CASE l # 7
  <2>1. l > ps.lvl /\ (ps.excm => l > 1)
    BY <1>1, <1>3, IntAssumption DEF Cintlevel, Ps
  <2>2. CASE n = 0
    BY <1>1, <2>2
  <2>3. CASE n >= 1 /\ pc.lvl >= 2
    <3>1. stack[n].lvl < l /\ stack[n].lvl >= 2
      BY <1>1, <2>1, <2>3 DEF Masked
    <3>2. \A i \in 1 .. n : i < n => stack[i].lvl < stack[n].lvl
      BY <1>0, <1>1, <2>3, <3>1 DEF DInv, Ascending
    <3>3. n = Len(stack) /\ n \in Nat /\ \A i \in 1 .. n : stack[i].lvl \in 0 .. 7
      BY <1>1, Zenon
    <3>4. l # 1
      <4>1. stack[n].lvl \in 0 .. 7
        BY <2>3, <3>3
      <4> QED
        BY <3>1, <4>1
    <3>5. \A i \in 1 .. n : stack[i].lvl < l
      <4> TAKE i \in 1 .. n
      <4>1. CASE i = n
        BY <3>1, <4>1, Zenon
      <4>2. CASE i < n
        <5>1. stack[i].lvl < stack[n].lvl /\ stack[i].lvl \in 0 .. 7 /\ stack[n].lvl \in 0 .. 7
          BY <2>3, <3>2, <3>3, <4>2
        <5> QED
          BY <3>1, <5>1
      <4> QED
        BY <3>3, <4>1, <4>2
    <3> QED
      BY <3>3, <3>4, <3>5, Zenon
  <2>4. CASE n >= 1 /\ pc.lvl <= 1
    <3>1. l > 1
      BY <1>1, <2>1, <2>4 DEF Masked
    <3>2. \A i \in 1 .. n : stack[i].lvl <= 1
      BY <1>1, <2>4
    <3> QED
      BY <1>1, <3>1, <3>2
  <2>5. n = 0 \/ (n >= 1 /\ pc.lvl >= 2) \/ (n >= 1 /\ pc.lvl <= 1)
    BY <1>1
  <2> QED
    BY <2>2, <2>3, <2>4, <2>5, Zenon
<1> QED
  BY <1>2, <1>3, Zenon

\* A check of the interrupts preserves the invariant.
LEMMA CheckDInv ==
  ASSUME DInv, CheckInterrupts
  PROVE  DInv'
<1> DEFINE l == Level(intset \cup Sources)
<1>1. /\ Registers /\ NmiOnce /\ Sources \subseteq Line /\ NMI \notin Line
  BY IntAssumption, Zenon DEF DInv, Registers, Sources
<1>2. l \in 0 .. 7 /\ (l = 7 => NMI \in intset)
  <2>1. intset \cup Sources \in SUBSET (Line \cup {NMI}) /\ intenable \subseteq Line
    BY <1>1, Zenon DEF Registers
  <2>2. l \in 0 .. 7 /\ (l = 7 => NMI \in intset \cup Sources)
    BY <2>1, LevelRange, Zenon
  <2> HIDE DEF l
  <2> QED
    BY <1>1, <2>2, Zenon
<1>3. cached' \subseteq Line /\ valid' = TRUE /\ UNCHANGED <<intenable, asserted, saved>>
  BY <1>1, Zenon DEF CheckInterrupts, Fills
<1>4. IF l = 0 \/ (l # NMI_LEVEL /\ l <= Cintlevel) THEN UNCHANGED <<cpu, intset, stack>>
      ELSE Len(stack) < MaxNest /\ Take(l)
  BY Zenon DEF CheckInterrupts
<1> HIDE DEF l
<1>5. CASE l = 0 \/ (l # NMI_LEVEL /\ l <= Cintlevel)
  <2>1. UNCHANGED <<cpu, intset, stack>>
    BY <1>4, <1>5, Zenon
  <2>2. UNCHANGED <<pc, ps, epc, eps, stack, intset>>
    BY <2>1, Zenon DEF cpu
  <2>3. Registers' /\ NmiOnce'
    BY <1>1, <1>3, <2>2, Zenon DEF Registers, NmiOnce
  <2> QED
    BY <1>3, <2>2, <2>3, KeepsDInv, Zenon
<1>6. CASE ~(l = 0 \/ (l # NMI_LEVEL /\ l <= Cintlevel))
  <2>1. Len(stack) < MaxNest /\ Take(l)
    BY <1>4, <1>6, Zenon
  <2>2. ps \in Ps /\ (Len(stack) = 0 => ps = Thread)
    BY Here, Zenon
  <2>3. Cintlevel \in Int
    BY <2>2, IntAssumption DEF Cintlevel, Ps
  <2>4. l \in 1 .. 7 /\ (l # 7 => l > Cintlevel)
    BY <1>2, <1>6, <2>3 DEF NMI_LEVEL
  <2>5. (l = 1 => Len(stack) = 0) /\ \A i \in 1 .. Len(stack) : stack[i].lvl < l
    BY <1>2, <2>4, TakenAbove, Zenon
  <2>6. CASE l = 1
    <3>1. /\ stack' = Append(stack, [pc |-> pc, ps |-> ps, lvl |-> 1])
          /\ epc' = [epc EXCEPT ![1] = pc] /\ pc' = Handler(1)
          /\ ps' = [ps EXCEPT !.excm = TRUE] /\ UNCHANGED <<eps, intset>>
      BY <2>1, <2>6, Zenon DEF Take
    <3> QED
      BY <1>3, <2>1, <2>5, <2>6, <3>1, PushLow, Zenon
  <2>7. CASE l # 1
    <3>1. /\ stack' = Append(stack, [pc |-> pc, ps |-> ps, lvl |-> l])
          /\ epc' = [epc EXCEPT ![l] = pc] /\ pc' = Handler(l)
          /\ ps' = Masked(l) /\ eps' = [eps EXCEPT ![l] = ps]
          /\ intset' = IF l = 7 THEN intset \ {NMI} ELSE intset
      BY <2>1, <2>7, Zenon DEF Take, Masked, NMI_LEVEL
    <3>2. l \in 2 .. 7 /\ intset' \subseteq intset /\ (l = 7 => NMI \notin intset')
      BY <2>4, <2>7, <3>1
    <3> QED
      BY <1>3, <2>1, <2>5, <3>1, <3>2, PushHigh, Zenon
  <2> QED
    BY <2>6, <2>7, Zenon
<1> QED
  BY <1>5, <1>6, Zenon
\* Every step preserves the invariant.
LEMMA NextDInv == ~NmiWired /\ DInv /\ [IntNext]_intVars => DInv'
<1> SUFFICES ASSUME ~NmiWired, DInv, [IntNext]_intVars PROVE DInv'
  BY Zenon
<1>1. /\ Registers /\ NmiOnce /\ Sources \subseteq Line /\ NMI \notin Line
      /\ Wired = Line
  BY IntAssumption, Zenon DEF DInv, Registers, Sources, Wired
<1>0. PICK n : n = Len(stack)
  BY Zenon
<1>2. /\ n \in Nat /\ n = Len(stack) /\ pc \in Code /\ ps \in Ps /\ pc.depth = n
      /\ n = 0 => pc = ThreadPc /\ ps = Thread /\ saved = <<>>
      /\ n >= 1 => pc.lvl = stack[n].lvl
      /\ n >= 1 /\ pc.lvl >= 2 => ps = Masked(pc.lvl)
      /\ n >= 1 /\ pc.lvl <= 1 =>
           \/ n = 1 /\ pc.lvl = 0 /\ ps = Masked(0)
           \/ n = 1 /\ pc.lvl = 1 /\ saved = <<>> /\ ps = Masked(0)
           \/ n = 1 /\ pc.lvl = 1 /\ saved = <<Kept>> /\ ps = [lvl |-> 1, excm |-> FALSE]
           \/ n = 2 /\ pc.lvl = 0 /\ stack[1].lvl = 1 /\ saved = <<Kept>> /\ ps = Masked(1)
  BY <1>0, Here, Zenon
<1>3. \A k : Masked(k).excm = TRUE
  BY Zenon DEF Masked
<1>4. CASE CheckInterrupts
  BY <1>4, CheckDInv, Zenon
<1>5. CASE Rfe \/ Rfi
  BY <1>5, ReturnFacts, PopSound, Zenon DEF Return
<1>6. CASE RaiseCause
  <2>1. /\ ~ps.excm /\ Len(stack) < MaxNest
        /\ stack' = Append(stack, [pc |-> pc, ps |-> ps, lvl |-> 0])
        /\ epc' = [epc EXCEPT ![1] = pc] /\ ps' = [ps EXCEPT !.excm = TRUE]
        /\ pc' = Handler(0) /\ eps' = eps /\ saved' = saved
        /\ UNCHANGED <<intset, intenable, asserted, cached, valid>>
    BY <1>6, Zenon DEF RaiseCause, lines
  <2>2. pc.lvl \in 0 .. 7
    BY <1>2, Zenon DEF Code
  <2>3. \/ n = 0
        \/ n = 1 /\ pc.lvl = 1 /\ saved = <<Kept>> /\ ps = [lvl |-> 1, excm |-> FALSE]
    BY <1>2, <1>3, <2>1, <2>2
  <2>4. cached' \subseteq Line /\ valid' \in BOOLEAN
    BY <1>1, <2>1, Zenon DEF Registers
  <2> QED
    BY <1>2, <2>1, <2>3, <2>4, PushLow
<1>7. CASE Open
  <2>1. /\ pc.lvl = 1 /\ ps.excm
        /\ saved' = Append(saved, [depth |-> pc.depth, epc1 |-> epc[1], ps |-> ps])
        /\ ps' = [lvl |-> 1, excm |-> FALSE]
        /\ UNCHANGED <<pc, epc, eps, intenable, intset, lines, stack>>
    BY <1>7, Zenon DEF Open
  <2>2. n = 1 /\ saved = <<>> /\ ps = Masked(0) /\ stack[1].lvl = 1
    <3>1. n # 0
      BY <1>2, <2>1 DEF ThreadPc
    <3>2. ps # [lvl |-> 1, excm |-> FALSE]
      BY <2>1
    <3> QED
      BY <1>2, <2>1, <3>1, <3>2
  <2>3. epc[1] = ThreadPc /\ stack[1].pc = ThreadPc /\ stack[1].ps = Thread
    <3>1. stack[1].pc = CodeAt(1) /\ stack[1].ps = PsAt(1) /\ epc[1] = stack[1].pc
      BY <1>2, <2>2 DEF DInv, Framed, LowKept
    <3> QED
      BY <3>1 DEF CodeAt, PsAt, ThreadPc
  <2>4. saved' = <<Kept>> /\ saved' # <<>>
    BY <1>2, <2>1, <2>2, <2>3 DEF Kept
  <2>5. Registers' /\ NmiOnce'
    BY <1>1, <2>1, Zenon DEF Registers, NmiOnce, lines
  <2>6. Framed'
    <3>1. CodeAt(1)' = ThreadPc /\ PsAt(1)' = Thread
      BY DEF CodeAt, PsAt, ThreadPc
    <3>2. CodeAt(2)' = CodeAt(2)
      BY <2>1, Zenon DEF CodeAt
    <3>3. PsAt(2)' = [lvl |-> 1, excm |-> FALSE]
      BY <2>1, <2>2, <2>4 DEF PsAt
    <3>4. pc = CodeAt(2) /\ stack \in Seq(Context) /\ n <= MaxNest
      BY <1>2, <2>2 DEF DInv, Framed
    <3> QED
      BY <1>2, <2>1, <2>2, <2>3, <3>1, <3>2, <3>3, <3>4 DEF Framed
  <2>7. LowAtBottom' /\ Ascending' /\ HighKept'
    BY <1>2, <2>1, <2>2 DEF LowAtBottom, Ascending, HighKept
  <2>8. LowKept' /\ SavedSound'
    BY <1>2, <2>1, <2>2, <2>4 DEF LowKept, SavedSound
  <2> QED
    BY <2>5, <2>6, <2>7, <2>8, Zenon DEF DInv
<1>8. CASE Close
  <2>1. /\ Opened
        /\ epc' = [epc EXCEPT ![1] = saved[Len(saved)].epc1]
        /\ ps' = saved[Len(saved)].ps
        /\ saved' = SubSeq(saved, 1, Len(saved) - 1)
        /\ UNCHANGED <<pc, eps, intenable, intset, lines, stack>>
    BY <1>8, Zenon DEF Close
  <2>2. saved = <<Kept>> /\ n >= 1 /\ stack[1].lvl = 1
    BY <1>2, <2>1, Zenon DEF DInv, SavedSound, Opened
  <2>3. Len(saved) = 1 /\ saved[1] = Kept
    BY <2>2, Zenon
  <2>4. n = 1
    BY <1>2, <2>1, <2>2, <2>3, Zenon DEF Opened, Kept
  <2>5. epc' = [epc EXCEPT ![1] = ThreadPc] /\ ps' = Masked(0) /\ saved' = <<>>
    <3>1. Kept.epc1 = ThreadPc /\ Kept.ps = Masked(0)
      BY Zenon DEF Kept
    <3>2. saved' = <<>>
      BY <2>1, <2>2
    <3> QED
      BY <2>1, <2>3, <3>1, <3>2, Zenon
  <2>6. stack[1].pc = ThreadPc /\ stack[1].ps = Thread
    <3>1. stack[1].pc = CodeAt(1) /\ stack[1].ps = PsAt(1)
      BY <1>2, <2>4 DEF DInv, Framed
    <3> QED
      BY <3>1 DEF CodeAt, PsAt, ThreadPc
  <2>7. ThreadPc \in Code
    BY DEF ThreadPc, Code
  <2>8. Registers' /\ NmiOnce'
    BY <1>1, <2>1, <2>5, <2>7 DEF Registers, NmiOnce, lines
  <2>9. epc'[1] = ThreadPc
    BY <1>1, <2>5 DEF Registers
  <2>10. Framed'
    <3>1. CodeAt(1)' = ThreadPc /\ PsAt(1)' = Thread
      BY DEF CodeAt, PsAt, ThreadPc
    <3>2. CodeAt(2)' = CodeAt(2)
      BY <2>1, Zenon DEF CodeAt
    <3>3. PsAt(2)' = Masked(0)
      BY <2>1, <2>2, <2>5 DEF PsAt
    <3>4. pc = CodeAt(2) /\ stack \in Seq(Context) /\ n <= MaxNest
      BY <1>2, <2>4 DEF DInv, Framed
    <3> QED
      BY <1>2, <2>1, <2>4, <2>5, <2>6, <3>1, <3>2, <3>3, <3>4 DEF Framed
  <2>11. LowAtBottom' /\ Ascending' /\ HighKept'
    BY <1>2, <2>1, <2>2, <2>4 DEF LowAtBottom, Ascending, HighKept
  <2>12. LowKept' /\ SavedSound'
    BY <1>2, <2>1, <2>4, <2>5, <2>6, <2>9 DEF LowKept, SavedSound
  <2> QED
    BY <2>8, <2>10, <2>11, <2>12, Zenon DEF DInv
<1>9. CASE WriteIntenable \/ WriteIntclear
  <2>1. UNCHANGED <<pc, ps, epc, eps, stack, saved, asserted, cached, valid>>
    BY <1>9, Zenon DEF WriteIntenable, WriteIntclear, cpu, lines
  <2>2. intenable' \subseteq Line /\ intset' \subseteq intset
    BY <1>1, <1>9, Zenon DEF WriteIntenable, WriteIntclear, Registers
  <2>3. Registers' /\ NmiOnce'
    BY <1>1, <2>1, <2>2, Zenon DEF Registers, NmiOnce
  <2> QED
    BY <2>1, <2>3, KeepsDInv, Zenon
<1>10. CASE WriteIntset
  <2>1. UNCHANGED <<pc, ps, epc, eps, stack, saved, intenable, asserted, cached, valid>>
    BY <1>10, Zenon DEF WriteIntset, cpu, lines
  <2>2. pc.lvl < 7 /\ intset' \subseteq Line \cup {NMI}
    BY <1>1, <1>10, Zenon DEF WriteIntset, NMI_LEVEL, Registers
  <2>3. \A i \in 1 .. n : stack[i].lvl # 7
    BY <1>1, <1>2, <2>2 DEF NmiOnce
  <2>4. Registers' /\ NmiOnce'
    BY <1>1, <1>2, <2>1, <2>2, <2>3, Zenon DEF Registers, NmiOnce
  <2> QED
    BY <2>1, <2>4, KeepsDInv, Zenon
<1>11. CASE Device \/ TickTimers \/ OtherCore
  <2>1. UNCHANGED <<pc, ps, epc, eps, stack, saved, intenable, intset>>
    BY <1>11, Zenon DEF Device, TickTimers, OtherCore, cpu
  <2>2. asserted' \subseteq Line /\ cached' \subseteq Line /\ valid' \in BOOLEAN
    BY <1>1, <1>11, Zenon DEF Device, Assert, Clear, TickTimers, OtherCore, Fills, Registers
  <2>3. Registers' /\ NmiOnce'
    BY <1>1, <2>1, <2>2, Zenon DEF Registers, NmiOnce
  <2> QED
    BY <2>1, <2>3, KeepsDInv, Zenon
<1>12. CASE UNCHANGED intVars
  <2>1. UNCHANGED <<pc, ps, epc, eps, stack, saved, intenable, intset, asserted, cached, valid>>
    BY <1>12, Zenon DEF intVars, cpu, lines
  <2>2. Registers' /\ NmiOnce'
    BY <1>1, <2>1, Zenon DEF Registers, NmiOnce
  <2> QED
    BY <2>1, <2>2, KeepsDInv, Zenon
<1> QED
  BY <1>4, <1>5, <1>6, <1>7, <1>8, <1>9, <1>10, <1>11, <1>12, Zenon DEF IntNext

-----------------------------------------------------------------------------

\* The invariant holds in every reachable state.
THEOREM IntInvariant == ~NmiWired => (IntSpec => []DInv)
<1> SUFFICES ASSUME ~NmiWired PROVE IntSpec => []DInv
  BY Zenon
<1>1. IntInit => DInv
  BY InitDInv, Zenon
<1>2. DInv /\ [IntNext]_intVars => DInv'
  BY NextDInv, Zenon
<1> QED
  BY <1>1, <1>2, PTL DEF IntSpec

\* RFE and RFI resume exactly the context that was interrupted, at its pc and
\* with its PS, whatever exceptions, interrupts and software NMIs nested in
\* between, for every assignment of levels to lines.
THEOREM IntResumesExactly == ~NmiWired => (IntSpec => ResumesExactly)
<1> SUFFICES ASSUME ~NmiWired PROVE IntSpec => ResumesExactly
  BY Zenon
<1>1. DInv => [Return => LET top == stack[Len(stack)]
                         IN  pc' = top.pc /\ ps' = top.ps]_intVars
  BY ReturnFacts, Zenon
<1>2. IntSpec => []DInv
  BY IntInvariant, Zenon
<1> QED
  BY <1>1, <1>2, PTL DEF ResumesExactly

\* An interrupt only ever nests in one of a lower level.
THEOREM IntNestsUpward == ~NmiWired => (IntSpec => []NestsUpward)
<1> SUFFICES ASSUME ~NmiWired PROVE IntSpec => []NestsUpward
  BY Zenon
<1>1. DInv => NestsUpward
  BY Zenon DEF DInv, Ascending, NestsUpward
<1>2. IntSpec => []DInv
  BY IntInvariant, Zenon
<1> QED
  BY <1>1, <1>2, PTL

-----------------------------------------------------------------------------
(* OTA updates                                                             *)

\* The specification without fairness, which safety does not need.
OtaSpec == OtaInit /\ [][OtaNext]_otaVars

OtaEntry == [seq : 1 .. OTA_SEQ_ERASED, state : {"undefined", "new", "invalid", "aborted"},
          crc : BOOLEAN]

Otadata == [{0, 1} -> OtaEntry]

\* The sector an update rewrites does not count, and its sequence number is
\* above the one in force.
JobSound ==
  /\ job.step # "none" =>
       /\ job.seq \in 1 .. MaxSeq
       /\ live[job.sector].crc = FALSE
       /\ Valid(live[1 - job.sector]) => live[1 - job.sector].seq < job.seq
  /\ job.step = "crc" => live[job.sector].seq = job.seq /\ live[job.sector].state = "new"

Slots == {Factory} \union (0 .. OtaCount - 1)

OInv ==
  /\ live \in Otadata /\ image \in Otadata /\ running \in Slots /\ chosen \in Slots
  /\ job \in [step : {"none", "program", "crc"}, sector : {0, 1}, seq : 0 .. MaxSeq]
  /\ JobSound /\ Select(live) = chosen

-----------------------------------------------------------------------------

\* The largest of a set that has one.
LEMMA MaxIs ==
  ASSUME NEW S \in SUBSET Nat, NEW m \in S, \A x \in S : x <= m
  PROVE  Max(S) = m
<1>1. m \in S /\ \A y \in S : m >= y
  BY Zenon
<1>2. \A x \in S : (\A y \in S : x >= y) => x = m
  OBVIOUS
<1> QED
  BY <1>1, <1>2, Zenon DEF Max

\* The smaller of two numbers is at most the second.
LEMMA MinPairBelow ==
  ASSUME NEW a \in Nat, NEW b \in Nat
  PROVE  Min({a, b}) \in Nat /\ Min({a, b}) <= b
<1> DEFINE P(x) == x \in {a, b} /\ \A y \in {a, b} : x <= y
<1>1. P(a) \/ P(b)
  OBVIOUS
<1>2. P(Min({a, b}))
  BY <1>1, Zenon DEF Min
<1> QED
  BY <1>2, Zenon

\* A remainder is below its divisor.
LEMMA ModRange ==
  ASSUME NEW x \in Int
  PROVE  x % OtaCount \in 0 .. OtaCount - 1
BY OtaAssumption

\* One valid entry at least as high as the other is the one selected.
LEMMA SelectHighest ==
  ASSUME NEW o \in Otadata, NEW s \in {0, 1}, Valid(o[s]),
         Valid(o[1 - s]) => o[1 - s].seq <= o[s].seq
  PROVE  Select(o) = (o[s].seq - 1) % OtaCount
<1> DEFINE seqs == {o[t].seq : t \in {x \in {0, 1} : Valid(o[x])}}
<1>1. \A t \in {0, 1} : o[t].seq \in Nat /\ (t = s \/ t = 1 - s)
  BY OtaAssumption DEF Otadata, OtaEntry, OTA_SEQ_ERASED
<1>2. seqs \in SUBSET Nat /\ o[s].seq \in seqs
  BY <1>1, Zenon
<1>3. \A x \in seqs : x <= o[s].seq
  BY <1>1
<1>4. Max(seqs) = o[s].seq
  BY <1>2, <1>3, MaxIs, Zenon
<1> QED
  BY <1>2, <1>4, Zenon DEF Select

\* An invalid entry may be replaced by another invalid one.
LEMMA SelectOther ==
  ASSUME NEW o \in Otadata, NEW p \in Otadata, NEW s \in {0, 1}, 1 - s \in {0, 1} \ {s},
         ~Valid(o[s]), ~Valid(p[s]), p[1 - s] = o[1 - s]
  PROVE  Select(p) = Select(o)
<1>1. \A t \in {0, 1} : t = s \/ t = 1 - s
  BY Zenon
<1>2. {p[t].seq : t \in {x \in {0, 1} : Valid(p[x])}}
        = {o[t].seq : t \in {x \in {0, 1} : Valid(o[x])}}
  BY <1>1, Zenon
<1> QED
  BY <1>2, Zenon DEF Select

\* Without a valid entry the factory app is selected.
LEMMA SelectNone ==
  ASSUME NEW o, ~Valid(o[0]), ~Valid(o[1])
  PROVE  Select(o) = Factory
BY Zenon DEF Select

-----------------------------------------------------------------------------

\* An erased flash satisfies the invariant.
LEMMA InitOInv == OtaInit => OInv
<1> SUFFICES ASSUME OtaInit PROVE OInv
  BY Zenon
<1>1. live \in Otadata /\ image \in Otadata
  BY OtaAssumption DEF OtaInit, Otadata, OtaEntry, Erased, OTA_SEQ_ERASED
<1>2. ~Valid(live[0]) /\ ~Valid(live[1])
  BY Zenon DEF OtaInit, Erased, Valid
<1>3. JobSound
  BY Zenon DEF OtaInit, NoJob, JobSound
<1>4. job \in [step : {"none", "program", "crc"}, sector : {0, 1}, seq : 0 .. MaxSeq]
  BY OtaAssumption DEF OtaInit, NoJob
<1> QED
  BY <1>1, <1>2, <1>3, <1>4, SelectNone, Zenon DEF OtaInit, OInv, Slots

\* The entry in force is one of the two, and the highest if any is valid.
LEMMA InForceIs ==
  ASSUME live \in Otadata
  PROVE  /\ InForce \in {0, 1} /\ Spare \in {0, 1}
         /\ Valid(live[InForce]) =>
              /\ Spare = 1 - InForce
              /\ Valid(live[Spare]) => live[Spare].seq <= live[InForce].seq
         /\ ~Valid(live[InForce]) => ~Valid(live[0]) /\ ~Valid(live[1])
<1>1. live[0].seq \in Nat /\ live[1].seq \in Nat
  BY OtaAssumption DEF Otadata, OtaEntry, OTA_SEQ_ERASED
<1>2. CASE Valid(live[1]) /\ (Valid(live[0]) => live[1].seq > live[0].seq)
  <2>1. InForce = 1 /\ Spare = 1 - 1
    BY <1>2, Zenon DEF InForce, Spare
  <2> QED
    BY <1>1, <1>2, <2>1
<1>3. CASE ~(Valid(live[1]) /\ (Valid(live[0]) => live[1].seq > live[0].seq))
  <2>1. InForce = 0 /\ Spare = IF Valid(live[0]) THEN 1 - 0 ELSE 0
    BY <1>3, Zenon DEF InForce, Spare
  <2> QED
    BY <1>1, <1>3, <2>1
<1> QED
  BY <1>2, <1>3, Zenon

\* Every step preserves the invariant.
LEMMA NextOInv == OInv /\ [OtaNext]_otaVars => OInv'
<1> SUFFICES ASSUME OInv, [OtaNext]_otaVars PROVE OInv'
  BY Zenon
<1>1. /\ live \in Otadata /\ JobSound /\ Select(live) = chosen /\ chosen \in Slots
      /\ image \in Otadata /\ running \in Slots
      /\ job \in [step : {"none", "program", "crc"}, sector : {0, 1}, seq : 0 .. MaxSeq]
  BY Zenon DEF OInv
<1>2. \A t \in {0, 1} : live[t] \in OtaEntry /\ live[t].seq \in Nat /\ 1 - t \in {0, 1} \ {t}
  BY <1>1, OtaAssumption DEF Otadata, OtaEntry, OTA_SEQ_ERASED
<1>3. CASE Reset
  <2>1. /\ live' = live /\ chosen' = chosen /\ job' = NoJob /\ image' = live
        /\ running' = chosen
    BY <1>1, <1>3, Zenon DEF Reset
  <2>2. JobSound'
    BY <2>1, Zenon DEF JobSound, NoJob
  <2>3. NoJob \in [step : {"none", "program", "crc"}, sector : {0, 1}, seq : 0 .. MaxSeq]
    BY OtaAssumption DEF NoJob
  <2> QED
    BY <1>1, <2>1, <2>2, <2>3, Zenon DEF OInv, Slots
<1>4. CASE Update
  <2> DEFINE now == IF Valid(live[InForce]) THEN live[InForce].seq ELSE 0
  <2>1. PICK seq \in now + 1 .. Min({now + OtaCount, MaxSeq}) :
          job' = [step |-> "program", sector |-> Spare, seq |-> seq]
    BY <1>4, Zenon DEF Update
  <2>2. live' = [live EXCEPT ![Spare] = Erased] /\ UNCHANGED <<image, running, chosen>>
    BY <1>4, Zenon DEF Update
  <2>3. Spare \in {0, 1} /\ 1 - Spare \in {0, 1} \ {Spare}
    BY <1>1, <1>2, InForceIs, Zenon
  <2>4. Erased \in OtaEntry /\ ~Valid(Erased) /\ Erased.crc = FALSE
    BY OtaAssumption DEF Erased, OtaEntry, OTA_SEQ_ERASED, Valid
  <2>5. live' \in Otadata /\ live'[Spare] = Erased /\ live'[1 - Spare] = live[1 - Spare]
    BY <1>1, <2>2, <2>3, <2>4, Zenon DEF Otadata
  <2>6. Select(live') = chosen
    <3>1. CASE Valid(live[InForce])
      <4>1. Spare = 1 - InForce /\ InForce = 1 - Spare /\ InForce \in {0, 1}
        BY <1>1, <3>1, InForceIs
      <4>2. Select(live) = (live[InForce].seq - 1) % OtaCount
        BY <1>1, <3>1, <4>1, InForceIs, SelectHighest, Zenon
      <4>3. Select(live') = (live'[InForce].seq - 1) % OtaCount
        BY <2>4, <2>5, <3>1, <4>1, SelectHighest, Zenon
      <4> QED
        BY <1>1, <2>5, <4>1, <4>2, <4>3, Zenon
    <3>2. CASE ~Valid(live[InForce])
      <4>1. ~Valid(live[0]) /\ ~Valid(live[1])
        BY <1>1, <3>2, InForceIs, Zenon
      <4>2. ~Valid(live'[0]) /\ ~Valid(live'[1])
        BY <2>3, <2>4, <2>5, <4>1
      <4> QED
        BY <1>1, <4>1, <4>2, SelectNone, Zenon
    <3> QED
      BY <3>1, <3>2, Zenon
  <2>7. seq \in 1 .. MaxSeq /\ now < seq
    <3>1. now \in Nat /\ now + OtaCount \in Nat /\ MaxSeq \in Nat
      BY <1>1, <1>2, OtaAssumption, InForceIs
    <3> HIDE DEF now
    <3>2. Min({now + OtaCount, MaxSeq}) <= MaxSeq /\ Min({now + OtaCount, MaxSeq}) \in Nat
      BY <3>1, MinPairBelow, Zenon
    <3> QED
      BY <3>1, <3>2, <2>1
  <2>8. Valid(live'[1 - Spare]) => live'[1 - Spare].seq < seq
    <3>1. Valid(live[1 - Spare]) => 1 - Spare = InForce /\ Valid(live[InForce])
      BY <1>1, <1>2, InForceIs, Zenon
    <3> QED
      BY <2>5, <2>7, <3>1, Zenon
  <2>9. /\ job'.step = "program" /\ job'.sector = Spare /\ job'.seq = seq
        /\ job' \in [step : {"none", "program", "crc"}, sector : {0, 1}, seq : 0 .. MaxSeq]
    BY <2>1, <2>3, <2>7
  <2>10. JobSound'
    BY <2>3, <2>4, <2>5, <2>7, <2>8, <2>9, Zenon DEF JobSound
  <2> QED
    BY <1>1, <2>2, <2>5, <2>6, <2>9, <2>10, Zenon DEF OInv, Slots
<1>5. CASE Program
  <2> DEFINE sec == job.sector
             e == [live[sec] EXCEPT !.seq = job.seq, !.state = "new"]
  <2>1. /\ live' = [live EXCEPT ![sec].seq = job.seq, ![sec].state = "new"]
        /\ job' = [job EXCEPT !.step = "crc"] /\ job.step = "program"
        /\ UNCHANGED <<image, running, chosen>>
    BY <1>5, Zenon DEF Program
  <2>2. sec \in {0, 1} /\ 1 - sec \in {0, 1} \ {sec}
    BY <1>1
  <2>3. /\ job.seq \in 1 .. MaxSeq /\ live[sec].crc = FALSE
        /\ Valid(live[1 - sec]) => live[1 - sec].seq < job.seq
    BY <1>1, <2>1, Zenon DEF JobSound
  <2>4. e \in OtaEntry /\ e.seq = job.seq /\ e.state = "new" /\ e.crc = FALSE
    <3>1. live[sec] \in OtaEntry
      BY <1>2, <2>2, Zenon
    <3>2. job.seq \in 1 .. OTA_SEQ_ERASED
      BY <2>3, OtaAssumption DEF OTA_SEQ_ERASED
    <3> QED
      BY <2>3, <3>1, <3>2, Zenon DEF OtaEntry
  <2>5. live' \in Otadata /\ live'[sec] = e /\ live'[1 - sec] = live[1 - sec]
    BY <1>1, <2>1, <2>2, <2>4, Zenon DEF Otadata
  <2>6. /\ job'.step = "crc" /\ job'.sector = sec /\ job'.seq = job.seq
        /\ job' \in [step : {"none", "program", "crc"}, sector : {0, 1}, seq : 0 .. MaxSeq]
    BY <1>1, <2>1, Zenon
  <2> HIDE DEF e, sec
  <2>7. JobSound'
    BY <2>2, <2>3, <2>4, <2>5, <2>6, Zenon DEF JobSound
  <2>8. Select(live') = Select(live)
    BY <1>1, <2>2, <2>3, <2>4, <2>5, SelectOther, Zenon DEF Valid
  <2> QED
    BY <1>1, <2>1, <2>5, <2>6, <2>7, <2>8, Zenon DEF OInv, Slots
<1>6. CASE ProgramCrc
  <2> DEFINE sec == job.sector
             e == [live[sec] EXCEPT !.crc = TRUE]
  <2>1. /\ live' = [live EXCEPT ![sec].crc = TRUE] /\ job' = NoJob /\ job.step = "crc"
        /\ chosen' = (job.seq - 1) % OtaCount /\ UNCHANGED <<image, running>>
    BY <1>6, Zenon DEF ProgramCrc
  <2>2. sec \in {0, 1} /\ 1 - sec \in {0, 1} \ {sec}
    BY <1>1
  <2>3. /\ job.seq \in 1 .. MaxSeq /\ live[sec].seq = job.seq /\ live[sec].state = "new"
        /\ Valid(live[1 - sec]) => live[1 - sec].seq < job.seq
    BY <1>1, <2>1, Zenon DEF JobSound
  <2>4. e \in OtaEntry /\ e.seq = job.seq /\ Valid(e)
    <3>1. live[sec] \in OtaEntry
      BY <1>2, <2>2, Zenon
    <3>2. job.seq \in 1 .. OTA_SEQ_ERASED /\ job.seq # OTA_SEQ_ERASED
      BY <2>3, OtaAssumption DEF OTA_SEQ_ERASED
    <3>3. e \in OtaEntry /\ e.seq = job.seq /\ e.state = "new" /\ e.crc = TRUE
      BY <2>3, <3>1, <3>2, Zenon DEF OtaEntry
    <3> QED
      BY <3>2, <3>3, Zenon DEF Valid
  <2>5. live' \in Otadata /\ live'[sec] = e /\ live'[1 - sec] = live[1 - sec]
    BY <1>1, <2>1, <2>2, <2>4, Zenon DEF Otadata
  <2> HIDE DEF e, sec
  <2>6. Valid(live'[1 - sec]) => live'[1 - sec].seq <= live'[sec].seq
    BY <1>2, <2>2, <2>3, <2>4, <2>5
  <2>7. Select(live') = chosen'
    BY <2>1, <2>2, <2>4, <2>5, <2>6, SelectHighest, Zenon
  <2>8. JobSound'
    BY <2>1, Zenon DEF JobSound, NoJob
  <2>9. NoJob \in [step : {"none", "program", "crc"}, sector : {0, 1}, seq : 0 .. MaxSeq]
    BY OtaAssumption DEF NoJob
  <2>10. chosen' \in 0 .. OtaCount - 1
    BY <2>1, <2>3, ModRange
  <2> QED
    BY <1>1, <2>1, <2>5, <2>7, <2>8, <2>9, <2>10, Zenon DEF OInv, Slots
<1>7. CASE Rollback
  <2>1. PICK st \in {"invalid", "aborted"} : live' = [live EXCEPT ![InForce].state = st]
    BY <1>7, Zenon DEF Rollback
  <2>2. /\ Valid(live[0]) /\ Valid(live[1]) /\ job = NoJob
        /\ chosen' = (live[1 - InForce].seq - 1) % OtaCount
        /\ UNCHANGED <<image, job, running>>
    BY <1>7, Zenon DEF Rollback
  <2>3. InForce \in {0, 1} /\ 1 - InForce \in {0, 1} \ {InForce}
    BY <1>1, InForceIs
  <2> DEFINE e == [live[InForce] EXCEPT !.state = st]
  <2>4. e \in OtaEntry /\ ~Valid(e)
    BY <1>2, <2>3, Zenon DEF OtaEntry, Valid
  <2>5. /\ live' \in Otadata /\ live'[InForce] = e
        /\ live'[1 - InForce] = live[1 - InForce]
    BY <1>1, <2>1, <2>3, <2>4, Zenon DEF Otadata
  <2> HIDE DEF e
  <2>6. Select(live') = chosen'
    <3>1. /\ Valid(live'[1 - InForce]) /\ ~Valid(live'[1 - (1 - InForce)])
      BY <2>2, <2>3, <2>4, <2>5
    <3> QED
      BY <2>2, <2>3, <2>5, <3>1, SelectHighest, Zenon
  <2>7. JobSound'
    BY <2>2, Zenon DEF JobSound, NoJob
  <2>8. chosen' \in 0 .. OtaCount - 1
    BY <1>2, <2>2, <2>3, ModRange
  <2> QED
    BY <1>1, <2>2, <2>5, <2>6, <2>7, <2>8, Zenon DEF OInv, Slots
<1>8. CASE UNCHANGED otaVars
  BY <1>1, <1>8, Zenon DEF otaVars, OInv, JobSound, Slots
<1> QED
  BY <1>3, <1>4, <1>5, <1>6, <1>7, <1>8, Zenon DEF OtaNext

\* The invariant holds in every reachable state.
THEOREM OtaInvariant == OtaSpec => []OInv
BY InitOInv, NextOInv, PTL DEF OtaSpec

\* A reset boots what the last completed update or rollback selected, wherever
\* in an update it comes.
THEOREM OtaBootsChosen == OtaSpec => BootsChosen
<1>1. OInv => [Reset => running' = chosen]_otaVars
  BY Zenon DEF OInv, Reset
<1> QED
  BY <1>1, OtaInvariant, PTL DEF BootsChosen

\* The entries, the job and the slots are well-formed.
THEOREM OtaTypes == OtaSpec => []OtaTypeOK
<1>1. OInv => OtaTypeOK
  BY Zenon DEF OInv, Otadata, OtaEntry, Slots, OtaTypeOK
<1> QED
  BY <1>1, OtaInvariant, PTL

-----------------------------------------------------------------------------
(* Sleep                                                                   *)

\* The specification without fairness, which safety does not need.
SleepSafety == SleepInit /\ [][SleepNext]_sleepVars

SleepEntry == [deep : BOOLEAN, ulp : BOOLEAN, met : BOOLEAN, slept : 0 .. 3]
Budget == {Forever} \cup UNION {0 .. p : p \in Period \cup {1}}

Types ==
  /\ asleep \in BOOLEAN /\ light \in BOOLEAN /\ dec \in BOOLEAN /\ req \in BOOLEAN
  /\ deep \in BOOLEAN /\ written \in BOOLEAN /\ watch \in BOOLEAN /\ wdt \in BOOLEAN
  /\ remaining \in Budget /\ period \in Period \cup {0} /\ ulpLeft \in 0 .. MaxUlp
  /\ ena \subseteq Source /\ cause \subseteq Source /\ wakeupCause \subseteq Source
  /\ boot \in {0, 1} /\ entry \in SleepEntry

\* What is remembered of the entry into a sleep.
Remembered ==
  /\ asleep => (light <=> ~entry.deep) /\ (watch => entry.ulp)
  /\ ~asleep => remaining = 0 /\ cause = {}
  /\ "ulp" \notin cause

SInv == Types /\ Remembered /\ DeepWakeHasCause

\* The two action properties, of one step.
KindStep ==
  Wakes => IF entry.deep THEN boot' # boot /\ resetCause' = "deepsleep"
           ELSE boot' = boot /\ resetCause' = resetCause
UlpStep == Wakes /\ "ulp" \in wakeupCause' => entry.ulp /\ ulpLeft' = 0

Sound == SInv' /\ KindStep /\ UlpStep

-----------------------------------------------------------------------------

\* No sleep to remember, and the budgets of a machine that is awake and of
\* one in an unbounded sleep.
LEMMA Basics == Awake \in SleepEntry /\ 0 \in Budget /\ 1 \in Budget /\ Forever \in Budget
<1>1. 0 \in 0 .. 1 /\ 1 \in 0 .. 1
  OBVIOUS
<1> QED
  <2>1. 0 \in Budget /\ 1 \in Budget /\ Forever \in Budget
    BY <1>1, Zenon DEF Budget
  <2>2. Awake \in SleepEntry
    BY DEF Awake, SleepEntry
  <2> QED
    BY <2>1, <2>2, Zenon

\* A reboot leaves every variable in its range.
LEMMA RebootTypes ==
  ASSUME SInv, NEW w \in SUBSET Source, NEW r, Reboot(w, r), ulpLeft' \in 0 .. MaxUlp
  PROVE  Types'
<1>1. boot' \in {0, 1}
  BY DEF SInv, Types, Reboot
<1>2. /\ {} \subseteq Source /\ TRUE \in BOOLEAN /\ FALSE \in BOOLEAN
      /\ 0 \in Period \cup {0}
  BY Zenon
<1> QED
  BY <1>1, <1>2, Basics, Zenon DEF Types, Reboot

\* A reboot by a device forgets the sleep.
LEMMA RebootSound ==
  ASSUME SInv, Reboot({}, "poweron"), ulpLeft' \in 0 .. MaxUlp
  PROVE  Sound
<1>1. Types'
  <2>1. {} \in SUBSET Source
    BY Zenon
  <2> QED
    BY <2>1, RebootTypes, Zenon
<1>2. Remembered' /\ DeepWakeHasCause'
  BY Zenon DEF Reboot, Remembered, DeepWakeHasCause
<1>3. ~Wakes
  BY Zenon DEF Reboot, Wakes
<1> QED
  BY <1>1, <1>2, <1>3, Zenon DEF Sound, SInv, KindStep, UlpStep

\* A sleep that ends, ends as it was requested and with a cause that is its
\* own.
LEMMA WakeSound ==
  ASSUME SInv, asleep, NEW c \in SUBSET Source, NEW w \in BOOLEAN, NEW b \in BOOLEAN,
         Wake(c, w, b), ulpLeft' \in 0 .. MaxUlp, "ulp" \in c => entry.ulp /\ ulpLeft' = 0
  PROVE  Sound
<1> DEFINE told == IF c = {} THEN {"timer"} ELSE c
<1>1. told # {} /\ told \subseteq Source /\ ("ulp" \in told => "ulp" \in c)
  BY Zenon DEF Source
<1>2. CASE light
  <2>1. /\ wakeupCause' = told /\ asleep' = FALSE /\ remaining' = 0 /\ cause' = {}
        /\ watch' = w /\ wdt' = b /\ entry' = Awake
        /\ UNCHANGED <<light, dec, req, deep, period, written, ena, resetCause, boot>>
    BY <1>2, Zenon DEF Wake
  <2> HIDE DEF told
  <2>2. Types'
    BY <1>1, <2>1, Basics, ZenonT(60) DEF SInv, Types
  <2>3. Remembered' /\ DeepWakeHasCause'
    BY <1>1, <2>1, Zenon DEF Remembered, DeepWakeHasCause
  <2>4. KindStep /\ UlpStep
    BY <1>1, <1>2, <2>1, Zenon DEF SInv, Remembered, KindStep, UlpStep, Wakes
  <2> QED
    BY <2>2, <2>3, <2>4, Zenon DEF Sound, SInv
<1>3. CASE ~light
  <2>1. Reboot(told, "deepsleep")
    BY <1>3, Zenon DEF Wake
  <2> HIDE DEF told
  <2>2. Types'
    BY <1>1, <2>1, RebootTypes, Zenon
  <2>3. Remembered' /\ DeepWakeHasCause'
    BY <1>1, <2>1, Zenon DEF Reboot, Remembered, DeepWakeHasCause
  <2>4. KindStep /\ UlpStep
    BY <1>1, <1>3, <2>1 DEF SInv, Types, Remembered, KindStep, UlpStep, Reboot
  <2> QED
    BY <2>2, <2>3, <2>4, Zenon DEF Sound, SInv
<1> QED
  BY <1>2, <1>3, Zenon
\* A budget that is not used up can be lowered to any number not above it.
LEMMA Lower ==
  ASSUME NEW r \in Budget, r # Forever, NEW q \in Nat, q <= r
  PROVE  q \in Budget
<1>1. PICK p \in Period \cup {1} : r \in 0 .. p
  BY Zenon DEF Budget
<1>2. p \in Nat
  BY SleepAssumption
<1>3. q \in 0 .. p
  BY <1>1, <1>2
<1> QED
  BY <1>1, <1>3, Zenon DEF Budget

\* A budget is a number or unbounded.
LEMMA BudgetInt ==
  ASSUME NEW r \in Budget, r # Forever
  PROVE  r \in Nat
BY SleepAssumption DEF Budget

\* A tick asleep, after which the coprocessor has n instructions left.
LEMMA TickSound ==
  ASSUME SInv, asleep, NEW n \in 0 .. MaxUlp, NEW b \in BOOLEAN,
         ulpLeft' = n, SleepTick(n > 0, b)
  PROVE  Sound
<1>1. Types /\ Remembered /\ cause \in SUBSET Source /\ watch \in BOOLEAN
  BY Zenon DEF SInv, Types
<1>2. CASE watch /\ ~(n > 0)
  <2>1. Wake(cause \cup {"ulp"}, FALSE, b)
    BY <1>2, Zenon DEF SleepTick
  <2>3. n = 0 /\ entry.ulp
    BY <1>1, <1>2, SleepAssumption DEF Remembered
  <2>2. cause \cup {"ulp"} \in SUBSET Source
    BY <1>1, Zenon DEF Source
  <2> QED
    BY <2>1, <2>2, <2>3, WakeSound, Zenon
<1>3. CASE ~(watch /\ ~(n > 0)) /\ remaining = 0
  <2>1. Wake(cause, watch, b) /\ "ulp" \notin cause
    BY <1>1, <1>3, Zenon DEF SleepTick, Remembered
  <2> QED
    BY <1>1, <2>1, WakeSound, Zenon
<1>4. CASE ~(watch /\ ~(n > 0)) /\ remaining # 0
  <2>1. /\ remaining' = IF remaining = Forever THEN Forever ELSE remaining - 1
        /\ wdt' = b
        /\ entry' = [entry EXCEPT !.slept = IF entry.slept < 3 THEN entry.slept + 1
                                             ELSE entry.slept]
        /\ UNCHANGED <<asleep, light, dec, rtc, watch, cause, boot>>
    BY <1>4, Zenon DEF SleepTick
  <2>2. entry' \in SleepEntry /\ entry'.deep = entry.deep /\ entry'.ulp = entry.ulp
    <3>1. entry \in SleepEntry
      BY <1>1, Zenon DEF Types
    <3>2. (IF entry.slept < 3 THEN entry.slept + 1 ELSE entry.slept) \in 0 .. 3
      BY <3>1 DEF SleepEntry
    <3> QED
      BY <2>1, <3>1, <3>2, Zenon DEF SleepEntry
  <2>3. remaining' \in Budget
    <3>1. CASE remaining = Forever
      BY <2>1, <3>1, Basics, Zenon
    <3>2. CASE remaining # Forever
      <4>1. remaining \in Budget /\ remaining \in Nat
        BY <1>1, <3>2, BudgetInt, Zenon DEF Types
      <4>2. remaining - 1 \in Nat /\ remaining - 1 <= remaining
        BY <1>4, <4>1
      <4> QED
        BY <2>1, <3>2, <4>1, <4>2, Lower, Zenon
    <3> QED
      BY <3>1, <3>2, Zenon
  <2>4. UNCHANGED <<req, deep, period, written, ena, wakeupCause, resetCause>>
    BY <2>1, Zenon DEF rtc
  <2>5. Types'
    BY <1>1, <2>1, <2>2, <2>3, <2>4 DEF Types
  <2>6. Remembered' /\ DeepWakeHasCause'
    BY <1>1, <2>1, <2>2, <2>4, Zenon DEF SInv, Remembered, DeepWakeHasCause
  <2>7. ~Wakes
    BY <2>1, Zenon DEF Wakes
  <2> QED
    BY <2>5, <2>6, <2>7, Zenon DEF Sound, SInv, KindStep, UlpStep
<1> QED
  BY <1>2, <1>3, <1>4, Zenon

\* The entry into sleep.
LEMMA EnterSound ==
  ASSUME SInv, ~asleep, NEW n \in 0 .. MaxUlp, NEW met \in BOOLEAN, NEW b \in BOOLEAN,
         ulpLeft' = n, EnterSleep(n > 0, met, b)
  PROVE  Sound
<1> DEFINE c == (IF met /\ "trigger" \in ena THEN {"trigger"} ELSE {})
                \cup (IF TimerArmed THEN {"timer"} ELSE {})
           budget == IF TimerArmed THEN period ELSE IF c # {} THEN 1 ELSE Forever
<1>1. Types /\ Remembered
  BY Zenon DEF SInv
<1>2. /\ req' = FALSE /\ cause' = c /\ watch' = Watched(n > 0)
      /\ asleep' = TRUE /\ light' = Kind
      /\ remaining' = IF budget = 0 THEN 1 ELSE budget
      /\ wdt' = b
      /\ entry' = [deep |-> deep, ulp |-> n > 0, met |-> "trigger" \in c, slept |-> 0]
      /\ UNCHANGED <<dec, deep, period, written, ena, wakeupCause, resetCause, boot>>
  BY Zenon DEF EnterSleep
<1>3. c \subseteq Source /\ "ulp" \notin c
  BY Zenon DEF Source
<1>4. remaining' \in Budget
  <2>1. \A p \in Period : p \in 0 .. p
    BY SleepAssumption
  <2>2. \A p \in Period : p \in Budget
    BY <2>1, Zenon DEF Budget
  <2>3. budget \in Budget \cup {0}
    BY <1>1, <2>2, Basics, Zenon DEF Types
  <2> HIDE DEF budget
  <2> QED
    BY <1>2, <2>3, Basics, Zenon
<1> HIDE DEF c, budget
<1>5. entry' \in SleepEntry /\ entry'.deep = deep /\ entry'.ulp = (n > 0)
  <2>1. (n > 0) \in BOOLEAN /\ ("trigger" \in c) \in BOOLEAN /\ deep \in BOOLEAN /\ 0 \in 0 .. 3
    BY <1>1 DEF Types
  <2> QED
    BY <1>2, <2>1, Zenon DEF SleepEntry
<1>6. watch' \in BOOLEAN /\ light' \in BOOLEAN /\ (light' <=> ~deep) /\ (watch' => n > 0)
  BY <1>1, <1>2, Zenon DEF Watched, Kind, Types
<1>7. Types'
  BY <1>1, <1>2, <1>3, <1>4, <1>5, <1>6, Zenon DEF Types
<1>8. Remembered' /\ DeepWakeHasCause'
  BY <1>2, <1>3, <1>5, <1>6, Zenon DEF SInv, Remembered, DeepWakeHasCause
<1>9. ~Wakes
  BY Zenon DEF Wakes
<1> QED
  BY <1>7, <1>8, <1>9, Zenon DEF Sound, SInv, KindStep, UlpStep

\* The firmware's part of a step.
LEMMA CpuSound ==
  ASSUME SInv, ~asleep, NEW n \in 0 .. MaxUlp, NEW b \in BOOLEAN, Cpu(n, b)
  PROVE  Sound
<1>1. Types /\ Remembered
  BY Zenon DEF SInv
<1>2. /\ UNCHANGED <<asleep, light, remaining, watch, cause, wakeupCause, resetCause,
                     boot, entry>>
      /\ dec' \in BOOLEAN /\ wdt' = b
  BY Zenon DEF Cpu
<1>3. /\ req' \in BOOLEAN /\ deep' \in BOOLEAN /\ written' \in BOOLEAN
      /\ period' \in Period \cup {0} /\ ena' \subseteq Source /\ ulpLeft' \in 0 .. MaxUlp
  <2>1. 1 .. MaxUlp \subseteq 0 .. MaxUlp
    BY SleepAssumption
  <2> QED
    BY <1>1, <2>1, Zenon DEF Cpu, Types
<1>4. Types'
  BY <1>1, <1>2, <1>3, Zenon DEF Types
<1>5. Remembered' /\ DeepWakeHasCause'
  BY <1>1, <1>2, Zenon DEF SInv, Remembered, DeepWakeHasCause
<1>6. ~Wakes
  BY Zenon DEF Wakes
<1> QED
  BY <1>4, <1>5, <1>6, Zenon DEF Sound, SInv, KindStep, UlpStep
\* The ticks of a step leave the coprocessor's count in its range.
LEMMA TickedRange ==
  ASSUME SInv, NEW k \in Nat
  PROVE  Ticked(k) \in 0 .. MaxUlp
BY SleepAssumption DEF SInv, Types, Ticked

\* What follows a tick in step.
LEMMA AfterTickSound ==
  ASSUME SInv, NEW n \in 0 .. MaxUlp, NEW b \in BOOLEAN, AfterTick(n, b)
  PROVE  Sound
<1>1. CASE asleep /\ ulpLeft' = n /\ SleepTick(n > 0, b)
  BY <1>1, TickSound, Zenon
<1>2. CASE ~asleep /\ req /\ ulpLeft' = n /\ \E met \in BOOLEAN : EnterSleep(n > 0, met, b)
  BY <1>2, EnterSound, Zenon
<1>3. CASE ~asleep /\ ~req /\ Cpu(n, b)
  BY <1>3, CpuSound, Zenon
<1> QED
  BY <1>1, <1>2, <1>3, Zenon DEF AfterTick

\* Every step of every host loop.
LEMMA NextSound ==
  ASSUME SInv, SleepNext
  PROVE  Sound
<1>1. Pending \subseteq BOOLEAN /\ wdt \in BOOLEAN /\ watch \in BOOLEAN
  BY Zenon DEF SInv, Types, Pending
<1>2. /\ Ticked(1) \in 0 .. MaxUlp /\ Ticked(2) \in 0 .. MaxUlp /\ ulpLeft \in 0 .. MaxUlp
  BY TickedRange, Zenon DEF SInv, Types
<1>3. CASE Step(Pending)
  <2>1. PICK bite \in Pending :
          IF bite THEN ulpLeft' = Ticked(1) /\ Reboot({}, "poweron")
          ELSE AfterTick(Ticked(1), FALSE)
    BY <1>3, Zenon DEF Step
  <2>2. CASE bite
    BY <1>2, <2>1, <2>2, RebootSound, Zenon
  <2>3. CASE ~bite
    BY <1>2, <2>1, <2>3, AfterTickSound, Zenon
  <2> QED
    BY <2>2, <2>3, Zenon
<1>4. CASE FastUndecodable(Pending)
  <2>1. PICK bite \in Pending, late \in Pending :
          IF bite THEN ulpLeft' = Ticked(1) /\ Reboot({}, "poweron")
          ELSE IF asleep THEN ulpLeft' = Ticked(2) /\ SleepTick(Ticked(2) > 0, late)
          ELSE AfterTick(Ticked(1), FALSE)
    BY <1>4, Zenon DEF FastUndecodable
  <2>2. CASE bite
    BY <1>2, <2>1, <2>2, RebootSound, Zenon
  <2>3. CASE ~bite /\ asleep
    BY <1>1, <1>2, <2>1, <2>3, TickSound, Zenon
  <2>4. CASE ~bite /\ ~asleep
    BY <1>2, <2>1, <2>4, AfterTickSound, Zenon
  <2> QED
    BY <2>2, <2>3, <2>4, Zenon
<1>5. CASE FastAsleep(Pending)
  BY <1>1, <1>2, <1>5, TickSound, Zenon DEF FastAsleep
<1>6. CASE FastRunTick(Pending)
  <2>1. PICK bite \in Pending :
          IF bite THEN ulpLeft' = Ticked(1) /\ Reboot({}, "poweron") ELSE Cpu(Ticked(1), FALSE)
    BY <1>6, Zenon DEF FastRunTick
  <2>2. CASE bite
    BY <1>2, <2>1, <2>2, RebootSound, Zenon
  <2>3. CASE ~bite
    BY <1>2, <1>6, <2>1, <2>3, CpuSound, Zenon DEF FastRunTick
  <2> QED
    BY <2>2, <2>3, Zenon
<1>7. CASE FastEnter
  BY <1>1, <1>2, <1>7, EnterSound, Zenon DEF FastEnter
<1>8. CASE FastRun
  BY <1>1, <1>2, <1>8, CpuSound, Zenon DEF FastRun
<1>9. CASE FastForward
  <2>1. PICK max \in 1 .. MaxSkip :
          IF Forwarded(max) = 0 THEN Wake(cause, watch, wdt)
          ELSE /\ remaining' = Forwarded(max)
               /\ UNCHANGED <<asleep, light, dec, rtc, watch, cause, wdt, boot, entry>>
    BY <1>9, Zenon DEF FastForward
  <2>2. asleep /\ ulpLeft' = ulpLeft
    BY <1>9, Zenon DEF FastForward
  <2>3. CASE Forwarded(max) = 0
    <3>1. cause \in SUBSET Source /\ "ulp" \notin cause
      BY Zenon DEF SInv, Types, Remembered
    <3> QED
      BY <1>1, <1>2, <2>1, <2>2, <2>3, <3>1, WakeSound, Zenon
  <2>4. CASE Forwarded(max) # 0
    <3>1. /\ remaining' = Forwarded(max)
          /\ UNCHANGED <<asleep, light, dec, rtc, watch, cause, wdt, boot, entry>>
      BY <2>1, <2>4, Zenon
    <3>2. remaining' \in Budget
      <4>1. CASE remaining = Forever
        BY <3>1, <4>1, Basics, Zenon DEF Forwarded
      <4>2. CASE remaining # Forever
        <5>1. remaining \in Budget /\ remaining \in Nat
          BY <4>2, BudgetInt, Zenon DEF SInv, Types
        <5>2. Forwarded(max) \in Nat /\ Forwarded(max) <= remaining
          BY <4>2, <5>1, SleepAssumption DEF Forwarded
        <5> QED
          BY <3>1, <4>2, <5>1, <5>2, Lower, Zenon
      <4> QED
        BY <4>1, <4>2, Zenon
    <3>3. UNCHANGED <<req, deep, period, written, ena, wakeupCause, resetCause>>
      BY <3>1, Zenon DEF rtc
    <3>4. Types' /\ Remembered' /\ DeepWakeHasCause'
      BY <2>2, <3>1, <3>2, <3>3 DEF SInv, Types, Remembered, DeepWakeHasCause
    <3>5. ~Wakes
      BY <2>2, <3>1, Zenon DEF Wakes
    <3> QED
      BY <3>4, <3>5, Zenon DEF Sound, SInv, KindStep, UlpStep
  <2> QED
    BY <2>3, <2>4, Zenon
<1> QED
  BY <1>3, <1>4, <1>5, <1>6, <1>7, <1>8, <1>9, Zenon DEF SleepNext

\* A stuttering step changes nothing.
LEMMA StutterSound ==
  ASSUME SInv, UNCHANGED sleepVars
  PROVE  SInv'
BY DEF SInv, Types, Remembered, DeepWakeHasCause, sleepVars, machine, rtc

\* The machine after power-on satisfies the invariant.
LEMMA InitSInv == SleepInit => SInv
<1> SUFFICES ASSUME SleepInit PROVE SInv
  BY Zenon
<1>1. 0 \in 0 .. MaxUlp /\ 0 \in Period \cup {0}
  BY SleepAssumption
<1>2. Types
  BY <1>1, Basics, Zenon DEF SleepInit, Types
<1>3. Remembered /\ DeepWakeHasCause
  BY Zenon DEF SleepInit, Remembered, DeepWakeHasCause
<1> QED
  BY <1>2, <1>3, Zenon DEF SInv

-----------------------------------------------------------------------------

\* The invariant holds in every reachable state.
THEOREM SleepInvariant == SleepSafety => []SInv
<1>1. SInv /\ [SleepNext]_sleepVars => SInv'
  BY NextSound, StutterSound, Zenon DEF Sound
<1> QED
  BY <1>1, InitSInv, PTL DEF SleepSafety

\* The sleep state and the registers behind it stay within their ranges, and
\* a machine that is awake has no sleep left to serve.
THEOREM SleepTypes == SleepSafety => []SleepTypeOK
<1>1. SInv => SleepTypeOK
  BY DEF SInv, Types, Remembered, SleepTypeOK, Budget
<1> QED
  BY <1>1, SleepInvariant, PTL

\* After a deep-sleep reboot the firmware finds a wake cause, under every
\* host loop.
THEOREM SleepDeepWakeHasCause == SleepSafety => []DeepWakeHasCause
<1>1. SInv => DeepWakeHasCause
  BY Zenon DEF SInv
<1> QED
  BY <1>1, SleepInvariant, PTL

\* A sleep ends the way it was requested, however many steps and register
\* writes earlier.
THEOREM SleepKindRespected == SleepSafety => KindRespected
<1>1. SInv /\ [SleepNext]_sleepVars => [KindStep]_sleepVars
  BY NextSound, Zenon DEF Sound
<1>2. SleepSafety => [][KindStep]_sleepVars
  BY <1>1, SleepInvariant, PTL DEF SleepSafety
<1> QED
  BY <1>2, Zenon DEF KindRespected, KindStep

\* A wake by the coprocessor is reported only if it ran when this sleep began
\* and halted in it.
THEOREM SleepUlpCauseFresh == SleepSafety => UlpCauseFresh
<1>1. SInv /\ [SleepNext]_sleepVars => [UlpStep]_sleepVars
  BY NextSound, Zenon DEF Sound
<1>2. SleepSafety => [][UlpStep]_sleepVars
  BY <1>1, SleepInvariant, PTL DEF SleepSafety
<1> QED
  BY <1>2, Zenon DEF UlpCauseFresh, UlpStep

=============================================================================
