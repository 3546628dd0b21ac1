--------------------------- MODULE CounterProofs ---------------------------
(***************************************************************************)
(* Proofs about the peripherals that count: the main watchdog (Mwdt), the  *)
(* general purpose timer (TimgTimer), the system timer (Systimer) and the  *)
(* pulse counter (Pcnt).                                                   *)
(*                                                                         *)
(* The watchdog never fires a stage early or out of order, for any holds,  *)
(* prescalers and actions and however they are changed under way.          *)
(* CountWithinElapsed is not inductive alone: a tick adds minPre to        *)
(* count * minPre and takes the current divisor off the remainder, so the  *)
(* divisor must be known to be at least minPre.                            *)
(*                                                                         *)
(* The timer's period is exact for every word size and divider: the        *)
(* invariant relates the counter, the remainder of the divider and the     *)
(* clocks since the alarm modulo the words' size.  The system timer keeps  *)
(* the grid of its period, and the pulse counter the encoder's position,   *)
(* for every width and every order of steps.                               *)
(***************************************************************************)
EXTENDS Mwdt, TimgTimer, Systimer, Pcnt, TLAPS

\* The divisor in force is one of those minPre is the least of.
MinPreOK == minPre <= Divisor(prescale)

MwdtIInv == TypeOK /\ MinPreOK /\ CountWithinElapsed

-----------------------------------------------------------------------------
(* Arithmetic                                                              *)

\* A product grows by its other factor.
LEMMA TimesSucc ==
  ASSUME NEW a \in Nat, NEW m \in Nat
  PROVE  (a + 1) * m = a * m + m /\ a * m \in Nat
OBVIOUS

\* Products are monotone.
LEMMA TimesMono ==
  ASSUME NEW a \in Nat, NEW b \in Nat, NEW m \in Nat, a <= b
  PROVE  a * m <= b * m
OBVIOUS

\* The wrapped counter.
LEMMA WrapBound ==
  ASSUME NEW c \in Nat
  PROVE  (c + 1) % CountMod \in 0 .. CountMod - 1 /\ (c + 1) % CountMod <= c + 1
BY MwdtAssumption

\* A divisor is a positive natural.
LEMMA DivisorPos ==
  ASSUME NEW p \in Prescale
  PROVE  Divisor(p) \in Nat \ {0}
BY MwdtAssumption DEF Divisor

\* Thresholds are naturals that grow with the stage.
LEMMA ThrNat ==
  ASSUME TypeOK
  PROVE  /\ \A i \in Stage : Thr(i) \in Nat
         /\ \A i, j \in Stage : i < j => Thr(i) <= Thr(j)
<1>1. Stage \subseteq 0..3
  BY MwdtAssumption
<1>h. \A i \in Stage : hold[i] \in Nat
  BY MwdtAssumption, Zenon DEF TypeOK
<1>c. \A i, j \in 0..3 : i \in Stage /\ j <= i => j \in Stage
  BY MwdtAssumption
<1>2. 0 \in Stage
  BY MwdtAssumption
<1>3. QED
  BY <1>1, <1>h, <1>c, <1>2 DEF Thr

-----------------------------------------------------------------------------
(* The invariant                                                           *)

\* The initial state satisfies the invariant.
LEMMA MwdtInitIInv == Init => MwdtIInv
<1> SUFFICES ASSUME Init PROVE MwdtIInv
  BY Zenon
<1>0. 0 \in 0 .. CountMod - 1 /\ 0 \in 0 .. Cap /\ 1 \in Nat \ {0}
  BY MwdtAssumption
<1>1. TypeOK
  BY <1>0, MwdtAssumption, Zenon DEF Init, TypeOK, NoStage
<1>2. QED
  BY <1>1, MwdtAssumption DEF Init, MwdtIInv, MinPreOK, CountWithinElapsed, Divisor

\* The step of the counter past the prescaler.
LEMMA CountStep ==
  ASSUME NEW c \in Nat, NEW f \in [Stage -> BOOLEAN], TypeOK, Count(c, f)
  PROVE  /\ count' \in 0 .. CountMod - 1 /\ count' <= c + 1
         /\ fired' \in [Stage -> BOOLEAN]
         /\ intRaw' \in BOOLEAN /\ reset' \in BOOLEAN
         /\ \A i \in Stage : ~f[i] /\ fired'[i] => count' >= Thr(i) /\ Thr(i) # 0
         /\ \A i \in Stage : count' >= Thr(i) => fired'[i] \/ Thr(i) = 0
<1>1. count' \in 0 .. CountMod - 1 /\ count' <= c + 1
  BY WrapBound, Zenon DEF Count
<1>2. fired' \in [Stage -> BOOLEAN]
  BY Zenon DEF Count
<1>3. intRaw' \in BOOLEAN /\ reset' \in BOOLEAN
  BY Zenon DEF Count, TypeOK
<1>4. \A i \in Stage : ~f[i] /\ fired'[i] => count' >= Thr(i) /\ Thr(i) # 0
  BY Zenon DEF Count
<1>5. \A i \in Stage : count' >= Thr(i) => fired'[i] \/ Thr(i) = 0
  BY Zenon DEF Count
<1>6. QED
  BY <1>1, <1>2, <1>3, <1>4, <1>5, Zenon

\* Every step preserves the invariant.
LEMMA MwdtNextIInv == MwdtIInv /\ [Next]_vars => MwdtIInv'
<1> SUFFICES ASSUME MwdtIInv, [Next]_vars PROVE MwdtIInv'
  BY Zenon
<1> USE DEF MwdtIInv
<1>t. /\ count \in Nat /\ clkAcc \in Nat /\ elapsed \in Nat /\ elapsed <= Cap
      /\ Cap \in Nat \ {0} /\ minPre \in Nat \ {0}
      /\ Divisor(prescale) \in Nat \ {0}
      /\ count * minPre \in Nat
  BY MwdtAssumption, DivisorPos, TimesSucc DEF TypeOK
<1>1. CASE WriteProtect
  BY <1>1, Zenon DEF WriteProtect, TypeOK, MinPreOK, CountWithinElapsed, hist
<1>2. CASE WriteConfig0
  BY <1>2, Zenon DEF WriteConfig0, TypeOK, MinPreOK, CountWithinElapsed, hist
<1>3. CASE WriteConfig1
  <2>1. Divisor(prescale') \in Nat \ {0}
    BY <1>3, DivisorPos, Zenon DEF WriteConfig1
  <2>2. minPre' \in Nat \ {0} /\ minPre' <= minPre /\ minPre' <= Divisor(prescale')
    BY <1>3, <1>t, <2>1 DEF WriteConfig1, Smaller
  <2>3. TypeOK'
    BY <1>3, <2>2, Zenon DEF WriteConfig1, TypeOK
  <2>4. minPre' * count <= minPre * count
    BY <2>2, <1>t, TimesMono, Zenon
  <2>5. CountWithinElapsed'
    BY <1>3, <1>t, <2>2, <2>4 DEF WriteConfig1, CountWithinElapsed
  <2>6. QED
    BY <1>3, <2>2, <2>3, <2>5, Zenon DEF WriteConfig1, MinPreOK
<1>4. CASE WriteHold
  <2>1. hold' \in [Stage -> Hold]
    BY <1>4, Zenon DEF WriteHold, TypeOK
  <2>2. QED
    BY <1>4, <2>1, Zenon DEF WriteHold, TypeOK, MinPreOK, CountWithinElapsed, hist
<1>5. CASE Feed
  <2>1. TypeOK'
    BY <1>5, <1>t, MwdtAssumption DEF Feed, TypeOK, cfg, NoStage
  <2>2. QED
    BY <1>5, <2>1, <1>t DEF Feed, MinPreOK, CountWithinElapsed, cfg
<1>6. CASE IntClr
  BY <1>6, Zenon DEF IntClr, TypeOK, MinPreOK, CountWithinElapsed, hist, cfg
<1>7. CASE Hang
  BY <1>7, Zenon DEF Hang, TypeOK, MinPreOK, CountWithinElapsed, hist, cfg
<1>8. CASE Tick
  <2> DEFINE c == IF running THEN count ELSE 0
             f == IF running THEN fired ELSE NoStage
             r == IF running THEN clkAcc ELSE 0
             e == IF running THEN elapsed ELSE 0
             m == IF running THEN minPre ELSE Divisor(prescale)
             d == Divisor(prescale)
  <2>1. /\ c \in 0 .. CountMod - 1 /\ c \in Nat /\ r \in Nat /\ e \in Nat /\ e <= Cap
        /\ m \in Nat \ {0} /\ m <= d /\ f \in [Stage -> BOOLEAN]
    BY <1>t, MwdtAssumption DEF TypeOK, MinPreOK, NoStage
  <2>2. c * m \in Nat /\ (c + 1) * m = c * m + m
    BY <2>1, TimesSucc, Zenon
  <2>3. e = Cap \/ r + c * m <= e
    BY <1>t, <2>1, <2>2 DEF CountWithinElapsed
  <2>4. /\ minPre' = m /\ elapsed' = Smaller(Cap, e + 1)
        /\ running' = TRUE /\ cfg' = cfg /\ hung' = hung
    BY <1>8, Zenon DEF Tick
  <2>5. elapsed' \in 0 .. Cap /\ (elapsed' = Cap \/ (elapsed' = e + 1 /\ e # Cap))
    BY <2>4, <2>1, <1>t DEF Smaller
  <2>6. MinPreOK'
    BY <2>4, <2>1, Zenon DEF MinPreOK, cfg
  <2>7. CASE r + 1 < d
    <3>1. clkAcc' = r + 1 /\ count' = c /\ fired' = f /\ intRaw' = intRaw /\ reset' = reset
      BY <1>8, <2>7, Zenon DEF Tick
    <3>2. TypeOK'
      BY <3>1, <2>1, <2>4, <2>5 DEF TypeOK, cfg
    <3>3. CountWithinElapsed'
      BY <3>1, <2>1, <2>2, <2>3, <2>4, <2>5 DEF CountWithinElapsed
    <3>4. QED
      BY <3>2, <3>3, <2>6, Zenon
  <2>8. CASE ~(r + 1 < d)
    <3>1. clkAcc' = r + 1 - d /\ Count(c, f)
      <4>1. r + 1 < d \/ Count(c, f)
        BY <1>8, Zenon DEF Tick
      <4>2. r + 1 < d \/ clkAcc' = r + 1 - d
        BY <1>8, <1>t, <2>1 DEF Tick
      <4> HIDE DEF c, f, r, d
      <4>3. QED
        BY <4>1, <4>2, <2>8, Zenon
    <3>2. /\ count' \in 0 .. CountMod - 1 /\ count' <= c + 1
          /\ fired' \in [Stage -> BOOLEAN]
          /\ intRaw' \in BOOLEAN /\ reset' \in BOOLEAN
      BY <3>1, <2>1, CountStep, Zenon
    <3>3. clkAcc' \in Nat
      BY <3>1, <2>1, <2>8, <1>t
    <3>4. TypeOK'
      BY <3>2, <3>3, <2>1, <2>4, <2>5, Zenon DEF TypeOK, cfg
    <3>5. count' * m <= (c + 1) * m
      BY <3>2, <2>1, TimesMono, MwdtAssumption
    <3>6. count' * m \in Nat
      BY <3>2, <2>1, TimesSucc, MwdtAssumption
    <3>7. elapsed' = Cap \/ clkAcc' + count' * m <= elapsed'
      <4> DEFINE x == c * m
                 y == count' * m
      <4>1. x \in Nat /\ y \in Nat /\ y <= x + m /\ (e = Cap \/ r + x <= e)
        BY <3>5, <3>6, <2>2, <2>3, Zenon
      <4>2. r \in Nat /\ e \in Nat /\ m \in Nat /\ d \in Nat /\ m <= d /\ clkAcc' = r + 1 - d
        BY <2>1, <3>1, <1>t, Zenon
      <4> HIDE DEF x, y, r, e, m, d
      <4>3. elapsed' = Cap \/ clkAcc' + y <= elapsed'
        BY <4>1, <4>2, <2>5
      <4>4. QED
        BY <4>3, Zenon DEF y
    <3>8. QED
      BY <3>4, <3>7, <2>4, <2>6, Zenon DEF CountWithinElapsed
  <2>9. QED
    BY <2>7, <2>8, Zenon
<1>9. CASE ConsumeReset
  <2>0. 0 \in 0 .. CountMod - 1 /\ 0 \in 0 .. Cap /\ 1 \in Nat \ {0}
    BY MwdtAssumption
  <2>1. TypeOK'
    BY <2>0, <1>9, MwdtAssumption, Zenon DEF ConsumeReset, TypeOK, NoStage
  <2>2. QED
    BY <1>9, <2>1 DEF ConsumeReset, MinPreOK, CountWithinElapsed, Divisor
<1>10. CASE UNCHANGED vars
  BY <1>10, Zenon DEF vars, cfg, hist, TypeOK, MinPreOK, CountWithinElapsed
<1>11. QED
  BY <1>1, <1>2, <1>3, <1>4, <1>5, <1>6, <1>7, <1>8, <1>9, <1>10, Zenon DEF Next

\* The invariant holds of every behaviour.
LEMMA MwdtSpecIInv == Spec => []MwdtIInv
BY MwdtInitIInv, MwdtNextIInv, PTL DEF Spec

-----------------------------------------------------------------------------
(* Theorems                                                                *)

\* Type correctness of the watchdog for every configuration.
THEOREM MwdtTypeOK == Spec => []TypeOK
<1>1. MwdtIInv => TypeOK
  BY Zenon DEF MwdtIInv
<1>2. QED
  BY <1>1, MwdtSpecIInv, PTL

\* The count never runs ahead of the time since the last feed.
THEOREM MwdtCountWithinElapsed == Spec => []CountWithinElapsed
<1>1. MwdtIInv => CountWithinElapsed
  BY Zenon DEF MwdtIInv
<1>2. QED
  BY <1>1, MwdtSpecIInv, PTL

\* Only a tick past the prescaler fires a stage.
LEMMA FiresInCount ==
  ASSUME MwdtIInv, Next, NEW i \in Stage, ~fired[i], fired'[i]
  PROVE  /\ count' \in Nat /\ count' >= Thr(i)
         /\ \A j \in Stage : count' >= Thr(j) => fired'[j] \/ Thr(j) = 0
<1>1. Tick
  BY Zenon DEF Next, WriteProtect, WriteConfig0, WriteConfig1, WriteHold, Feed, IntClr, Hang,
         ConsumeReset, NoStage
<1> DEFINE c == IF running THEN count ELSE 0
           f == IF running THEN fired ELSE NoStage
<1>2. c \in Nat /\ f \in [Stage -> BOOLEAN] /\ ~f[i] /\ TypeOK
  BY MwdtAssumption DEF MwdtIInv, TypeOK, NoStage
<1>3. fired' = f \/ Count(c, f)
  BY <1>1, Zenon DEF Tick
<1>4. Count(c, f)
  BY <1>2, <1>3, Zenon
<1>5. QED
  BY <1>2, <1>4, CountStep, MwdtAssumption

\* A stage never fires before its threshold has gone by since the last feed,
\* for every configuration and every change of it under way.
THEOREM MwdtNoEarlyFire == Spec => NoEarlyFire
<1> DEFINE A == \A i \in Stage : ~fired[i] /\ fired'[i]
                  => elapsed' = Cap \/ Thr(i) * minPre' <= elapsed'
<1>1. MwdtIInv /\ [Next]_vars => [A]_vars
  <2> SUFFICES ASSUME MwdtIInv, Next, NEW i \in Stage, ~fired[i], fired'[i]
               PROVE  elapsed' = Cap \/ Thr(i) * minPre' <= elapsed'
    BY Zenon
  <2>1. count' \in Nat /\ count' >= Thr(i) /\ Thr(i) \in Nat
    BY FiresInCount, ThrNat, Zenon DEF MwdtIInv
  <2>2. MwdtIInv'
    BY MwdtNextIInv, Zenon
  <2>3. minPre' \in Nat /\ clkAcc' \in Nat /\ elapsed' \in Nat
    BY <2>2, MwdtAssumption DEF MwdtIInv, TypeOK
  <2>4. Thr(i) * minPre' <= count' * minPre'
    BY <2>1, <2>3, TimesMono, Zenon
  <2>5. count' * minPre' \in Nat /\ Thr(i) * minPre' \in Nat
    BY <2>1, <2>3, TimesSucc, Zenon
  <2>6. elapsed' = Cap \/ clkAcc' + count' * minPre' <= elapsed'
    BY <2>2, Zenon DEF MwdtIInv, CountWithinElapsed
  <2>7. QED
    BY <2>3, <2>4, <2>5, <2>6
<1>2. QED
  BY <1>1, MwdtSpecIInv, PTL DEF Spec, NoEarlyFire

\* Stages fire in order, for every configuration.
THEOREM MwdtFireInOrder == Spec => FireInOrder
<1> DEFINE A == \A i, j \in Stage : i < j /\ ~fired[j] /\ fired'[j] => fired'[i] \/ Thr(i) = 0
<1>1. MwdtIInv /\ [Next]_vars => [A]_vars
  <2> SUFFICES ASSUME MwdtIInv, Next, NEW i \in Stage, NEW j \in Stage,
                      i < j, ~fired[j], fired'[j]
               PROVE  fired'[i] \/ Thr(i) = 0
    BY Zenon
  <2>1. count' \in Nat /\ count' >= Thr(j) /\ (count' >= Thr(i) => fired'[i] \/ Thr(i) = 0)
    BY FiresInCount, Zenon
  <2>2. Thr(i) \in Nat /\ Thr(j) \in Nat /\ Thr(i) <= Thr(j)
    BY ThrNat, Zenon DEF MwdtIInv
  <2>3. QED
    BY <2>1, <2>2
<1>2. QED
  BY <1>1, MwdtSpecIInv, PTL DEF Spec, FireInOrder

-----------------------------------------------------------------------------
(***************************************************************************)
(* A timer of a timer group, for every word size and every divider.  Since *)
(* an alarm, a timer nobody wrote to has made Gone counts of Cycles cycles *)
(* each, and divAcc cycles of the next; it has not come round to the alarm *)
(* yet, so the history is below its cap.                                   *)
(***************************************************************************)

TimerSpec == TimerInit /\ [][TimerNext]_timerVars

From == IF tconfig.reload THEN Reload ELSE Alarm

\* Counts since the alarm.
Gone == IF tconfig.inc THEN (counter + Mod - From) % Mod ELSE (From + Mod - counter) % Mod

CountSet == 0 .. Mod - 1

TimerType ==
  /\ tconfig \in Config
  /\ alarmLo \in Word /\ alarmHi \in Word /\ loadLo \in Word /\ loadHi \in Word
  /\ counter \in CountSet /\ divAcc \in Nat
  /\ sinceAlarm \in 0 .. TimerCap /\ stable \in BOOLEAN

\* The strengthening.
SinceAlarmExact ==
  stable =>
    /\ tconfig.alarm /\ divAcc < Cycles
    /\ Gone < Span /\ sinceAlarm = Gone * Cycles + divAcc

TimerIInv == TimerType /\ SinceAlarmExact

-----------------------------------------------------------------------------
(* Counts modulo Mod                                                       *)

LEMMA ModPos == Mod \in Nat /\ Mod > 0
BY TimerAssumption DEF Mod

LEMMA WordsCount ==
  ASSUME NEW h \in Word, NEW l \in Word
  PROVE  h * B + l \in CountSet
<1>1. B \in Nat /\ B >= 2 /\ h \in Nat /\ l \in Nat /\ h <= B - 1 /\ l <= B - 1
  BY TimerAssumption DEF Word
<1>2. h * B \in Nat /\ h * B <= (B - 1) * B
  BY <1>1
<1>3. (B - 1) * B = B * B - B
  BY <1>1
<1>4. QED BY <1>1, <1>2, <1>3 DEF CountSet, Mod

LEMMA TimerFacts ==
  ASSUME TimerType
  PROVE  /\ Alarm \in CountSet /\ Reload \in CountSet /\ From \in CountSet
         /\ Cycles \in Nat \ {0} /\ Mod * Cycles <= TimerCap
         /\ TimerCap \in Nat /\ tconfig.div \in Nat
<1>1. Alarm \in CountSet /\ Reload \in CountSet
  BY WordsCount, Zenon DEF TimerType, Alarm, Reload
<1>2. tconfig.div \in Divider /\ Divider \subseteq Nat
  BY TimerAssumption, Zenon DEF TimerType, Config
<1>3. Cycles \in Divider \union {1} /\ Cycles \in Nat \ {0}
  <2>1. CASE tconfig.div = 0
    BY <2>1 DEF Cycles
  <2>2. CASE tconfig.div # 0
    BY <1>2, <2>2, Zenon DEF Cycles
  <2>3. QED BY <2>1, <2>2, Zenon
<1>4. QED BY <1>1, <1>2, <1>3, TimerAssumption, Zenon DEF From, Mod

\* The distance between two counts, without the modulus.
LEMMA GapValue ==
  ASSUME NEW a \in CountSet, NEW b \in CountSet
  PROVE  (a + Mod - b) % Mod = (IF a >= b THEN a - b ELSE a + Mod - b)
BY ModPos DEF CountSet

LEMMA CountStepValue ==
  ASSUME NEW a \in CountSet
  PROVE  /\ (a + 1) % Mod = IF a = Mod - 1 THEN 0 ELSE a + 1
         /\ (a + Mod - 1) % Mod = IF a = 0 THEN Mod - 1 ELSE a - 1
BY ModPos DEF CountSet

LEMMA GoneValue ==
  ASSUME TimerType
  PROVE  /\ Gone \in CountSet /\ Span \in 1 .. Mod
         /\ TimerStep \in CountSet
         /\ Gone < Span =>
              \/ Gone + 1 = Span /\ TimerStep = Alarm
              \/ /\ Gone + 1 < Span /\ TimerStep # Alarm
                 /\ Gone + 1 = IF tconfig.inc THEN (TimerStep + Mod - From) % Mod
                               ELSE (From + Mod - TimerStep) % Mod
<1> DEFINE f == From
           a == Alarm
           c == counter
           n == TimerStep
           M == Mod
<1>1. f \in CountSet /\ a \in CountSet /\ c \in CountSet
  BY TimerFacts, Zenon DEF TimerType
<1>2. M \in Nat /\ M > 0
  BY ModPos, Zenon
<1>3. CASE tconfig.inc
  <2>1. n = IF c = M - 1 THEN 0 ELSE c + 1
    BY <1>1, <1>3, CountStepValue, Zenon DEF TimerStep
  <2>2. n \in CountSet
    BY <1>1, <1>2, <2>1 DEF CountSet
  <2>3. Gone = IF c >= f THEN c - f ELSE c + M - f
    BY <1>1, <1>3, GapValue, Zenon DEF Gone
  <2>4. (n + M - f) % M = IF n >= f THEN n - f ELSE n + M - f
    BY <1>1, <2>2, GapValue, Zenon
  <2>5. Span = IF a = f THEN M ELSE IF a >= f THEN a - f ELSE a + M - f
    <3>1. (a + M - f) % M = IF a >= f THEN a - f ELSE a + M - f
      BY <1>1, GapValue, Zenon
    <3>2. Span = IF (a + M - f) % M = 0 THEN M ELSE (a + M - f) % M
      BY <1>3, Zenon DEF Span, From
    <3>3. QED BY <1>1, <1>2, <3>1, <3>2 DEF CountSet
  <2> DEFINE g == Gone
             sp == Span
             k == (n + M - f) % M
  <2>6. /\ g \in CountSet /\ sp \in 1 .. M
        /\ g < sp => \/ g + 1 = sp /\ n = a
                     \/ g + 1 < sp /\ n # a /\ g + 1 = k
    <3> HIDE DEF f, a, c, n, M, g, sp, k
    <3>1. g = (IF c >= f THEN c - f ELSE c + M - f) /\ k = (IF n >= f THEN n - f ELSE n + M - f)
      BY <2>3, <2>4, Zenon DEF g, k
    <3>2. sp = IF a = f THEN M ELSE IF a >= f THEN a - f ELSE a + M - f
      BY <2>5, Zenon DEF sp
    <3>3. CountSet = 0 .. M - 1
      BY Zenon DEF CountSet, M
    <3>4. QED BY <1>1, <1>2, <2>1, <3>1, <3>2, <3>3
  <2>7. QED BY <1>3, <2>2, <2>6, Zenon
<1>4. CASE ~tconfig.inc
  <2>1. n = IF c = 0 THEN M - 1 ELSE c - 1
    BY <1>1, <1>4, CountStepValue, Zenon DEF TimerStep
  <2>2. n \in CountSet
    BY <1>1, <1>2, <2>1 DEF CountSet
  <2>3. Gone = IF f >= c THEN f - c ELSE f + M - c
    BY <1>1, <1>4, GapValue, Zenon DEF Gone
  <2>4. (f + M - n) % M = IF f >= n THEN f - n ELSE f + M - n
    BY <1>1, <2>2, GapValue, Zenon
  <2>5. Span = IF a = f THEN M ELSE IF f >= a THEN f - a ELSE f + M - a
    <3>1. (f + M - a) % M = IF f >= a THEN f - a ELSE f + M - a
      BY <1>1, GapValue, Zenon
    <3>2. Span = IF (f + M - a) % M = 0 THEN M ELSE (f + M - a) % M
      BY <1>4, Zenon DEF Span, From
    <3>3. QED BY <1>1, <1>2, <3>1, <3>2 DEF CountSet
  <2> DEFINE g == Gone
             sp == Span
             k == (f + M - n) % M
  <2>6. /\ g \in CountSet /\ sp \in 1 .. M
        /\ g < sp => \/ g + 1 = sp /\ n = a
                     \/ g + 1 < sp /\ n # a /\ g + 1 = k
    <3> HIDE DEF f, a, c, n, M, g, sp, k
    <3>1. g = (IF f >= c THEN f - c ELSE f + M - c) /\ k = (IF f >= n THEN f - n ELSE f + M - n)
      BY <2>3, <2>4, Zenon DEF g, k
    <3>2. sp = IF a = f THEN M ELSE IF f >= a THEN f - a ELSE f + M - a
      BY <2>5, Zenon DEF sp
    <3>3. CountSet = 0 .. M - 1
      BY Zenon DEF CountSet, M
    <3>4. QED BY <1>1, <1>2, <2>1, <3>1, <3>2, <3>3
  <2>7. QED BY <1>4, <2>2, <2>6, Zenon
<1>5. QED BY <1>3, <1>4, Zenon

-----------------------------------------------------------------------------
(* The invariant                                                           *)

LEMMA TimerInitIInv == TimerInit => TimerIInv
<1> SUFFICES ASSUME TimerInit PROVE TimerIInv
  BY Zenon
<1>1. 0 \in Word /\ 0 \in CountSet
  BY TimerAssumption, ModPos DEF Word, CountSet
<1>2. tconfig \in Config
  BY TimerAssumption, Zenon DEF TimerInit, Config
<1>3. 0 \in 0 .. TimerCap
  BY TimerAssumption
<1>4. TimerType
  BY <1>1, <1>2, <1>3, Zenon DEF TimerInit, TimerType
<1>5. SinceAlarmExact
  BY Zenon DEF TimerInit, SinceAlarmExact
<1>6. QED BY <1>4, <1>5, Zenon DEF TimerIInv

\* A cycle the divider swallows.
LEMMA DividedKeeps ==
  ASSUME TimerIInv, TimerTick, Divided
  PROVE  TimerIInv' /\ sinceAlarm' # 0
<1> USE DEF TimerIInv
<1>1. /\ divAcc' = divAcc + 1 /\ UNCHANGED <<counter, timerRaw, stable, timerRegs>>
      /\ sinceAlarm' = (IF sinceAlarm < TimerCap THEN sinceAlarm + 1 ELSE TimerCap)
  BY Zenon DEF TimerTick
<1>2. TimerCap \in Nat \ {0} /\ sinceAlarm \in 0 .. TimerCap /\ divAcc \in Nat
  BY TimerAssumption, Zenon DEF TimerType
<1>3. sinceAlarm' \in 0 .. TimerCap /\ sinceAlarm' # 0
  BY <1>1, <1>2
<1>4. TimerType'
  BY <1>1, <1>2, <1>3 DEF TimerType, timerRegs
<1>5. ASSUME stable PROVE SinceAlarmExact'
  <2>1. /\ tconfig.alarm /\ divAcc < Cycles
        /\ Gone < Span /\ sinceAlarm = Gone * Cycles + divAcc
    BY <1>5, Zenon DEF SinceAlarmExact
  <2>2. Gone' = Gone /\ Span' = Span /\ Cycles' = Cycles
    BY <1>1, Zenon DEF timerRegs, Gone, Span, Cycles, From, Alarm, Reload
  <2>3. divAcc + 1 < Cycles
    BY Zenon DEF Divided, Cycles
  <2> DEFINE g == Gone
             q == Cycles
  <2>4. /\ g \in Nat /\ Span \in Nat /\ g + 1 <= Span /\ Span <= Mod /\ q \in Nat \ {0}
        /\ Mod * q <= TimerCap /\ Mod \in Nat
    BY <2>1, GoneValue, TimerFacts, ModPos DEF CountSet
  <2>5. sinceAlarm < TimerCap
    <3> HIDE DEF g, q
    <3>1. g * q \in Nat /\ (g + 1) * q = g * q + q /\ (g + 1) * q <= Mod * q
      BY <2>4
    <3>2. sinceAlarm = g * q + divAcc /\ divAcc + 1 < q
      BY <2>1, <2>3, Zenon DEF g, q
    <3>3. QED BY <1>2, <2>4, <3>1, <3>2
  <2>6. sinceAlarm + 1 = Gone * Cycles + (divAcc + 1)
    <3>1. g * q \in Nat
      BY <2>4
    <3>2. QED BY <1>2, <2>1, <3>1
  <2>7. QED BY <1>1, <2>1, <2>2, <2>3, <2>5, <2>6, Zenon DEF SinceAlarmExact, timerRegs
<1>6. QED
  BY <1>1, <1>3, <1>4, <1>5, Zenon DEF SinceAlarmExact

\* A count: the next one after the alarm, or the alarm itself.
LEMMA CountedFacts ==
  ASSUME TimerIInv, TimerTick, ~Divided
  PROVE  /\ TimerIInv'
         /\ stable /\ sinceAlarm' = 0 => sinceAlarm + 1 = Span * Cycles
<1> USE DEF TimerIInv
<1>1. /\ divAcc' = 0 /\ UNCHANGED timerRegs
      /\ counter' = (IF Match /\ tconfig.reload THEN Reload ELSE TimerStep)
      /\ stable' = (stable \/ Match)
      /\ sinceAlarm' = (IF Match THEN 0 ELSE IF sinceAlarm < TimerCap THEN sinceAlarm + 1
                        ELSE TimerCap)
  BY Zenon DEF TimerTick
<1>2. /\ TimerCap \in Nat \ {0} /\ sinceAlarm \in 0 .. TimerCap /\ divAcc \in Nat
      /\ stable \in BOOLEAN /\ Match \in BOOLEAN
  BY TimerAssumption, Zenon DEF TimerType, Match, Config
<1>3. counter' \in CountSet /\ sinceAlarm' \in 0 .. TimerCap /\ stable' \in BOOLEAN
  BY <1>1, <1>2, GoneValue, TimerFacts
<1>4. TimerType'
  BY <1>1, <1>2, <1>3, Zenon DEF TimerType, timerRegs
<1>5. Span' = Span /\ Cycles' = Cycles /\ From' = From /\ Alarm' = Alarm
  BY <1>1, Zenon DEF timerRegs, Span, Cycles, From, Alarm, Reload
<1>6. Gone' = IF tconfig.inc THEN (counter' + Mod - From) % Mod ELSE (From + Mod - counter') % Mod
  BY <1>1, <1>5, Zenon DEF Gone, timerRegs
<1>7. Span \in 1 .. Mod /\ Cycles \in Nat \ {0}
  BY GoneValue, TimerFacts, Zenon
<1>8. ASSUME stable
      PROVE  /\ tconfig.alarm /\ Gone < Span /\ Gone \in Nat
             /\ sinceAlarm + 1 = (Gone + 1) * Cycles
  <2>1. /\ tconfig.alarm /\ divAcc < Cycles
        /\ Gone < Span /\ sinceAlarm = Gone * Cycles + divAcc
    BY <1>8, Zenon DEF SinceAlarmExact
  <2>2. divAcc + 1 = Cycles
    BY <1>2, <2>1, TimerFacts DEF Divided, Cycles
  <2> DEFINE g == Gone
             q == Cycles
  <2>3. g \in Nat
    BY GoneValue DEF CountSet
  <2>4. g * q \in Nat /\ (g + 1) * q = g * q + q
    <3> HIDE DEF g, q
    <3>1. q \in Nat \ {0}
      BY <1>7, Zenon DEF q
    <3>2. QED BY <2>3, <3>1
  <2>5. QED BY <1>2, <1>7, <2>1, <2>2, <2>3, <2>4
<1>9. CASE Match
  <2>1. counter' = From /\ From \in CountSet /\ tconfig.alarm /\ TimerStep = Alarm
    BY <1>1, <1>9, TimerFacts, Zenon DEF Match, From
  <2>2. (From + Mod - From) % Mod = 0
    BY <2>1, GapValue, ModPos DEF CountSet
  <2>3. Gone' = 0 /\ sinceAlarm' = 0 /\ divAcc' = 0
    BY <1>1, <1>6, <1>9, <2>1, <2>2, Zenon
  <2>4. 0 < Cycles /\ 0 < Span /\ 0 = 0 * Cycles + 0
    BY <1>7
  <2>5. SinceAlarmExact'
    BY <1>1, <1>5, <2>1, <2>3, <2>4, Zenon DEF SinceAlarmExact, timerRegs
  <2>6. stable => sinceAlarm + 1 = Span * Cycles
    <3> SUFFICES ASSUME stable PROVE sinceAlarm + 1 = Span * Cycles
      BY Zenon
    <3>1. Gone + 1 = Span
      BY <1>8, <2>1, GoneValue, Zenon
    <3>2. QED BY <1>8, <3>1, Zenon
  <2>7. QED BY <1>4, <2>5, <2>6, Zenon
<1>10. CASE ~Match
  <2>1. sinceAlarm' # 0
    BY <1>1, <1>2, <1>10
  <2>2. ASSUME stable PROVE SinceAlarmExact'
    <3>1. TimerStep # Alarm /\ counter' = TimerStep
      BY <1>1, <1>8, <1>10, <2>2, Zenon DEF Match
    <3>2. Gone + 1 < Span /\ Gone' = Gone + 1
      BY <1>6, <1>8, <2>2, <3>1, GoneValue, Zenon
    <3>3. sinceAlarm < TimerCap
      <4> DEFINE g == Gone
                 q == Cycles
                 sp == Span
      <4>1. /\ g \in Nat /\ sp \in Nat /\ g + 1 < sp /\ sp <= Mod /\ q \in Nat \ {0}
            /\ Mod * q <= TimerCap /\ Mod \in Nat /\ sinceAlarm + 1 = (g + 1) * q
        BY <1>7, <1>8, <2>2, <3>2, TimerFacts, ModPos
      <4> HIDE DEF g, q, sp
      <4>2. (g + 1) * q \in Nat /\ (g + 1) * q <= Mod * q
        BY <4>1
      <4>3. QED BY <1>2, <4>1, <4>2
    <3>4. sinceAlarm' = (Gone + 1) * Cycles + 0 /\ divAcc' = 0
      <4>1. sinceAlarm' = (Gone + 1) * Cycles
        BY <1>1, <1>8, <1>10, <2>2, <3>3, Zenon
      <4>2. sinceAlarm' \in Nat
        BY <1>3
      <4>3. QED BY <1>1, <4>1, <4>2
    <3>5. QED
      BY <1>1, <1>5, <1>7, <1>8, <2>2, <3>2, <3>4 DEF SinceAlarmExact, timerRegs
  <2>3. stable' = stable
    BY <1>1, <1>2, <1>10, Zenon
  <2>4. QED BY <1>4, <2>1, <2>2, <2>3, Zenon DEF SinceAlarmExact
<1>11. QED BY <1>9, <1>10, Zenon

\* A write to the timer's registers restarts the history.
LEMMA RestartKeeps ==
  ASSUME TimerIInv, TimerType', ~stable'
  PROVE  TimerIInv'
BY Zenon DEF TimerIInv, SinceAlarmExact

LEMMA TimerNextIInv == TimerIInv /\ [TimerNext]_timerVars => TimerIInv'
<1> SUFFICES ASSUME TimerIInv, [TimerNext]_timerVars PROVE TimerIInv'
  BY Zenon
<1>1. CASE TimerTick
  BY <1>1, DividedKeeps, CountedFacts, Zenon
<1>2. CASE WriteConfig
  BY <1>2, RestartKeeps, Zenon DEF WriteConfig, TimerIInv, TimerType
<1>3. CASE WriteWord
  BY <1>3, RestartKeeps, Zenon DEF WriteWord, TimerIInv, TimerType
<1>4. CASE TimerLoad
  <2>1. Reload \in CountSet
    BY TimerFacts, Zenon DEF TimerIInv
  <2>2. QED
    BY <1>4, <2>1, RestartKeeps, Zenon DEF TimerLoad, TimerIInv, TimerType, timerRegs
<1>5. CASE TimerUpdate \/ TimerIntClr \/ TimerLeave \/ UNCHANGED timerVars
  <2>1. UNCHANGED <<timerRegs, counter, divAcc, sinceAlarm, stable>>
    BY <1>5, Zenon DEF TimerUpdate, TimerIntClr, TimerLeave, timerVars
  <2>2. QED
    BY <2>1, Zenon DEF TimerIInv, TimerType, SinceAlarmExact, timerRegs, Gone, Span, Cycles, From,
                Alarm, Reload
<1>6. QED
  BY <1>1, <1>2, <1>3, <1>4, <1>5, Zenon DEF TimerNext

\* For every word size and divider, whether the timer counts up or down and
\* reloads or wraps: left alone after an alarm it raises the next one after
\* exactly its period (timg.rs, tick_timer).
THEOREM TimerPeriodExact == TimerSpec => PeriodExact
<1> DEFINE A == stable /\ sinceAlarm # 0 /\ sinceAlarm' = 0 => sinceAlarm + 1 = Span * Cycles
<1>1. TimerIInv /\ [TimerNext]_timerVars => [A]_timerVars
  <2> SUFFICES ASSUME TimerIInv, TimerNext PROVE A
    BY Zenon
  <2>1. CASE TimerTick
    BY <2>1, DividedKeeps, CountedFacts, Zenon
  <2>2. CASE ~TimerTick
    BY <2>2, Zenon DEF TimerNext, WriteConfig, WriteWord, TimerLoad, TimerUpdate, TimerIntClr, TimerLeave
  <2>3. QED BY <2>1, <2>2, Zenon
<1>2. QED
  BY <1>1, TimerInitIInv, TimerNextIInv, PTL DEF TimerSpec, PeriodExact

-----------------------------------------------------------------------------
(***************************************************************************)
(* The SYSTIMER, for every modulus, load value, target and period.         *)
(* OncePerLoad is not inductive alone: what bounds the shots is that a     *)
(* comparator is armed only before its first one (ArmedIsUnspent).  The    *)
(* grid of the tick is a fact of Advance, division with remainder.         *)
(***************************************************************************)

\* The specification without fairness, which safety does not need.
SystimerSpec == SystimerInit /\ [][SystimerNext]_systimerVars

\* The strengthening: an armed comparator has not fired since COMP_LOAD.
ArmedIsUnspent == alarm.armed => shots = 0

SystimerIInv == SystimerSound /\ ArmedIsUnspent

AlarmType == [armed : BOOLEAN, active : BOOLEAN, boundary : Nat, raw : BOOLEAN]

UnitType == [on : BOOLEAN, counter : (0 .. StMod - 1) \union LoadValue]

\* Division with remainder by a positive number.
LEMMA Remainder ==
  ASSUME NEW d \in Nat, NEW p \in Nat \ {0}
  PROVE  /\ d \div p \in Nat /\ (d \div p) * p \in Nat
         /\ (d \div p) * p <= d /\ d < (d \div p) * p + p
OBVIOUS

\* A multiple of p leaves no remainder.
LEMMA MultipleMod ==
  ASSUME NEW k \in Nat, NEW p \in Nat \ {0}
  PROVE  (k * p) % p = 0
OBVIOUS

LEMMA StPeriodPos == SystimerTypeOK => StPeriod \in Nat \ {0}
BY SystimerAssumption DEF SystimerTypeOK, StPeriod

\* Advance moves a boundary that was reached by whole periods, to the first
\* place after the count.
LEMMA AdvanceOnGrid ==
  ASSUME SystimerTypeOK, NEW b \in Nat, NEW c \in Nat, c >= b
  PROVE  /\ Advance(b, c) \in Nat
         /\ (Advance(b, c) - b) % StPeriod = 0
         /\ c < Advance(b, c) /\ Advance(b, c) <= c + StPeriod
<1> DEFINE p == StPeriod
           q == (c - b) \div p
<1>1. p \in Nat \ {0} /\ c - b \in Nat
  BY StPeriodPos
<1> HIDE DEF p
<1>2. q \in Nat /\ q * p \in Nat /\ q * p <= c - b /\ c - b < q * p + p
  BY <1>1, Remainder, Zenon
<1> HIDE DEF q
<1>3. (q + 1) * p = q * p + p
  BY <1>1, <1>2, TimesSucc, Zenon
<1>4. ((q + 1) * p) % p = 0
  BY <1>1, <1>2, MultipleMod
<1>5. Advance(b, c) = b + (q + 1) * p
  BY Zenon DEF Advance, p, q
<1>6. Advance(b, c) - b = (q + 1) * p
  BY <1>1, <1>2, <1>3, <1>5
<1>7. QED
  BY <1>1, <1>2, <1>3, <1>4, <1>5, <1>6 DEF p

\* What check_alarms does to an alarm a: it stays well formed, fires a
\* one-shot alarm only by disarming it, and keeps the grid of an active tick.
LEMMA CheckAlarmsFacts ==
  ASSUME SystimerTypeOK, NEW a \in AlarmType, NEW c \in Nat, NEW n \in 0 .. 1,
         a.armed => n = 0, CheckAlarms(a, c, n)
  PROVE  /\ alarm' \in AlarmType
         /\ shots' \in 0 .. 1 /\ (alarm'.armed => shots' = 0)
         /\ a.active /\ alarm'.active /\ alarm'.boundary # a.boundary
              => /\ (alarm'.boundary - a.boundary) % StPeriod = 0
                 /\ c < alarm'.boundary /\ alarm'.boundary <= c + StPeriod
<1> USE DEF AlarmType
<1>1. CASE tconf.period
  <2>1. alarm' = PeriodAlarm(a, c) /\ shots' = n
    BY <1>1, Zenon DEF CheckAlarms
  <2> DEFINE b == IF a.active THEN a.boundary ELSE c
  <2>2. b \in Nat
    BY Zenon
  <2>3. CASE ~(work /\ ena)
    <3>1. alarm' = [a EXCEPT !.active = FALSE]
      BY <2>1, <2>3, Zenon DEF PeriodAlarm
    <3>2. QED BY <2>1, <3>1, Zenon
  <2>4. CASE work /\ ena /\ ~(~a.raw /\ c >= b)
    <3>1. alarm' = [a EXCEPT !.active = TRUE, !.boundary = b]
      BY <2>1, <2>4, Zenon DEF PeriodAlarm
    <3>2. QED BY <2>1, <2>2, <3>1, Zenon
  <2>5. CASE work /\ ena /\ ~a.raw /\ c >= b
    <3>1. alarm' = [a EXCEPT !.active = TRUE, !.raw = TRUE, !.boundary = Advance(b, c)]
      BY <2>1, <2>5, Zenon DEF PeriodAlarm
    <3>2. /\ Advance(b, c) \in Nat
          /\ (Advance(b, c) - b) % StPeriod = 0
          /\ c < Advance(b, c) /\ Advance(b, c) <= c + StPeriod
      BY <2>2, <2>5, AdvanceOnGrid, Zenon
    <3>3. a.active => b = a.boundary
      BY Zenon
    <3> HIDE DEF b
    <3>4. alarm' \in AlarmType /\ alarm'.boundary = Advance(b, c) /\ alarm'.armed = a.armed
      BY <3>1, <3>2, Zenon
    <3>5. QED BY <2>1, <3>2, <3>3, <3>4, Zenon
  <2>6. QED BY <2>3, <2>4, <2>5, Zenon
<1>2. CASE ~tconf.period
  <2> DEFINE fire == a.armed /\ work /\ ~a.raw /\ c >= target
  <2>1. alarm' = [a EXCEPT !.active = FALSE, !.armed = @ /\ ~fire, !.raw = @ \/ fire]
    BY <1>2, Zenon DEF CheckAlarms, OneShot
  <2>2. fire \in BOOLEAN
    BY Zenon DEF SystimerTypeOK
  <2>3. /\ alarm' \in AlarmType /\ alarm'.active = FALSE
        /\ alarm'.armed = (a.armed /\ ~fire) /\ alarm'.raw = (a.raw \/ fire)
    BY <2>1, <2>2, Zenon
  <2>4. shots' = IF ~a.raw /\ alarm'.raw /\ n < 2 THEN n + 1 ELSE n
    BY <1>2, Zenon DEF CheckAlarms
  <2>5. CASE fire
    BY <2>3, <2>4, <2>5
  <2>6. CASE ~fire
    BY <2>3, <2>4, <2>6, Zenon
  <2>7. QED BY <2>5, <2>6, Zenon
<1>3. QED BY <1>1, <1>2, Zenon

\* The comparator and the counter have their types.
LEMMA SystimerFacts ==
  ASSUME SystimerIInv
  PROVE  /\ alarm \in AlarmType /\ unit.counter \in Nat /\ StMod \in Nat \ {0}
         /\ shots \in 0 .. 1 /\ (alarm.armed => shots = 0)
BY SystimerAssumption
   DEF SystimerIInv, SystimerSound, SystimerTypeOK, OncePerLoad, ArmedIsUnspent, AlarmType

\* A step that checks the alarm a at count c leaves it as CheckAlarmsFacts says.
LEMMA CheckedKeeps ==
  ASSUME SystimerIInv, NEW a \in AlarmType, NEW c \in Nat, NEW n \in 0 .. 1,
         a.armed => n = 0, CheckAlarms(a, c, n), UNCHANGED stConf,
         unit' \in UnitType
  PROVE  SystimerIInv'
<1>1. alarm' \in AlarmType /\ shots' \in 0 .. 1 /\ (alarm'.armed => shots' = 0)
  BY CheckAlarmsFacts, Zenon DEF SystimerIInv, SystimerSound
<1>2. QED
  BY <1>1 DEF SystimerIInv, SystimerSound, SystimerTypeOK, OncePerLoad, ArmedIsUnspent,
              AlarmType, UnitType, stConf

LEMMA SystimerInitIInv == SystimerInit => SystimerIInv
<1> SUFFICES ASSUME SystimerInit PROVE SystimerIInv
  BY Zenon
<1>1. {work, ena, stQuiet} \subseteq BOOLEAN
  BY Zenon DEF SystimerInit
<1>2. QED
  BY <1>1, SystimerAssumption
     DEF SystimerInit, SystimerIInv, SystimerSound, SystimerTypeOK, OncePerLoad, ArmedIsUnspent

\* The count a tick leaves.
LEMMA TickCounts ==
  ASSUME SystimerIInv, SystimerTick
  PROVE  unit' \in UnitType /\ unit'.counter \in Nat
<1>1. CASE unit.on
  <2>1. unit' = [unit EXCEPT !.counter = (unit.counter + 1) % StMod]
    BY <1>1, Zenon DEF SystimerTick
  <2>2. (unit.counter + 1) % StMod \in 0 .. StMod - 1
    BY SystimerFacts
  <2>3. QED
    BY <1>1, <2>1, <2>2, SystimerFacts
       DEF SystimerIInv, SystimerSound, SystimerTypeOK, UnitType
<1>2. CASE ~unit.on
  BY <1>2, SystimerFacts, Zenon DEF SystimerTick, SystimerIInv, SystimerSound, SystimerTypeOK, UnitType
<1>3. QED BY <1>1, <1>2, Zenon

LEMMA SystimerNextIInv == SystimerIInv /\ [SystimerNext]_systimerVars => SystimerIInv'
<1> SUFFICES ASSUME SystimerIInv, [SystimerNext]_systimerVars PROVE SystimerIInv'
  BY Zenon
<1> USE SystimerFacts
<1>a. unit \in UnitType
  BY Zenon DEF SystimerIInv, SystimerSound, SystimerTypeOK, UnitType
<1>1. CASE CompLoad
  <2>1. [alarm EXCEPT !.armed = TRUE] \in AlarmType
    BY Zenon DEF AlarmType
  <2>2. QED
    BY <1>1, <1>a, <2>1, CheckedKeeps DEF CompLoad
<1>2. CASE CompLoadOther
  BY <1>2, <1>a, CheckedKeeps, Zenon DEF CompLoadOther
<1>3. CASE SystimerTick
  BY <1>3, TickCounts, CheckedKeeps, Zenon DEF SystimerTick
<1> USE DEF SystimerIInv, SystimerSound, SystimerTypeOK, OncePerLoad, ArmedIsUnspent
<1>4. CASE StWriteConf
  BY <1>4 DEF StWriteConf
<1>5. CASE WriteTargetConf
  BY <1>5, Zenon DEF WriteTargetConf
<1>6. CASE WriteTarget
  BY <1>6, Zenon DEF WriteTarget
<1>7. CASE StWriteEna
  BY <1>7, Zenon DEF StWriteEna
<1>8. CASE StIntClr
  BY <1>8, Zenon DEF StIntClr, stConf
<1>9. CASE CompUnload
  BY <1>9, Zenon DEF CompUnload, stConf
<1>10. CASE LoadApply
  BY <1>10, Zenon DEF LoadApply, stConf
<1>11. CASE StLeave
  BY <1>11, Zenon DEF StLeave
<1>12. CASE UNCHANGED systimerVars
  BY <1>12, Zenon DEF systimerVars, stConf
<1>13. QED
  BY <1>1, <1>2, <1>3, <1>4, <1>5, <1>6, <1>7, <1>8, <1>9, <1>10, <1>11, <1>12, Zenon
     DEF SystimerNext

LEMMA SystimerSpecIInv == SystimerSpec => []SystimerIInv
BY SystimerInitIInv, SystimerNextIInv, PTL DEF SystimerSpec

\* For any load value, target and period the registers stay within their
\* fields and a comparator raises one alarm per COMP_LOAD (check_alarms).
THEOREM SystimerIsSound == SystimerSpec => []SystimerSound
<1>1. SystimerIInv => SystimerSound
  BY Zenon DEF SystimerIInv
<1>2. QED
  BY <1>1, SystimerSpecIInv, PTL

\* For any period, however late its interrupt is cleared and wherever the
\* counter was loaded or wrapped, the tick moves by whole periods and to the
\* first boundary that is still ahead (check_alarms).
THEOREM SystimerKeepsGrid == SystimerSpec => TickKeepsGrid
<1> DEFINE A == alarm.active /\ alarm'.active /\ alarm'.boundary # alarm.boundary
                  => /\ (alarm'.boundary - alarm.boundary) % StPeriod = 0
                     /\ unit'.counter < alarm'.boundary
                     /\ alarm'.boundary <= unit'.counter + StPeriod
<1>1. SystimerIInv /\ [SystimerNext]_systimerVars => [A]_systimerVars
  <2> SUFFICES ASSUME SystimerIInv, SystimerNext PROVE A
    BY Zenon
  <2> USE SystimerFacts
  <2>a. SystimerTypeOK
    BY Zenon DEF SystimerIInv, SystimerSound
  <2>1. CASE CompLoad
    <3> DEFINE a == [alarm EXCEPT !.armed = TRUE]
    <3>1. a \in AlarmType /\ a.boundary = alarm.boundary /\ a.active = alarm.active
      BY Zenon DEF AlarmType
    <3>2. CheckAlarms(a, unit.counter, 0) /\ unit' = unit
      BY <2>1, Zenon DEF CompLoad
    <3> HIDE DEF a
    <3>3. a.active /\ alarm'.active /\ alarm'.boundary # a.boundary
            => /\ (alarm'.boundary - a.boundary) % StPeriod = 0
               /\ unit.counter < alarm'.boundary /\ alarm'.boundary <= unit.counter + StPeriod
      BY <2>a, <3>1, <3>2, CheckAlarmsFacts
    <3>4. QED BY <3>1, <3>2, <3>3, Zenon
  <2>2. CASE CompLoadOther
    BY <2>a, <2>2, CheckAlarmsFacts, Zenon DEF CompLoadOther
  <2>3. CASE SystimerTick
    BY <2>a, <2>3, TickCounts, CheckAlarmsFacts, Zenon DEF SystimerTick
  <2>4. CASE StIntClr \/ CompUnload
    BY <2>4, Zenon DEF StIntClr, CompUnload, AlarmType
  <2>5. CASE StWriteConf \/ WriteTargetConf \/ WriteTarget \/ StWriteEna \/ LoadApply \/ StLeave
    BY <2>5, Zenon DEF StWriteConf, WriteTargetConf, WriteTarget, StWriteEna, LoadApply, StLeave
  <2>6. QED
    BY <2>1, <2>2, <2>3, <2>4, <2>5, Zenon DEF SystimerNext
<1>2. QED
  BY <1>1, SystimerSpecIInv, PTL DEF SystimerSpec, TickKeepsGrid

-----------------------------------------------------------------------------
(***************************************************************************)
(* The pulse counter, for every modulus that is a multiple of four.  The   *)
(* count is compared with the encoder's position through their difference  *)
(* Error.  Between two samples the position is one step away from the one  *)
(* prevSig was taken at, and there the error is what it will be after the  *)
(* next sample; only a unit that was stopped may hold a sample that tells  *)
(* nothing, and then its error has just been zero.                         *)
(***************************************************************************)

PcntSpec == PcntInit /\ [][PcntNext]_pcntVars

Sig(p) == <<SigA(p), SigB(p)>>

Position == 0 .. CountMod32 - 1

\* What count n is off by at position p, zero being at z.
Error(n, z, p) == Diff(n, Diff(p, z))

SmallError(n, z, m, p) ==
  Error(n, z, p) \in {0, 1, CountMod32 - 1} /\ (~m => Error(n, z, p) = 0)

\* The strengthening, by what the unit knows of the encoder: a sample not yet
\* outdated; no sample at all; one from before the last turn or a pause; a
\* unit that stopped in time.
FreshSample == sampled => pcntOn /\ prevSig = Sig(pos)

FreshCount == Counting /\ sampled => SmallError(pulses, zero, moved, pos)

FirstCount == Counting /\ ~pcntOn => Error(pulses, zero, pos) = 0

LateCount ==
  Counting /\ pcntOn /\ ~sampled =>
    \/ moved /\ Error(pulses, zero, pos) = 0
    \/ \E d \in {1, CountMod32 - 1} :
         /\ prevSig = Sig((pos + d) % CountMod32)
         /\ SmallError(pulses, zero, moved, (pos + d) % CountMod32)

StoppedSample == ~Counting /\ pcntOn /\ ~moved => sampled

SampleFits == FreshSample /\ FreshCount /\ FirstCount /\ LateCount /\ StoppedSample

PcntIInv == PcntTypeOK /\ SampleFits

-----------------------------------------------------------------------------
(* Positions modulo CountMod32                                             *)

LEMMA DiffValue ==
  ASSUME NEW x \in Position, NEW y \in Position
  PROVE  /\ Diff(x, y) = IF x >= y THEN x - y ELSE x + CountMod32 - y
         /\ Diff(x, y) \in Position
BY PcntAssumption DEF Position, Diff

LEMMA StepValue ==
  ASSUME NEW x \in Position
  PROVE  /\ (x + 1) % CountMod32 = IF x = CountMod32 - 1 THEN 0 ELSE x + 1
         /\ (x + (CountMod32 - 1)) % CountMod32 = IF x = 0 THEN CountMod32 - 1 ELSE x - 1
         /\ (x + 0) % CountMod32 = x /\ (x + CountMod32) % CountMod32 = x
BY PcntAssumption DEF Position

\* The position one step on, as a number.
LEMMA StepTo ==
  ASSUME NEW x \in Position, NEW d \in {1, CountMod32 - 1}
  PROVE  /\ (x + d) % CountMod32 \in Position
         /\ d = 1 => (x + d) % CountMod32 = IF x = CountMod32 - 1 THEN 0 ELSE x + 1
         /\ d # 1 => (x + d) % CountMod32 = IF x = 0 THEN CountMod32 - 1 ELSE x - 1
<1>1. /\ (x + 1) % CountMod32 = IF x = CountMod32 - 1 THEN 0 ELSE x + 1
      /\ (x + (CountMod32 - 1)) % CountMod32 = IF x = 0 THEN CountMod32 - 1 ELSE x - 1
  BY StepValue, Zenon
<1>2. CASE d = 1
  BY <1>1, <1>2, PcntAssumption DEF Position
<1>3. CASE d = CountMod32 - 1
  BY <1>1, <1>3, PcntAssumption DEF Position
<1>4. QED BY <1>2, <1>3, Zenon

\* Count and position that move together keep their difference.
LEMMA ShiftBoth ==
  ASSUME NEW x \in Position, NEW y \in Position, NEW z \in Position,
         NEW d \in {1, CountMod32 - 1}
  PROVE  Diff((x + d) % CountMod32, Diff((y + d) % CountMod32, z)) = Diff(x, Diff(y, z))
<1> DEFINE x2 == (x + d) % CountMod32
           y2 == (y + d) % CountMod32
<1>1. /\ x2 \in Position
      /\ d = 1 => x2 = IF x = CountMod32 - 1 THEN 0 ELSE x + 1
      /\ d # 1 => x2 = IF x = 0 THEN CountMod32 - 1 ELSE x - 1
  BY StepTo, Zenon
<1>2. /\ y2 \in Position
      /\ d = 1 => y2 = IF y = CountMod32 - 1 THEN 0 ELSE y + 1
      /\ d # 1 => y2 = IF y = 0 THEN CountMod32 - 1 ELSE y - 1
  BY StepTo, Zenon
<1> HIDE DEF x2, y2
<1> DEFINE u == Diff(y, z)
           v == Diff(y2, z)
<1>3. u \in Position /\ u = IF y >= z THEN y - z ELSE y + CountMod32 - z
  BY DiffValue, Zenon
<1>4. v \in Position /\ v = IF y2 >= z THEN y2 - z ELSE y2 + CountMod32 - z
  BY <1>2, DiffValue, Zenon
<1> HIDE DEF u, v
<1>5. Diff(x, u) = IF x >= u THEN x - u ELSE x + CountMod32 - u
  BY <1>3, DiffValue, Zenon
<1>6. Diff(x2, v) = IF x2 >= v THEN x2 - v ELSE x2 + CountMod32 - v
  BY <1>1, <1>4, DiffValue, Zenon
<1>7. CountMod32 \in Nat /\ CountMod32 > 2
  BY PcntAssumption, Zenon
<1>8. Diff(x2, v) = Diff(x, u)
  BY <1>1, <1>2, <1>3, <1>4, <1>5, <1>6, <1>7 DEF Position
<1>9. QED BY <1>8, Zenon DEF x2, y2, u, v

\* A step there and back.
LEMMA StepBack ==
  ASSUME NEW x \in Position, NEW d \in {1, CountMod32 - 1}
  PROVE  /\ CountMod32 - d \in {1, CountMod32 - 1}
         /\ (((x + d) % CountMod32) + (CountMod32 - d)) % CountMod32 = x
<1> DEFINE y == (x + d) % CountMod32
           e == CountMod32 - d
<1>1. /\ y \in Position
      /\ d = 1 => y = IF x = CountMod32 - 1 THEN 0 ELSE x + 1
      /\ d # 1 => y = IF x = 0 THEN CountMod32 - 1 ELSE x - 1
  BY StepTo, Zenon
<1>2. e \in {1, CountMod32 - 1} /\ (d = 1 <=> e # 1)
  BY PcntAssumption
<1> HIDE DEF y, e
<1>3. /\ e = 1 => (y + e) % CountMod32 = IF y = CountMod32 - 1 THEN 0 ELSE y + 1
      /\ e # 1 => (y + e) % CountMod32 = IF y = 0 THEN CountMod32 - 1 ELSE y - 1
  BY <1>1, <1>2, StepTo, Zenon
<1>4. CountMod32 \in Nat /\ CountMod32 > 2
  BY PcntAssumption, Zenon
<1>5. (y + e) % CountMod32 = x
  BY <1>1, <1>2, <1>3, <1>4 DEF Position
<1>6. QED BY <1>2, <1>5, Zenon DEF y, e

\* A unit that starts again is exact.
LEMMA DiffSelf ==
  ASSUME NEW x \in Position, NEW y \in Position
  PROVE  Diff(y, x) \in Position /\ Diff(x, Diff(y, Diff(y, x))) = 0
<1> DEFINE u == Diff(y, x)
<1>1. u \in Position /\ u = IF y >= x THEN y - x ELSE y + CountMod32 - x
  BY DiffValue, Zenon
<1> HIDE DEF u
<1>2. Diff(y, u) \in Position /\ Diff(y, u) = IF y >= u THEN y - u ELSE y + CountMod32 - u
  BY <1>1, DiffValue, Zenon
<1>3. CountMod32 \in Nat /\ CountMod32 > 2
  BY PcntAssumption, Zenon
<1>4. Diff(y, u) = x
  BY <1>1, <1>2, <1>3 DEF Position
<1>5. Diff(x, x) = 0
  BY <1>3, DiffValue DEF Position
<1>6. QED BY <1>1, <1>4, <1>5, Zenon DEF u

LEMMA DiffZero ==
  ASSUME NEW x \in Position, NEW y \in Position, Diff(x, y) = 0
  PROVE  x = y
<1>1. Diff(x, y) = IF x >= y THEN x - y ELSE x + CountMod32 - y
  BY DiffValue, Zenon
<1>2. QED BY <1>1, PcntAssumption DEF Position

\* A count that was exact and moves by d is off by d.
LEMMA DiffMoved ==
  ASSUME NEW x \in Position, NEW y \in Position, NEW d \in {0, 1, CountMod32 - 1, CountMod32},
         Diff(x, y) = 0
  PROVE  Diff((x + d) % CountMod32, y) \in {0, 1, CountMod32 - 1}
<1> DEFINE x2 == (x + d) % CountMod32
<1>1. CountMod32 \in Nat /\ CountMod32 > 2
  BY PcntAssumption, Zenon
<1>2. x = y
  BY DiffZero, Zenon
<1>3. CASE d \in {0, CountMod32}
  <2>1. x2 = x
    BY <1>3, StepValue, Zenon
  <2>2. QED BY <2>1, Zenon
<1>4. CASE d \in {1, CountMod32 - 1}
  <2>1. /\ x2 \in Position
        /\ d = 1 => x2 = IF x = CountMod32 - 1 THEN 0 ELSE x + 1
        /\ d # 1 => x2 = IF x = 0 THEN CountMod32 - 1 ELSE x - 1
    BY <1>4, StepTo, Zenon
  <2> HIDE DEF x2
  <2>2. Diff(x2, x) = IF x2 >= x THEN x2 - x ELSE x2 + CountMod32 - x
    BY <2>1, DiffValue, Zenon
  <2>3. Diff(x2, x) \in {0, 1, CountMod32 - 1}
    BY <1>1, <1>4, <2>1, <2>2 DEF Position
  <2>4. QED BY <1>2, <2>3, Zenon DEF x2
<1>5. QED BY <1>3, <1>4, Zenon

-----------------------------------------------------------------------------
(* Edges                                                                   *)

LEMMA EdgeValue ==
  ASSUME NEW a \in {0, 1}, NEW b \in {0, 1}, PcntTypeOK
  PROVE  /\ Edge(1, <<a, b>>) = IF a = prevSig[1] THEN 0 ELSE IF a = b THEN CountMod32 - 1 ELSE 1
         /\ Edge(2, <<a, b>>) = IF b = prevSig[2] THEN 0 ELSE IF a = b THEN 1 ELSE CountMod32 - 1
<1>1. Quadrature[1] = [rise |-> 2, fall |-> 1, high |-> 0, low |-> 1]
  BY Zenon DEF Quadrature
<1>2. Quadrature[2] = [rise |-> 1, fall |-> 2, high |-> 0, low |-> 1]
  BY Zenon DEF Quadrature
<1>3. QED BY <1>1, <1>2 DEF Edge

Turned(cur) == Edge(1, cur) + Edge(2, cur)

LEMMA SigBits ==
  ASSUME NEW p \in Position
  PROVE  /\ SigA(p) \in {0, 1} /\ SigB(p) \in {0, 1} /\ Sig(p) \in {0, 1} \X {0, 1}
         /\ Sig(p)[1] = SigA(p) /\ Sig(p)[2] = SigB(p)
BY Zenon DEF SigA, SigB, Sig

\* Whatever the last sample was, a sample moves the count by at most one.
LEMMA TurnedSmall ==
  ASSUME PcntTypeOK, NEW p \in Position
  PROVE  Turned(Sig(p)) \in {0, 1, CountMod32 - 1, CountMod32}
BY PcntAssumption, SigBits, EdgeValue DEF Turned, Sig

\* No edge, no count.
LEMMA TurnedNone ==
  ASSUME PcntTypeOK, NEW p \in Position, prevSig = Sig(p)
  PROVE  Turned(Sig(p)) = 0
BY PcntAssumption, SigBits, EdgeValue DEF Turned, Sig

\* One step of the encoder counts as one, in its direction.
LEMMA TurnedStep ==
  ASSUME PcntTypeOK, NEW s \in Position, NEW d \in {1, CountMod32 - 1}, prevSig = Sig(s)
  PROVE  Turned(Sig((s + d) % CountMod32)) = d
<1> DEFINE p == (s + d) % CountMod32
           a == SigA(p)
           b == SigB(p)
<1>1. PICK k \in Nat : CountMod32 = 4 * k
  <2>1. CountMod32 = 4 * (CountMod32 \div 4) /\ CountMod32 \div 4 \in Nat
    BY PcntAssumption
  <2>2. QED BY <2>1, Zenon
<1>2. /\ p \in Position
      /\ d = 1 => p = IF s = CountMod32 - 1 THEN 0 ELSE s + 1
      /\ d # 1 => p = IF s = 0 THEN CountMod32 - 1 ELSE s - 1
  BY StepTo, Zenon
<1> HIDE DEF p
<1>3. p % 4 = IF d = 1 THEN ((s % 4) + 1) % 4 ELSE ((s % 4) + 3) % 4
  BY <1>1, <1>2, PcntAssumption DEF Position
<1>4. Sig(p) = <<a, b>> /\ a \in {0, 1} /\ b \in {0, 1}
  BY Zenon DEF Sig, SigA, SigB
<1>5. prevSig[1] = SigA(s) /\ prevSig[2] = SigB(s)
  BY Zenon DEF Sig
<1> DEFINE e1 == Edge(1, <<a, b>>)
           e2 == Edge(2, <<a, b>>)
           r  == s % 4
<1>6. /\ e1 = IF a = SigA(s) THEN 0 ELSE IF a = b THEN CountMod32 - 1 ELSE 1
      /\ e2 = IF b = SigB(s) THEN 0 ELSE IF a = b THEN 1 ELSE CountMod32 - 1
  BY <1>4, <1>5, EdgeValue, Zenon
<1>7. r \in 0 .. 3
  BY DEF Position
<1>8. /\ a = (IF p % 4 \in {1, 2} THEN 1 ELSE 0) /\ b = (IF p % 4 \in {2, 3} THEN 1 ELSE 0)
      /\ SigA(s) = (IF r \in {1, 2} THEN 1 ELSE 0) /\ SigB(s) = (IF r \in {2, 3} THEN 1 ELSE 0)
  BY Zenon DEF SigA, SigB
<1>9. Turned(Sig(p)) = e1 + e2
  BY <1>4, Zenon DEF Turned
<1> HIDE DEF a, b, e1, e2, r
<1>10. p % 4 = IF d = 1 THEN (r + 1) % 4 ELSE (r + 3) % 4
  BY <1>3, Zenon DEF r
<1>11. CountMod32 \in Nat /\ CountMod32 > 2
  BY PcntAssumption, Zenon
<1>12. e1 + e2 = d
  <2>1. CASE r = 0
    BY <1>6, <1>8, <1>10, <1>11, <2>1
  <2>2. CASE r = 1
    BY <1>6, <1>8, <1>10, <1>11, <2>2
  <2>3. CASE r = 2
    BY <1>6, <1>8, <1>10, <1>11, <2>3
  <2>4. CASE r = 3
    BY <1>6, <1>8, <1>10, <1>11, <2>4
  <2>5. QED BY <1>7, <2>1, <2>2, <2>3, <2>4
<1>13. QED BY <1>9, <1>12, Zenon DEF p

-----------------------------------------------------------------------------
(* The invariant                                                           *)

LEMMA PcntFacts ==
  ASSUME PcntTypeOK
  PROVE  /\ pos \in Position /\ pulses \in Position /\ zero \in Position
         /\ sampled \in BOOLEAN /\ pcntOn \in BOOLEAN /\ rst \in BOOLEAN
         /\ pause \in BOOLEAN /\ pcntRaw \in BOOLEAN /\ moved \in BOOLEAN
BY Zenon DEF PcntTypeOK, Position

LEMMA PcntInitIInv == PcntInit => PcntIInv
<1> SUFFICES ASSUME PcntInit PROVE PcntIInv
  BY Zenon
<1>1. {sampled, pcntOn, rst, pause, pcntRaw, moved} \subseteq BOOLEAN
  BY Zenon DEF PcntInit
<1>2. {pos, pulses, zero} \subseteq 0 .. CountMod32 - 1 /\ prevSig \in {0, 1} \X {0, 1}
  BY PcntAssumption DEF PcntInit
<1>3. SampleFits
  BY Zenon DEF PcntInit, SampleFits, FreshSample, FreshCount, FirstCount, LateCount, StoppedSample,
         Counting
<1>4. QED BY <1>1, <1>2, <1>3, Zenon DEF PcntIInv, PcntTypeOK

\* The encoder steps away from where it was sampled.
LEMMA TurnKeeps ==
  ASSUME PcntIInv, Turn
  PROVE  PcntIInv'
<1> USE DEF PcntIInv
<1>1. PICK d \in {1, CountMod32 - 1} : pos' = (pos + d) % CountMod32
  BY Zenon DEF Turn
<1>2. pos \in Position /\ pos' \in Position
  BY <1>1, PcntFacts, StepTo, Zenon
<1>3. PcntTypeOK'
  <2>1. moved' \in BOOLEAN
    BY PcntFacts, Zenon DEF Turn, Counting
  <2>2. QED BY <1>2, <2>1, Zenon DEF Turn, PcntTypeOK, Position
<1> DEFINE e == CountMod32 - d
<1>4. e \in {1, CountMod32 - 1} /\ (pos' + e) % CountMod32 = pos
  BY <1>1, <1>2, StepBack, Zenon
<1> HIDE DEF e
<1>5. CASE Counting
  <2>1. sampled /\ moved' = moved
    BY <1>5, PcntFacts, Zenon DEF Turn
  <2>2. /\ pcntOn /\ prevSig = Sig(pos)
        /\ SmallError(pulses, zero, moved, pos)
    BY <1>5, <2>1, Zenon DEF SampleFits, FreshSample, FreshCount
  <2>3. pcntOn' = pcntOn /\ sampled' = FALSE /\ Counting' = Counting
    BY Zenon DEF Turn, Counting
  <2>4. /\ prevSig' = Sig((pos' + e) % CountMod32)
        /\ SmallError(pulses', zero', moved', (pos' + e) % CountMod32)
    <3>1. pulses' = pulses /\ zero' = zero /\ prevSig' = prevSig
      BY Zenon DEF Turn
    <3>2. QED BY <1>4, <2>1, <2>2, <3>1, Zenon
  <2>5. SampleFits'
    BY <1>4, <1>5, <2>2, <2>3, <2>4, Zenon DEF SampleFits, FreshSample, FreshCount, FirstCount,
             LateCount, StoppedSample
  <2>6. QED BY <1>3, <2>5, Zenon
<1>6. CASE ~Counting
  <2>1. SampleFits'
    BY <1>6, PcntFacts, Zenon DEF Turn, SampleFits, FreshSample, FreshCount, FirstCount,
             LateCount, StoppedSample, Counting
  <2>2. QED BY <1>3, <2>1, Zenon
<1>7. QED BY <1>5, <1>6, Zenon

\* Firmware stops the unit, or starts it with its old count.
LEMMA WriteCtrlKeeps ==
  ASSUME PcntIInv, WriteCtrl
  PROVE  PcntIInv'
<1> USE DEF PcntIInv
<1>1. /\ pos' = pos /\ sampled' = sampled /\ prevSig' = prevSig /\ pcntOn' = pcntOn
      /\ pcntRaw' = pcntRaw /\ rst' \in BOOLEAN /\ pause' \in BOOLEAN
      /\ pulses' = (IF rst' THEN 0 ELSE pulses)
      /\ zero' = (IF Counting /\ Counting' THEN zero ELSE Diff(pos, pulses'))
      /\ moved' = (IF Counting /\ ~Counting' THEN ~sampled ELSE moved)
  BY Zenon DEF WriteCtrl
<1>2. pos \in Position /\ pulses' \in Position
  <2>1. 0 \in Position
    BY PcntAssumption DEF Position
  <2>2. QED BY <1>1, <2>1, PcntFacts, Zenon
<1>3. zero' \in Position /\ moved' \in BOOLEAN
  BY <1>1, <1>2, PcntFacts, DiffSelf, Zenon
<1>4. PcntTypeOK'
  BY <1>1, <1>2, <1>3, Zenon DEF PcntTypeOK, Position
<1>5. CASE Counting /\ Counting'
  <2>1. pulses' = pulses /\ zero' = zero /\ moved' = moved
    BY <1>1, <1>5, Zenon DEF Counting
  <2>2. SampleFits'
    BY <1>1, <1>5, <2>1 DEF SampleFits, FreshSample, FreshCount, FirstCount,
             LateCount, StoppedSample
  <2>3. QED BY <1>4, <2>2, Zenon
<1>6. CASE ~Counting /\ Counting'
  <2>1. zero' = Diff(pos, pulses') /\ moved' = moved
    BY <1>1, <1>6, Zenon
  <2>2. Error(pulses', zero', pos') = 0
    BY <1>1, <1>2, <2>1, DiffSelf DEF Error
  <2>3. SmallError(pulses', zero', moved', pos')
    BY <2>2, Zenon DEF SmallError
  <2>4. SampleFits'
    BY <1>1, <1>6, <2>1, <2>2, <2>3 DEF SampleFits, FreshSample, FreshCount, FirstCount,
             LateCount, StoppedSample
  <2>5. QED BY <1>4, <2>4, Zenon
<1>7. CASE ~Counting'
  <2>1. SampleFits'
    BY <1>1, <1>7, Zenon DEF SampleFits, FreshSample, FreshCount, FirstCount,
             LateCount, StoppedSample
  <2>2. QED BY <1>4, <2>1, Zenon
<1>8. QED BY <1>5, <1>6, <1>7, Zenon

\* A sample of a running unit: whatever it was held against, the count is
\* now that of the position, or off by one.
LEMMA SampleCounts ==
  ASSUME PcntIInv, Counting, pcntOn
  PROVE  LET n == (pulses + Edge(1, Sig(pos)) + Edge(2, Sig(pos))) % CountMod32
         IN  n \in Position /\ SmallError(n, zero, moved, pos)
<1> DEFINE t == Turned(Sig(pos))
           n == (pulses + t) % CountMod32
<1> USE DEF PcntIInv
<1>1. pos \in Position /\ pulses \in Position /\ zero \in Position
  BY PcntFacts, Zenon
<1>2. t \in {0, 1, CountMod32 - 1, CountMod32}
  BY <1>1, TurnedSmall, Zenon
<1>3. Edge(1, Sig(pos)) \in Int /\ Edge(2, Sig(pos)) \in Int
  BY <1>1, SigBits, EdgeValue, PcntAssumption DEF Sig
<1>4. pulses + Edge(1, Sig(pos)) + Edge(2, Sig(pos)) = pulses + t
  BY <1>1, <1>3 DEF Turned, Position
<1> HIDE DEF t
<1>5. n \in Position
  BY <1>1, <1>2, PcntAssumption DEF Position
<1>6. SmallError(n, zero, moved, pos)
  <2>1. CASE sampled
    <3>1. t = 0
      BY <1>1, <2>1, TurnedNone, Zenon DEF SampleFits, FreshSample, t
    <3>2. n = pulses
      BY <1>1, <3>1, StepValue, Zenon
    <3>3. QED BY <2>1, <3>2, Zenon DEF SampleFits, FreshSample, FreshCount, FirstCount,
             LateCount, StoppedSample
  <2>2. CASE ~sampled /\ moved /\ Error(pulses, zero, pos) = 0
    <3>1. Diff(pos, zero) \in Position
      BY <1>1, DiffValue, Zenon
    <3>2. Error(n, zero, pos) \in {0, 1, CountMod32 - 1}
      BY <1>1, <1>2, <2>2, <3>1, DiffMoved, Zenon DEF Error
    <3>3. QED BY <2>2, <3>2, Zenon DEF SmallError
  <2>3. CASE \E d \in {1, CountMod32 - 1} :
               /\ prevSig = Sig((pos + d) % CountMod32)
               /\ SmallError(pulses, zero, moved, (pos + d) % CountMod32)
    <3>1. PICK d \in {1, CountMod32 - 1} :
                 /\ prevSig = Sig((pos + d) % CountMod32)
                 /\ SmallError(pulses, zero, moved, (pos + d) % CountMod32)
      BY <2>3, Zenon
    <3> DEFINE s == (pos + d) % CountMod32
               e == CountMod32 - d
    <3>2. s \in Position /\ e \in {1, CountMod32 - 1} /\ (s + e) % CountMod32 = pos
      BY <1>1, StepTo, StepBack, Zenon
    <3>3. prevSig = Sig(s) /\ SmallError(pulses, zero, moved, s)
      BY <3>1, Zenon
    <3> HIDE DEF s, e
    <3>4. t = e
      BY <3>2, <3>3, TurnedStep, Zenon DEF t
    <3>5. Error(n, zero, pos) = Error(pulses, zero, s)
      BY <1>1, <3>2, <3>4, ShiftBoth DEF Error
    <3>6. QED BY <3>3, <3>5, Zenon DEF SmallError
  <2>4. QED BY <2>1, <2>2, <2>3, Zenon DEF SampleFits, FreshSample, FreshCount, FirstCount,
             LateCount, StoppedSample
<1>7. QED BY <1>4, <1>5, <1>6, Zenon

LEMMA TickKeeps ==
  ASSUME PcntIInv, PcntTick
  PROVE  PcntIInv'
<1> USE DEF PcntIInv
<1> DEFINE n == (pulses + Edge(1, Sig(pos)) + Edge(2, Sig(pos))) % CountMod32
<1>1. /\ sampled' = (sampled \/ Counting \/ ~pcntOn)
      /\ IF ~pcntOn THEN prevSig' = Sig(pos) /\ pcntOn' = TRUE /\ UNCHANGED <<pulses, pcntRaw>>
         ELSE IF Counting
         THEN prevSig' = Sig(pos) /\ pulses' = n /\ pcntRaw' = (n = Watch) /\ UNCHANGED pcntOn
         ELSE pulses' = (IF rst THEN 0 ELSE pulses) /\ UNCHANGED <<prevSig, pcntOn, pcntRaw>>
      /\ UNCHANGED <<pos, rst, pause, zero, moved>>
  BY Zenon DEF PcntTick, Sig
<1>2. /\ pos \in Position /\ pulses \in Position /\ zero \in Position /\ 0 \in Position
      /\ Sig(pos) \in {0, 1} \X {0, 1} /\ prevSig \in {0, 1} \X {0, 1}
  BY PcntFacts, SigBits, PcntAssumption DEF PcntTypeOK, Position
<1>3. Counting' = Counting /\ Counting \in BOOLEAN
  BY <1>1, PcntFacts, Zenon DEF Counting
<1>4. CASE ~pcntOn
  <2>1. sampled' = TRUE /\ pcntOn' = TRUE /\ pulses' = pulses
    BY <1>1, <1>4, Zenon
  <2>2. PcntTypeOK'
    BY <1>1, <1>2, <1>4, <2>1, PcntFacts, Zenon DEF PcntTypeOK, Position
  <2>3. Counting => SmallError(pulses, zero, moved, pos)
    BY <1>4, Zenon DEF SampleFits, FirstCount, SmallError
  <2>4. SampleFits'
    BY <1>1, <1>3, <1>4, <2>1, <2>3, Zenon DEF SampleFits, FreshSample, FreshCount, FirstCount,
             LateCount, StoppedSample
  <2>5. QED BY <2>2, <2>4, Zenon
<1>5. CASE pcntOn /\ Counting
  <2>1. n \in Position /\ SmallError(n, zero, moved, pos)
    BY <1>5, SampleCounts, Zenon
  <2>2. /\ sampled' = TRUE /\ prevSig' = Sig(pos) /\ pulses' = n /\ pcntOn' = pcntOn
        /\ pcntRaw' \in BOOLEAN
    BY <1>1, <1>5, Zenon
  <2> HIDE DEF n
  <2>3. PcntTypeOK'
    BY <1>1, <1>2, <2>1, <2>2, PcntFacts, Zenon DEF PcntTypeOK, Position
  <2>4. SampleFits'
    BY <1>1, <1>3, <1>5, <2>1, <2>2, Zenon DEF SampleFits, FreshSample, FreshCount, FirstCount,
             LateCount, StoppedSample
  <2>5. QED BY <2>3, <2>4, Zenon
<1>6. CASE pcntOn /\ ~Counting
  <2>1. /\ sampled' = sampled /\ prevSig' = prevSig /\ pcntOn' = pcntOn /\ pcntRaw' = pcntRaw
        /\ pulses' \in Position
    BY <1>1, <1>2, <1>6, PcntFacts, Zenon
  <2>2. PcntTypeOK'
    BY <1>1, <1>2, <2>1, PcntFacts, Zenon DEF PcntTypeOK, Position
  <2>3. SampleFits'
    BY <1>1, <1>3, <1>6, <2>1, Zenon DEF SampleFits, FreshSample, FreshCount, FirstCount,
             LateCount, StoppedSample
  <2>4. QED BY <2>2, <2>3, Zenon
<1>7. QED BY <1>4, <1>5, <1>6, Zenon

LEMMA PcntNextIInv == PcntIInv /\ [PcntNext]_pcntVars => PcntIInv'
<1> SUFFICES ASSUME PcntIInv, [PcntNext]_pcntVars PROVE PcntIInv'
  BY Zenon
<1>1. CASE PcntIntClr \/ UNCHANGED pcntVars
  <2>1. UNCHANGED <<pos, sampled, prevSig, pcntOn, rst, pause, pulses, zero, moved>>
    BY <1>1, Zenon DEF PcntIntClr, pcntVars
  <2>2. pcntRaw' \in BOOLEAN
    BY <1>1, PcntFacts, Zenon DEF PcntIntClr, pcntVars, PcntIInv
  <2>3. PcntTypeOK'
    BY <2>1, <2>2, PcntFacts, Zenon DEF PcntIInv, PcntTypeOK
  <2>4. SampleFits'
    BY <2>1, Zenon DEF PcntIInv, SampleFits, FreshSample, FreshCount, FirstCount, LateCount,
                StoppedSample, Counting
  <2>5. QED BY <2>3, <2>4, Zenon DEF PcntIInv
<1>2. QED
  BY <1>1, TurnKeeps, WriteCtrlKeeps, TickKeeps, Zenon DEF PcntNext

\* For every modulus that is a multiple of four, through turns back, wraps and
\* pauses: the count is the encoder's position, but for the one step that a
\* sample from before a pause may cost (pcnt.rs, tick).
THEOREM PcntIsSound == PcntSpec => []PcntSound
<1>1. PcntIInv => PcntSound
  <2> SUFFICES ASSUME PcntIInv PROVE PcntSound
    BY Zenon
  <2>1. ASSUME pcntOn, Counting, sampled PROVE SmallError(pulses, zero, moved, pos)
    BY <2>1, Zenon DEF PcntIInv, SampleFits, FreshCount
  <2>2. StaleSampleCostsOne
    BY <2>1, Zenon DEF StaleSampleCostsOne, SmallError, Error
  <2>3. ASSUME pcntOn, Counting, sampled, ~moved PROVE pulses = Diff(pos, zero)
    <3>1. pulses \in Position /\ Diff(pos, zero) \in Position
      BY PcntFacts, DiffValue, Zenon DEF PcntIInv
    <3>2. Diff(pulses, Diff(pos, zero)) = 0
      BY <2>1, <2>3, Zenon DEF SmallError, Error
    <3>3. QED BY <3>1, <3>2, DiffZero, Zenon
  <2>4. QED BY <2>2, <2>3, Zenon DEF PcntSound, PcntIInv, CountsPosition
<1>2. QED
  BY <1>1, PcntInitIInv, PcntNextIInv, PTL DEF PcntSpec
=============================================================================
