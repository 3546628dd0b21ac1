-------------------------------- MODULE Pcnt --------------------------------
(***************************************************************************)
(* One unit of the pulse counter (pcnt.rs) on a quadrature encoder.        *)
(* Channel 0 counts the edges of signal A under the level of B, channel 1  *)
(* those of B under the level of A.  The encoder's position moves by one,  *)
(* and so changes one signal, between two samples of a running unit.       *)
(***************************************************************************)
EXTENDS Integers

CONSTANTS
  CountMod32,  \* the modulus of the counter, 2^32; a multiple of four
  Watch        \* the count an enabled threshold compares with

ASSUME PcntAssumption ==
  CountMod32 \in Nat /\ CountMod32 > 2 /\ CountMod32 % 4 = 0 /\ Watch \in Nat

VARIABLES
  pos,         \* environment: the encoder's position, modulo CountMod32
  sampled,     \* environment: the position was sampled since it last moved
  prevSig,     \* <<A, B>> at the last counted sample
  pcntOn,      \* init: the first tick has sampled the signals
  rst, pause,  \* CTRL: pulse_cnt_rst, cnt_pause
  pulses,      \* count
  pcntRaw,     \* the unit's bit of INT_RAW
  zero,        \* history: the position at which pulses would read zero
  moved        \* history: the encoder moved while the unit was stopped

pcntVars == <<pos, sampled, prevSig, pcntOn, rst, pause, pulses, pcntRaw, zero, moved>>

\* The two signals of the encoder, in Gray code.
SigA(p) == IF p % 4 \in {1, 2} THEN 1 ELSE 0
SigB(p) == IF p % 4 \in {2, 3} THEN 1 ELSE 0

PcntInit ==
  /\ pos = 0 /\ sampled = FALSE /\ prevSig = <<0, 0>> /\ pcntOn = FALSE
  /\ rst = TRUE /\ pause = FALSE
  /\ pulses = 0 /\ pcntRaw = FALSE /\ zero = 0 /\ moved = FALSE

Counting == ~rst /\ ~pause

Diff(a, b) == (a + CountMod32 - b) % CountMod32

-----------------------------------------------------------------------------

\* The encoder turns one step either way.
Turn ==
  /\ Counting => sampled
  /\ \E d \in {1, CountMod32 - 1} : pos' = (pos + d) % CountMod32
  /\ sampled' = FALSE
  /\ moved' = (moved \/ ~Counting)
  /\ UNCHANGED <<prevSig, pcntOn, rst, pause, pulses, pcntRaw, zero>>

\* CTRL; a unit that starts again reads its old count at the new position.
WriteCtrl ==
  /\ rst' \in BOOLEAN /\ pause' \in BOOLEAN
  /\ pulses' = IF rst' THEN 0 ELSE pulses
  /\ zero' = IF Counting /\ Counting' THEN zero ELSE Diff(pos, pulses')
  /\ moved' = IF Counting /\ ~Counting' THEN ~sampled ELSE moved
  /\ UNCHANGED <<pos, sampled, prevSig, pcntOn, pcntRaw>>

PcntIntClr ==
  /\ pcntRaw /\ pcntRaw' = FALSE
  /\ UNCHANGED <<pos, sampled, prevSig, pcntOn, rst, pause, pulses, zero, moved>>

\* The mode fields of CONF0 that decode a quadrature encoder: what a rising
\* and a falling edge do (1 adds, 2 subtracts) and what the control signal
\* does when high and when low (0 keeps, 1 inverts, else inhibits).
Quadrature ==
  <<[rise |-> 2, fall |-> 1, high |-> 0, low |-> 1],
    [rise |-> 1, fall |-> 2, high |-> 0, low |-> 1]>>

\* Mutant: channel 1 looks at a control level of the last sample.
EdgeMixedControl(c, cur) ==
  LET m    == Quadrature[c]
      base == IF cur[c] = 1 THEN m.rise ELSE m.fall
      ctl  == IF (IF c = 2 THEN prevSig[1] ELSE cur[2]) = 1 THEN m.high ELSE m.low
      act  == IF ctl = 0 THEN base ELSE IF ctl = 1 THEN 3 - base ELSE 0
  IN  IF cur[c] = prevSig[c] THEN 0
      ELSE CASE act = 1 -> 1 [] act = 2 -> CountMod32 - 1 [] OTHER -> 0

\* What channel c adds to the count for the signals cur, its own signal being
\* cur[c] and its control the other one.
Edge(c, cur) ==
  LET m    == Quadrature[c]
      base == IF cur[c] = 1 THEN m.rise ELSE m.fall
      ctl  == IF cur[3 - c] = 1 THEN m.high ELSE m.low
      act  == IF ctl = 0 THEN base ELSE IF ctl = 1 THEN 3 - base ELSE 0
  IN  IF cur[c] = prevSig[c] THEN 0
      ELSE CASE act = 1 -> 1 [] act = 2 -> CountMod32 - 1 [] OTHER -> 0

\* Ticked while its clock runs and the unit counts, or was never sampled.
PcntTick ==
  LET cur == <<SigA(pos), SigB(pos)>>
      n   == (pulses + Edge(1, cur) + Edge(2, cur)) % CountMod32
  IN  /\ sampled' = (sampled \/ Counting \/ ~pcntOn)
      /\ IF ~pcntOn THEN prevSig' = cur /\ pcntOn' = TRUE /\ UNCHANGED <<pulses, pcntRaw>>
         ELSE IF Counting
         THEN prevSig' = cur /\ pulses' = n /\ pcntRaw' = (n = Watch) /\ UNCHANGED pcntOn
         ELSE pulses' = (IF rst THEN 0 ELSE pulses) /\ UNCHANGED <<prevSig, pcntOn, pcntRaw>>
      /\ UNCHANGED <<pos, rst, pause, zero, moved>>

PcntNext == Turn \/ WriteCtrl \/ PcntIntClr \/ PcntTick

-----------------------------------------------------------------------------
(* Properties                                                              *)

\* Counter and position stay within the counter's modulus.
PcntTypeOK ==
  /\ {pos, pulses, zero} \subseteq 0 .. CountMod32 - 1
  /\ prevSig \in {0, 1} \X {0, 1}
  /\ {sampled, pcntOn, rst, pause, pcntRaw, moved} \subseteq BOOLEAN

\* A unit that samples every step of the encoder has counted its position,
\* through turns back and wraps of the counter.
CountsPosition ==
  pcntOn /\ Counting /\ sampled /\ ~moved => pulses = Diff(pos, zero)

\* Whatever the encoder does while the unit is paused or held in reset, its
\* stale sample costs at most one count when it starts again.
StaleSampleCostsOne ==
  pcntOn /\ Counting /\ sampled => Diff(pulses, Diff(pos, zero)) \in {0, 1, CountMod32 - 1}

\* The count is the encoder's position, but for the one step that a sample
\* from before a pause may cost.
PcntSound == PcntTypeOK /\ CountsPosition /\ StaleSampleCostsOne
=============================================================================
