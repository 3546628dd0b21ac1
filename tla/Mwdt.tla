-------------------------------- MODULE Mwdt --------------------------------
(***************************************************************************)
(* The main watchdog of a timer group (timg.rs): tick_wdt, the protected   *)
(* configuration registers, WDT_FEED, and the reset request the machine    *)
(* polls and answers with a reboot, which builds a new SoC.                *)
(*                                                                         *)
(* CountMod stands for the 2^64 of the wrapping counter.                   *)
(***************************************************************************)
EXTENDS Integers

CONSTANTS
  Stage,      \* 0..3: the watchdog's stages, in order
  Hold,       \* the stage holds firmware programs, in watchdog ticks
  Prescale,   \* the values of the WDT_CLK_PRESCALE field firmware programs
  Action,     \* the stage actions firmware programs: 0 none, 1 interrupt,
              \* 2 reset the CPU, 3 reset the system
  CountMod,   \* the counter's modulus
  Cap         \* bound: elapsed stops here

ASSUME MwdtAssumption ==
  /\ Stage \in {0..1, 0..2, 0..3}
  /\ Hold \subseteq Nat /\ 0 \in Hold
  /\ Prescale \subseteq Nat /\ 0 \in Prescale
  /\ Action \subseteq 0..3 /\ 0 \in Action
  /\ CountMod \in Nat \ {0}
  /\ Cap \in Nat \ {0}

VARIABLES
  en,        \* WDT_EN
  key,       \* WDT_WPROTECT holds the key
  prescale,  \* the WDT_CLK_PRESCALE field
  hold,      \* WDT_CONFIG2..5
  action,    \* the four stage action fields
  count, clkAcc, running, fired,   \* wdt_count, wdt_clk_acc, ...
  intRaw,    \* the WDT bit of INT_RAW
  reset,     \* wdt_reset
  hung,      \* the firmware has stopped
  elapsed,   \* history: watchdog cycles since the last feed or start, up to Cap
  minPre     \* history: the smallest divisor in force since then

cfg == <<en, key, prescale, hold, action>>
hist == <<elapsed, minPre>>
vars == <<cfg, count, clkAcc, running, fired, intRaw, reset, hung, hist>>

NoStage == [i \in Stage |-> FALSE]

Divisor(p) == IF p = 0 THEN 1 ELSE p

Smaller(a, b) == IF a < b THEN a ELSE b

Init ==
  /\ en = FALSE /\ key = TRUE /\ prescale = 0
  /\ hold = [i \in Stage |-> 0] /\ action = [i \in Stage |-> 0]
  /\ count = 0 /\ clkAcc = 0 /\ running = FALSE /\ fired = NoStage
  /\ intRaw = FALSE /\ reset = FALSE /\ hung = FALSE
  /\ elapsed = 0 /\ minPre = 1

-----------------------------------------------------------------------------
(* Firmware                                                                *)

WriteProtect ==
  /\ ~hung
  /\ key' \in BOOLEAN
  /\ UNCHANGED <<en, prescale, hold, action, count, clkAcc, running, fired,
                 intRaw, reset, hung, hist>>

\* The configuration registers are written only under the key.
WriteConfig0 ==
  /\ ~hung /\ key
  /\ en' \in BOOLEAN
  /\ action' \in [Stage -> Action]
  /\ UNCHANGED <<key, prescale, hold, count, clkAcc, running, fired, intRaw,
                 reset, hung, hist>>

WriteConfig1 ==
  /\ ~hung /\ key
  /\ prescale' \in Prescale
  /\ minPre' = Smaller(minPre, Divisor(prescale'))
  /\ UNCHANGED <<en, key, hold, action, count, clkAcc, running, fired, intRaw,
                 reset, hung, elapsed>>

WriteHold ==
  /\ ~hung /\ key
  /\ \E i \in Stage, h \in Hold : hold' = [hold EXCEPT ![i] = h]
  /\ UNCHANGED <<en, key, prescale, action, count, clkAcc, running, fired,
                 intRaw, reset, hung, hist>>

Feed ==
  /\ ~hung
  /\ count' = 0 /\ clkAcc' = 0 /\ fired' = NoStage
  /\ elapsed' = 0 /\ minPre' = Divisor(prescale)
  /\ UNCHANGED <<cfg, running, intRaw, reset, hung>>

IntClr ==
  /\ ~hung /\ intRaw
  /\ intRaw' = FALSE
  /\ UNCHANGED <<cfg, count, clkAcc, running, fired, reset, hung, hist>>

Hang == ~hung /\ hung' = TRUE
        /\ UNCHANGED <<cfg, count, clkAcc, running, fired, intRaw, reset, hist>>

-----------------------------------------------------------------------------
(* Time                                                                    *)

\* A stage's threshold is the sum of the holds up to its own; 0 means none.
Thr(i) == hold[0] + (IF i > 0 THEN hold[1] ELSE 0) + (IF i > 1 THEN hold[2] ELSE 0)
                  + (IF i > 2 THEN hold[3] ELSE 0)

\* Mutants: one tick early; one stage a tick; only action 3 resets.
CountEarly(c, f) ==
  LET n == (c + 1) % CountMod
      due == {i \in Stage : ~f[i] /\ Thr(i) # 0 /\ n + 1 >= Thr(i)}
  IN  /\ count' = n
      /\ fired' = [i \in Stage |-> f[i] \/ i \in due]
      /\ intRaw' = (intRaw \/ \E i \in due : action[i] = 1)
      /\ reset' = (reset \/ \E i \in due : action[i] \in {2, 3})

CountLastOnly(c, f) ==
  LET n == (c + 1) % CountMod
      ready == {i \in Stage : ~f[i] /\ Thr(i) # 0 /\ n >= Thr(i)}
      due == {i \in ready : \A j \in ready : j <= i}
  IN  /\ count' = n
      /\ fired' = [i \in Stage |-> f[i] \/ i \in due]
      /\ intRaw' = (intRaw \/ \E i \in due : action[i] = 1)
      /\ reset' = (reset \/ \E i \in due : action[i] \in {2, 3})

CountSystemOnly(c, f) ==
  LET n == (c + 1) % CountMod
      due == {i \in Stage : ~f[i] /\ Thr(i) # 0 /\ n >= Thr(i)}
  IN  /\ count' = n
      /\ fired' = [i \in Stage |-> f[i] \/ i \in due]
      /\ intRaw' = (intRaw \/ \E i \in due : action[i] = 1)
      /\ reset' = (reset \/ \E i \in due : action[i] = 3)

\* tick_wdt past the prescaler: the counter moves on from c and every stage
\* whose threshold it has reached fires, once; f are the stages fired before.
Count(c, f) ==
  LET n == (c + 1) % CountMod
      due == {i \in Stage : ~f[i] /\ Thr(i) # 0 /\ n >= Thr(i)}
  IN  /\ count' = n
      /\ fired' = [i \in Stage |-> f[i] \/ i \in due]
      /\ intRaw' = (intRaw \/ \E i \in due : action[i] = 1)
      /\ reset' = (reset \/ \E i \in due : action[i] \in {2, 3})

\* tick: tick_wdt is called only while WDT_EN is set; the first call after a
\* reset starts the count.
Tick ==
  /\ en
  /\ running' = TRUE
  /\ LET c == IF running THEN count ELSE 0
         f == IF running THEN fired ELSE NoStage
         a == (IF running THEN clkAcc ELSE 0) + 1
         d == Divisor(prescale)
     IN  IF a < d
         THEN clkAcc' = a /\ count' = c /\ fired' = f /\ UNCHANGED <<intRaw, reset>>
         ELSE clkAcc' = a - d /\ Count(c, f)
  /\ elapsed' = Smaller(Cap, (IF running THEN elapsed ELSE 0) + 1)
  /\ minPre' = (IF running THEN minPre ELSE Divisor(prescale))
  /\ UNCHANGED <<cfg, hung>>

\* The machine consumes the request and reboots: reset() builds a new Soc.
ConsumeReset ==
  /\ reset
  /\ en' = FALSE /\ key' = TRUE /\ prescale' = 0
  /\ hold' = [i \in Stage |-> 0] /\ action' = [i \in Stage |-> 0]
  /\ count' = 0 /\ clkAcc' = 0 /\ running' = FALSE /\ fired' = NoStage
  /\ intRaw' = FALSE /\ reset' = FALSE /\ hung' = FALSE
  /\ elapsed' = 0 /\ minPre' = 1

-----------------------------------------------------------------------------

Next ==
  \/ WriteProtect \/ WriteConfig0 \/ WriteConfig1 \/ WriteHold
  \/ Feed \/ IntClr \/ Hang \/ Tick \/ ConsumeReset

Spec == Init /\ [][Next]_vars

\* step ticks the timers, and polls the reset request, on every call.
FairSpec == Spec /\ WF_vars(Tick) /\ WF_vars(ConsumeReset)

-----------------------------------------------------------------------------
(* Properties                                                              *)

\* The counters are naturals and the registers hold what firmware writes.
TypeOK ==
  /\ en \in BOOLEAN /\ key \in BOOLEAN /\ prescale \in Prescale
  /\ hold \in [Stage -> Hold] /\ action \in [Stage -> Action]
  /\ count \in 0 .. CountMod - 1 /\ clkAcc \in Nat
  /\ running \in BOOLEAN /\ fired \in [Stage -> BOOLEAN]
  /\ intRaw \in BOOLEAN /\ reset \in BOOLEAN /\ hung \in BOOLEAN
  /\ elapsed \in 0 .. Cap /\ minPre \in Nat \ {0}

\* Whatever is done to the prescaler under way, the count and the remainder
\* of the prescaler never run ahead of the time since the last feed.
CountWithinElapsed ==
  elapsed = Cap \/ clkAcc + count * minPre <= elapsed

\* A stage never fires before its whole threshold, in prescaled cycles, has
\* gone by since the last feed.
NoEarlyFire ==
  [][\A i \in Stage : ~fired[i] /\ fired'[i]
       => elapsed' = Cap \/ Thr(i) * minPre' <= elapsed']_vars

\* A stage that fires finds the earlier ones fired, but for those with no
\* timeout: a reset stage never overtakes the interrupt before it.
FireInOrder ==
  [][\A i, j \in Stage : i < j /\ ~fired[j] /\ fired'[j] => fired'[i] \/ Thr(i) = 0]_vars

Armed == en /\ \E i \in Stage : action[i] \in {2, 3} /\ Thr(i) # 0 /\ ~fired[i]

\* Firmware that hangs with a reset stage armed is rebooted.
HungIsReset == (hung /\ Armed) ~> ~hung
=============================================================================
