---------------------------- MODULE SleepMachine ----------------------------
(***************************************************************************)
(* Sleep, wake and reset of the whole machine: Esp32S3::step, step_fast    *)
(* and the host's fast_forward_sleep (machine.rs, wasm-bridge step_batch), *)
(* Soc::consume_sleep_request and sleep_ulp_fired, and the RTC registers   *)
(* behind them (rtc.rs).                                                   *)
(*                                                                         *)
(* driver says which host loop steps the machine.  The wake sources that   *)
(* are met or not at the moment of entry (EXT0, EXT1, GPIO, UART, touch)   *)
(* are one source, "trigger".  The coprocessor runs one instruction a      *)
(* tick and has ulpLeft of them until it halts.                            *)
(***************************************************************************)
EXTENDS Integers

CONSTANTS
  Drivers,   \* the host loops considered
  Period,    \* the sleep periods firmware programs, in slow-clock ticks
  MaxSkip,   \* bound: the budget left to one fast_forward_sleep
  MaxUlp,    \* bound: instructions of a coprocessor program
  Bites      \* device reset requests may occur

Forever == -1            \* the budget u64::MAX

ASSUME SleepAssumption ==
  /\ Drivers \subseteq {"step", "fast", "batch"}
  /\ Period \subseteq Nat
  /\ MaxSkip \in Nat \ {0} /\ MaxUlp \in Nat \ {0} /\ Bites \in BOOLEAN

Source == {"timer", "trigger", "ulp"}

VARIABLES
  driver,      \* "step" (single-step), "fast" (step_fast) or "batch" (step_batch)
  asleep, light, remaining,   \* of Esp32S3: asleep, sleep_light, sleep_remaining
  dec,         \* core 0's pc decodes to a cached block
  req,         \* a sleep request is pending
  deep,        \* DIG_PWC says deep sleep (captured with the request)
  period,      \* SLP_TIMER0/1
  written,     \* SLP_TIMER0/1 were written since reset
  ena,         \* WAKEUP_ENA
  ulpLeft,     \* instructions to the coprocessor's halt, 0 when stopped
  watch,       \* sleep_ulp_watch
  cause,       \* sleep_cause
  wakeupCause, \* SLP_WAKEUP_CAUSE
  resetCause,  \* RESET_STATE
  wdt,         \* a device reset request is pending
  boot,        \* history: parity of reboots
  entry        \* history: what the current sleep was, and since it began

machine == <<asleep, light, remaining, dec>>
rtc == <<req, deep, period, written, ena, wakeupCause, resetCause>>
sleepVars == <<driver, machine, rtc, ulpLeft, watch, cause, wdt, boot, entry>>

\* Nothing asleep: no sleep to remember.
Awake == [deep |-> FALSE, ulp |-> FALSE, met |-> FALSE, slept |-> 0]

SleepInit ==
  /\ driver \in Drivers
  /\ asleep = FALSE /\ light = FALSE /\ remaining = 0 /\ dec = TRUE
  /\ req = FALSE /\ deep = FALSE /\ period = 0 /\ written = FALSE /\ ena = {}
  /\ ulpLeft = 0 /\ watch = FALSE /\ cause = {}
  /\ wakeupCause = {} /\ resetCause = "poweron"
  /\ wdt = FALSE /\ boot = 0 /\ entry = Awake

-----------------------------------------------------------------------------
(* Reset, entry and wake                                                   *)

\* Mutant: the causes are set before the SoC is replaced.
RebootLosesCause(w, r) ==
  /\ asleep' = FALSE /\ light' = FALSE /\ remaining' = 0 /\ dec' = TRUE
  /\ req' = FALSE /\ deep' = FALSE /\ period' = 0 /\ written' = FALSE /\ ena' = {}
  /\ watch' = FALSE /\ cause' = {} /\ wdt' = FALSE
  /\ wakeupCause' = {} /\ resetCause' = r
  /\ boot' = 1 - boot /\ entry' = Awake

\* reset(): a new SoC with the coprocessor's state restored from the RTC
\* snapshot; w and r are the causes its fresh registers are given.
Reboot(w, r) ==
  /\ asleep' = FALSE /\ light' = FALSE /\ remaining' = 0 /\ dec' = TRUE
  /\ req' = FALSE /\ deep' = FALSE /\ period' = 0 /\ written' = FALSE /\ ena' = {}
  /\ watch' = FALSE /\ cause' = {} /\ wdt' = FALSE
  /\ wakeupCause' = w /\ resetCause' = r
  /\ boot' = 1 - boot /\ entry' = Awake

TimerArmed == "timer" \in ena \/ written

\* Mutant: the kind is that of the sleep before.
KindStale == light

\* sleep_light at entry.
Kind == ~deep

\* Mutant: the watch of an earlier sleep is not cleared.
WatchedStale(u) == watch \/ (u /\ "ulp" \in ena)

\* sleep_ulp_watch at entry.
Watched(u) == u /\ "ulp" \in ena

\* consume_sleep_request and the entry into sleep; u says whether the
\* coprocessor runs, met whether the trigger's condition holds, b whether a
\* reset request is left pending.
EnterSleep(u, met, b) ==
  LET c == (IF met /\ "trigger" \in ena THEN {"trigger"} ELSE {})
           \cup (IF TimerArmed THEN {"timer"} ELSE {})
      budget == IF TimerArmed THEN period ELSE IF c # {} THEN 1 ELSE Forever
  IN  /\ req' = FALSE
      /\ cause' = c
      /\ watch' = Watched(u)
      /\ asleep' = TRUE /\ light' = Kind
      /\ remaining' = IF budget = 0 THEN 1 ELSE budget
      /\ wdt' = b
      /\ entry' = [deep |-> deep, ulp |-> u, met |-> "trigger" \in c, slept |-> 0]
      /\ UNCHANGED <<dec, deep, period, written, ena, wakeupCause, resetCause, boot>>

\* wake() with the stashed cause c; w is what is left of the watch.  A light
\* sleep resumes in place, a deep one reboots.
Wake(c, w, b) ==
  LET told == IF c = {} THEN {"timer"} ELSE c
  IN  IF light
      THEN /\ wakeupCause' = told
           /\ asleep' = FALSE /\ remaining' = 0 /\ cause' = {}
           /\ watch' = w /\ wdt' = b /\ entry' = Awake
           /\ UNCHANGED <<light, dec, req, deep, period, written, ena, resetCause, boot>>
      ELSE Reboot(told, "deepsleep")

\* Mutant: the end of the period counts only if the timer was armed.
TickTimerOnly(u, b) ==
  IF watch /\ ~u THEN Wake(cause \cup {"ulp"}, FALSE, b)
  ELSE IF remaining = 0 /\ "timer" \in cause THEN Wake(cause, watch, b)
  ELSE /\ remaining' = IF remaining \in {Forever, 0} THEN remaining ELSE remaining - 1
       /\ wdt' = b /\ entry' = entry
       /\ UNCHANGED <<asleep, light, dec, rtc, watch, cause, boot>>

\* Mutant: the coprocessor's halt is not looked at.
TickPeriodOnly(u, b) ==
  IF remaining = 0 THEN Wake(cause, watch, b)
  ELSE /\ remaining' = IF remaining = Forever THEN Forever ELSE remaining - 1
       /\ wdt' = b /\ entry' = entry
       /\ UNCHANGED <<asleep, light, dec, rtc, watch, cause, boot>>

\* sleep_tick, after a tick that left the coprocessor running (u) or not.
SleepTick(u, b) ==
  IF watch /\ ~u THEN Wake(cause \cup {"ulp"}, FALSE, b)
  ELSE IF remaining = 0 THEN Wake(cause, watch, b)
  ELSE /\ remaining' = IF remaining = Forever THEN Forever ELSE remaining - 1
       /\ wdt' = b
       /\ entry' = [entry EXCEPT !.slept = IF @ < 3 THEN @ + 1 ELSE @]
       /\ UNCHANGED <<asleep, light, dec, rtc, watch, cause, boot>>

-----------------------------------------------------------------------------
(* The firmware's part of a step: one register write or nothing of note.   *)

Cpu(n, b) ==
  /\ dec' \in BOOLEAN
  /\ wdt' = b
  /\ \/ /\ req' = TRUE /\ deep' \in BOOLEAN
        /\ ulpLeft' = n
        /\ UNCHANGED <<period, written, ena>>
     \/ /\ period' \in Period /\ written' = TRUE
        /\ ulpLeft' = n
        /\ UNCHANGED <<req, deep, ena>>
     \/ /\ ena' \in SUBSET Source
        /\ ulpLeft' = n
        /\ UNCHANGED <<req, deep, period, written>>
     \/ /\ n = 0 /\ ulpLeft' \in 1 .. MaxUlp
        /\ UNCHANGED <<req, deep, period, written, ena>>
     \/ /\ ulpLeft' = n
        /\ UNCHANGED <<req, deep, period, written, ena>>
  /\ UNCHANGED <<asleep, light, remaining, watch, cause, wakeupCause, resetCause,
                 boot, entry>>

-----------------------------------------------------------------------------
(* The host loops                                                          *)

\* tick_timers(n): the coprocessor moves on; a device may request a reset.
\* An action's parameter bites is what the request may be after a tick.
Ticked(n) == IF ulpLeft > n THEN ulpLeft - n ELSE 0

Pending == {wdt} \cup (IF Bites THEN {TRUE} ELSE {})

\* What follows a tick and no reset request in step.
AfterTick(n, b) ==
  \/ asleep /\ ulpLeft' = n /\ SleepTick(n > 0, b)
  \/ ~asleep /\ req /\ ulpLeft' = n /\ \E met \in BOOLEAN : EnterSleep(n > 0, met, b)
  \/ ~asleep /\ ~req /\ Cpu(n, b)

\* Mutant: the reset request is polled only when awake.
StepAwakePoll(bites) ==
  /\ driver = "step"
  /\ \E bite \in bites :
       IF bite /\ ~asleep THEN ulpLeft' = Ticked(1) /\ Reboot({}, "poweron")
       ELSE AfterTick(Ticked(1), bite)

Step(bites) ==
  /\ driver = "step"
  /\ \E bite \in bites :
       IF bite THEN ulpLeft' = Ticked(1) /\ Reboot({}, "poweron") ELSE AfterTick(Ticked(1), FALSE)

\* step_fast at a pc that does not decode: as step, but a sleeping machine
\* is ticked a second time, past the poll of the reset request.
FastUndecodable(bites) ==
  /\ driver \in {"fast", "batch"} /\ ~dec
  /\ driver = "batch" => ~asleep
  /\ \E bite, late \in bites :
       IF bite THEN ulpLeft' = Ticked(1) /\ Reboot({}, "poweron")
       ELSE IF asleep THEN ulpLeft' = Ticked(2) /\ SleepTick(Ticked(2) > 0, late)
       ELSE AfterTick(Ticked(1), FALSE)

\* step_fast asleep: ticks, and does not poll the reset request.
FastAsleep(bites) ==
  /\ driver = "fast" /\ dec /\ asleep
  /\ ulpLeft' = Ticked(1)
  /\ \E bite \in bites : SleepTick(Ticked(1) > 0, bite)

\* step_fast with a request pending: enters sleep without a tick.
FastEnter ==
  /\ driver \in {"fast", "batch"} /\ dec /\ ~asleep /\ req
  /\ UNCHANGED ulpLeft
  /\ \E met \in BOOLEAN : EnterSleep(ulpLeft > 0, met, wdt)

\* run_fast_core: an instruction, with or without a tick after it
\* (fast_maybe_tick), which polls the reset request.
FastRun ==
  /\ driver \in {"fast", "batch"} /\ dec /\ ~asleep /\ ~req
  /\ Cpu(ulpLeft, wdt)

FastRunTick(bites) ==
  /\ driver \in {"fast", "batch"} /\ dec /\ ~asleep /\ ~req
  /\ \E bite \in bites :
       IF bite THEN ulpLeft' = Ticked(1) /\ Reboot({}, "poweron") ELSE Cpu(Ticked(1), FALSE)

\* What fast_forward_sleep leaves of the period.
Forwarded(max) ==
  IF remaining = Forever THEN Forever ELSE IF remaining > max THEN remaining - max ELSE 0

\* step_batch asleep: fast_forward_sleep with the budget left; no tick.
FastForward ==
  /\ driver = "batch" /\ asleep
  /\ UNCHANGED ulpLeft
  /\ \E max \in 1 .. MaxSkip :
       IF Forwarded(max) = 0 THEN Wake(cause, watch, wdt)
       ELSE /\ remaining' = Forwarded(max)
            /\ UNCHANGED <<asleep, light, dec, rtc, watch, cause, wdt, boot, entry>>

-----------------------------------------------------------------------------

SleepNext ==
  /\ \/ Step(Pending) \/ FastUndecodable(Pending) \/ FastAsleep(Pending) \/ FastRunTick(Pending)
     \/ FastEnter \/ FastRun \/ FastForward
  /\ UNCHANGED driver

\* The host keeps stepping.  Fairness is on the steps without a new reset
\* request: no device owes one.  It is strong for the tick among running
\* instructions, since fast_tick_ctr goes on counting across sleeps.
KeepsStepping == Step({wdt}) /\ UNCHANGED driver
KeepsTicking == (FastUndecodable({wdt}) \/ FastAsleep({wdt})) /\ UNCHANGED driver
KeepsPolling == FastRunTick({wdt}) /\ UNCHANGED driver
KeepsSkipping == (FastEnter \/ FastForward) /\ UNCHANGED driver

-----------------------------------------------------------------------------
(* Properties                                                              *)

\* The sleep state and the registers behind it stay within their ranges, and
\* a machine that is awake has no sleep left to serve.
SleepTypeOK ==
  /\ {asleep, light, dec, req, deep, written, watch, wdt} \subseteq BOOLEAN
  /\ remaining = Forever \/ \E p \in Period \cup {1} : remaining \in 0 .. p
  /\ {ena, cause, wakeupCause} \subseteq SUBSET Source
  /\ ulpLeft \in 0 .. MaxUlp
  /\ ~asleep => remaining = 0 /\ cause = {}

\* Steps by which a sleep ends of itself.
Wakes == asleep /\ ~asleep' /\ wakeupCause' # {}

\* A sleep ends the way it was requested, however many steps earlier: a deep
\* one with a reboot and the deep-sleep reset cause, a light one in place.
KindRespected ==
  [][Wakes => IF entry.deep THEN boot' # boot /\ resetCause' = "deepsleep"
              ELSE boot' = boot /\ resetCause' = resetCause]_sleepVars

\* A wake by the coprocessor is reported only if it ran when this sleep began
\* and halted in it: no watch is left over from an earlier sleep.
UlpCauseFresh ==
  [][Wakes /\ "ulp" \in wakeupCause' => entry.ulp /\ ulpLeft' = 0]_sleepVars

\* After a deep-sleep reboot the firmware finds a wake cause.
DeepWakeHasCause == resetCause = "deepsleep" => wakeupCause # {}

\* A sleep with a period ends under every host loop.
TimedSleepEnds == (asleep /\ remaining # Forever) ~> ~asleep

\* A sleep that watches the coprocessor ends under the loops that tick it.
WatchedSleepEnds == (asleep /\ watch /\ driver # "batch") ~> ~asleep

\* A sleep that something will end does end, whichever loop drives it.
SleepEnds == TimedSleepEnds /\ WatchedSleepEnds

\* A device's reset request is not left pending by the loops that poll it,
\* asleep or awake.
ResetHonoured == (wdt /\ driver # "fast") ~> ~wdt

\* consume_sleep_request: "the sleep ends on a watched event", whichever loop
\* steps the machine.
WatchedSleepEndsAnyLoop == (asleep /\ watch) ~> ~asleep

\* step_fast: "Deep-sleep plumbing mirrors `step`", which reboots on a
\* device's request in sleep as awake.
ResetHonouredAnyLoop == wdt ~> ~wdt
=============================================================================
