----------------------------- MODULE RmtCapture -----------------------------
(***************************************************************************)
(* One receive channel of the remote control peripheral (rmt.rs): it       *)
(* samples a line once per tick, filters glitches, stores the pulses as    *)
(* halves of the items of its RAM block and ends on a limit, a full block  *)
(* or a quiet line.  Widths are in sampling quanta (TICKS_PER_STEP); the   *)
(* demodulator is off.                                                     *)
(***************************************************************************)
EXTENDS Integers, Sequences, FiniteSetsExt

CONSTANTS
  Capacity,    \* the items of the RAM block
  RxLim,       \* the values of rx_lim, 0 for none
  IdleThres,   \* idle_thres
  FilterNeed,  \* the settings of the filter: samples that make an edge
  MaxWidth,    \* the longest width an item holds
  MaxSamples   \* bound: the samples of one capture that may wrap

ASSUME CaptureAssumption ==
  /\ {Capacity, IdleThres, MaxWidth, MaxSamples} \subseteq Nat \ {0}
  /\ RxLim \subseteq 0 .. 511 /\ RxLim # {}    \* the field has nine bits
  /\ FilterNeed \subseteq Nat \ {0} /\ FilterNeed # {}

VARIABLES
  rxConf,      \* rx_lim, wrap and filter, programmed before rx_en
  rxEn,        \* CHMCONF1.rx_en
  cap,         \* RxCh; place is item_idx and half in one
  rxMem,       \* the RAM block, one <<level, width>> per half
  rxEndRaw,    \* the rx_end bit of INT_RAW
  rmtQuiet,    \* the driver, the clock left on, waits from now on
  samples,     \* history: the levels sampled since the capture began
  rewound      \* history: its writer or settings were changed since

captureVars == <<rxConf, rxEn, cap, rxMem, rxEndRaw, rmtQuiet, samples, rewound>>

Halves == 0 .. 2 * Capacity - 1
Level == {0, 1}
Blank == [h \in Halves |-> <<0, 0>>]

CaptureInit ==
  /\ rxConf = [lim |-> Max(RxLim), wrap |-> FALSE, filter |-> Min(FilterNeed)]
  /\ rxEn = FALSE /\ rxMem = Blank /\ rxEndRaw = FALSE
  /\ cap = [armed |-> FALSE, active |-> FALSE, flevel |-> 0, fcount |-> 0,
            pwidth |-> 0, idle |-> 0, place |-> 0]
  /\ rmtQuiet = FALSE /\ samples = <<>> /\ rewound = FALSE

-----------------------------------------------------------------------------

\* The driver sets the channel up while it does not capture.
SetRxConf ==
  /\ ~rmtQuiet /\ ~cap.armed
  /\ rxConf' \in [lim : RxLim, wrap : BOOLEAN, filter : FilterNeed]
  /\ samples' = <<>> /\ rewound' = TRUE
  /\ UNCHANGED <<rxEn, cap, rxMem, rxEndRaw, rmtQuiet>>

\* A rising rx_en arms the channel, over a running capture too; fcount stays.
Arm ==
  /\ ~rmtQuiet /\ ~rxEn /\ rxEn' = TRUE
  /\ cap' = [cap EXCEPT !.armed = TRUE, !.active = FALSE, !.place = 0, !.idle = 0,
                        !.pwidth = 0, !.flevel = 0]
  /\ samples' = <<>>
  /\ UNCHANGED <<rxConf, rxMem, rxEndRaw, rmtQuiet, rewound>>

\* rx_en is written back low: a capture under way goes on.
ClearEn ==
  /\ ~rmtQuiet /\ rxEn /\ rxEn' = FALSE
  /\ UNCHANGED <<rxConf, cap, rxMem, rxEndRaw, rmtQuiet, samples, rewound>>

\* mem_wr_rst or apb_mem_rst, once per capture.
ResetWriter ==
  /\ ~rmtQuiet /\ ~rewound
  /\ cap' = [cap EXCEPT !.place = 0]
  /\ rewound' = TRUE
  /\ UNCHANGED <<rxConf, rxEn, rxMem, rxEndRaw, rmtQuiet, samples>>

RmtIntClr ==
  /\ rxEndRaw' = FALSE
  /\ UNCHANGED <<rxConf, rxEn, cap, rxMem, rmtQuiet, samples, rewound>>

AwaitCapture ==
  /\ ~rmtQuiet /\ rmtQuiet' = TRUE
  /\ UNCHANGED <<rxConf, rxEn, cap, rxMem, rxEndRaw, samples, rewound>>

\* The first tick of an armed channel takes its level as the base.  What an
\* earlier capture left in the block is not told apart from an empty one.
StartCapture ==
  /\ cap.armed /\ ~cap.active
  /\ \E s \in Level :
       /\ cap' = [cap EXCEPT !.active = TRUE, !.flevel = s, !.fcount = 0, !.pwidth = 1,
                             !.place = 0, !.idle = 0]
       /\ samples' = <<s>>
  /\ rxMem' = Blank /\ rewound' = FALSE
  /\ UNCHANGED <<rxConf, rxEn, rxEndRaw, rmtQuiet>>

Stored(level, width) == <<level, Min({width, MaxWidth})>>

\* Mutant: a finished capture starts over.
FinishedStaysArmed(c) == [c EXCEPT !.active = FALSE, !.pwidth = 0]

\* rx_finish after the open pulse was closed: nothing is left to flush.
Finished(c) == [c EXCEPT !.active = FALSE, !.armed = FALSE, !.pwidth = 0]

\* The channel after an accepted edge to s: rx_close_pulse moves the writer on,
\* and a completed item may end the capture or wrap it.
AfterEdge(c, s) ==
  LET next == c.place + 1
      item == next \div 2
      e    == [c EXCEPT !.flevel = s, !.fcount = 0, !.idle = 0, !.pwidth = 0, !.place = next]
  IN  IF next % 2 = 1 THEN e
      ELSE IF rxConf.lim > 0 /\ item >= rxConf.lim THEN Finished(e)
      ELSE IF item < Capacity THEN e
      ELSE IF rxConf.wrap THEN [e EXCEPT !.place = 0]
      ELSE Finished(e)

\* The channel after a tick with no edge, and what rx_finish flushes of it.
AfterQuiet(c, s) ==
  [c EXCEPT !.fcount = IF s # c.flevel THEN c.fcount + 1 ELSE 0,
            !.pwidth = c.pwidth + 1, !.idle = c.idle + 1]

\* A sample that completes an edge under the filter.
Accepted(s) == s # cap.flevel /\ cap.fcount + 1 >= rxConf.filter

\* Mutant: the closed pulse is stored with the level after the edge.
EdgeTickNewLevel ==
  \E s \in Level :
    /\ Accepted(s)
    /\ rxMem' = [rxMem EXCEPT ![cap.place] = Stored(s, cap.pwidth)]
    /\ cap' = AfterEdge(cap, s)
    /\ rxEndRaw' = (rxEndRaw \/ ~cap'.active)
    /\ samples' = Append(samples, s)

EdgeTick ==
  \E s \in Level :
    /\ Accepted(s)
    /\ rxMem' = [rxMem EXCEPT ![cap.place] = Stored(1 - s, cap.pwidth)]
    /\ cap' = AfterEdge(cap, s)
    /\ rxEndRaw' = (rxEndRaw \/ ~cap'.active)
    /\ samples' = Append(samples, s)

QuietTick ==
  \E s \in Level :
    LET c == AfterQuiet(cap, s) IN
    /\ ~Accepted(s)
    /\ IF c.idle < IdleThres THEN cap' = c /\ UNCHANGED <<rxMem, rxEndRaw>>
       ELSE /\ rxMem' = [rxMem EXCEPT ![c.place] = Stored(c.flevel, c.pwidth)]
            /\ cap' = [Finished(c) EXCEPT !.place = c.place + 1]
            /\ rxEndRaw' = TRUE
    /\ samples' = Append(samples, s)

\* tick_rx while a capture runs and the clock is on.
RmtTick ==
  \/ StartCapture
  \/ /\ cap.active
     /\ rxConf.wrap => Len(samples) < MaxSamples
     /\ EdgeTick \/ QuietTick
     /\ UNCHANGED <<rxConf, rxEn, rmtQuiet, rewound>>

CaptureNext == SetRxConf \/ Arm \/ ClearEn \/ ResetWriter \/ RmtIntClr \/ AwaitCapture \/ RmtTick

-----------------------------------------------------------------------------
(* Properties                                                              *)

\* The writer stays within the block while the capture runs.
CaptureTypeOK ==
  /\ cap.place \in 0 .. 2 * Capacity /\ (cap.active => cap.place \in Halves)
  /\ rxMem \in [Halves -> Level \X (0 .. MaxWidth)]
  /\ samples \in Seq(Level)

\* The filtered level of the line after the first i samples: that of the last
\* run of equal samples as long as the filter asks, or of the first sample.
LineLevel(i) ==
  LET steady(j) == \A k \in j - rxConf.filter + 1 .. j : samples[k] = samples[j]
  IN  samples[Max({1} \cup {j \in rxConf.filter .. i : steady(j)})]

LineEdges == {i \in 2 .. Len(samples) : LineLevel(i) # LineLevel(i - 1)}

\* The k-th pulse on the line lasts from the k-1st edge to the k-th.
EdgeAt(k) == CHOOSE i \in LineEdges : Cardinality({j \in LineEdges : j <= i}) = k

\* The half item p holds the pulse of the samples from i to j: its level, and
\* its width to within the quantum of the edge that opened it.
Holds(p, i, j) ==
  p[1] = LineLevel(j) /\ \E w \in {j - i, j - i + 1} : p[2] = Min({w, MaxWidth})

\* The block holds the latest pulses of the line, each in the place of its
\* turn; the one that was open when the line fell quiet is the last of them.
RecordsPulses ==
  LET n       == Cardinality(LineEdges)
      from(k) == IF k = 1 THEN 1 ELSE EdgeAt(k - 1)
      slot(k) == rxMem[(k - 1) % (2 * Capacity)]
      flushed == cap.idle >= IdleThres
      last    == IF flushed THEN n + 1 ELSE n
  IN  ~rewound =>
        /\ cap.active => cap.place = n % (2 * Capacity)
        /\ \A k \in Max({1, last - 2 * Capacity + 1}) .. n : Holds(slot(k), from(k), EdgeAt(k) - 1)
        /\ flushed => Holds(slot(n + 1), from(n + 1), Len(samples))

\* A capture ends on a line without an edge for IdleThres samples, or once
\* its items are used up; never for what an earlier capture counted.
EndsForAReason ==
  LET n == Cardinality(LineEdges)
  IN  samples # <<>> /\ ~cap.active /\ ~cap.armed /\ ~rewound =>
        \/ Len(samples) > IdleThres
           /\ LineEdges \cap (Len(samples) - IdleThres + 1 .. Len(samples)) = {}
        \/ n = 2 * (IF rxConf.lim > 0 THEN Min({rxConf.lim, Capacity}) ELSE Capacity)

\* An armed capture whose driver waits for it ends, whatever the line does,
\* unless its block wraps.
CaptureEnds == (rmtQuiet /\ cap.armed /\ ~rxConf.wrap) ~> ~cap.armed

\* The safety of the capture: the memory holds the pulses of the line, and the
\* capture ends only where it should.
CaptureSound == CaptureTypeOK /\ RecordsPulses /\ EndsForAReason
=============================================================================
