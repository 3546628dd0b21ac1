---------------------------- MODULE XtensaWindow ----------------------------
(***************************************************************************)
(* The windowed register file of the Xtensa core: cpu.rs (window,          *)
(* window_overflow, window_underflow, the overflow check of step_one) and  *)
(* the CALLn, ENTRY, RETW, RFWO and RFWU arms of exec.rs.                  *)
(*                                                                         *)
(* The 64 physical registers are N units of four.  A unit's contents are   *)
(* abstracted to what tells them apart: the frame whose code wrote them,   *)
(* which of that frame's units they are and, for unit 0, the window count  *)
(* in the top bits of a0.  The spill and fill handlers at the window       *)
(* vectors are firmware; they are modelled from the registers the cores    *)
(* give them and marked external.                                          *)
(***************************************************************************)
EXTENDS Integers, Sequences

CONSTANTS
  N,         \* 16: window units in the register file
  Inc,       \* {1, 2, 3}: CALL4, CALL8, CALL12
  Reach,     \* the highest register units the program's instructions name
  MaxDepth   \* bound: the deepest call

ASSUME WindowAssumption ==
  /\ N \in Nat /\ N >= 8
  /\ Inc \subseteq 1..3 /\ Reach \subseteq 1..3
  /\ MaxDepth \in Nat \ {0}

VARIABLES
  windowbase,   \* WINDOW_BASE
  windowstart,  \* WINDOW_START: the units where a resident frame starts
  phys,         \* the register file, by unit
  excm,         \* PS.EXCM, set while a window handler runs
  owb,          \* PS.OWB
  callinc,      \* PS.CALLINC
  insn,         \* the instruction at pc: it is retried after an exception
  handler,      \* the window exception being handled, or "none"
  illegal,      \* an ILLEGAL_INSTRUCTION exception was raised
  save,         \* external: the register save areas on the firmware's stack
  frames        \* history: the calls entered and not returned from, each with
                \* where it starts, counted in units without wrapping round

cpuVars == <<windowbase, windowstart, phys, excm, owb, callinc>>
windowVars == <<cpuVars, insn, handler, illegal, save, frames>>

Unit == 0 .. N - 1

Up(b, k) == (b + k) % N
Down(b, k) == (b + N - k) % N

Nesting == Len(frames)

\* The contents of unit u as written by frame d; n is the count in a0.
Word(d, u, n) == [frame |-> d, unit |-> u, count |-> n]

\* The contents of a unit no live frame counts on.
Dead == Word(0, 0, 0)

\* Register file p once frame d no longer counts on its units from k on.
Discard(p, d, k) ==
  [w \in Unit |-> IF p[w].frame = d /\ p[w].unit >= k THEN Dead ELSE p[w]]

Idle == [op |-> "none", u |-> 0]

WindowInit ==
  /\ windowbase = 0 /\ windowstart = {0}
  /\ phys = [u \in Unit |-> IF u = 0 THEN Word(1, 0, 0) ELSE Dead]
  /\ excm = FALSE /\ owb = 0 /\ callinc = 0
  /\ insn = Idle /\ handler = "none" /\ illegal = FALSE
  /\ save = [d \in 1..MaxDepth |-> <<>>]
  /\ frames = <<[inc |-> 0, owned |-> 0, at |-> 0]>>

-----------------------------------------------------------------------------
(* cpu.rs                                                                  *)

\* Distance from unit b up to the next start of a frame, b's own included
\* once round (trailing_zeros of the replicated WINDOWSTART, plus one).
NextStart(b) ==
  CHOOSE k \in 1..N : Up(b, k) \in windowstart
                      /\ \A j \in 1 .. k - 1 : Up(b, j) \notin windowstart

\* Free units above the current frame's first, at most 3.
Window == IF NextStart(windowbase) > 3 THEN 3 ELSE NextStart(windowbase) - 1

\* Rotate to the oldest frame in the way and raise the overflow exception
\* for its size, which is the distance to the frame it called.
WindowOverflow ==
  LET n == NextStart(windowbase)
      w == Up(windowbase, n)
      s == NextStart(w)
  IN  /\ windowbase' = w
      /\ owb' = windowbase
      /\ excm' = TRUE
      /\ handler' = IF s > 2 THEN "of12" ELSE IF s = 2 THEN "of8" ELSE "of4"
      /\ UNCHANGED <<windowstart, phys, callinc, insn, illegal, save, frames>>

\* Rotate back to the caller's place and raise the underflow exception for
\* the number of units RETW names.
WindowUnderflow(n) ==
  /\ windowbase' = Down(windowbase, n)
  /\ owb' = windowbase
  /\ excm' = TRUE
  /\ handler' = IF n > 2 THEN "uf12" ELSE IF n = 2 THEN "uf8" ELSE "uf4"
  /\ UNCHANGED <<windowstart, phys, callinc, insn, illegal, save, frames>>

-----------------------------------------------------------------------------
(* The program: pick the next instruction of the current frame.            *)

Executing == handler = "none" /\ ~illegal

Fetch ==
  /\ Executing /\ insn = Idle
  /\ insn' \in [op : {"use"}, u : Reach]
               \cup (IF Nesting < MaxDepth THEN [op : {"call"}, u : Inc] ELSE {})
               \cup [op : {"retw"}, u : {0}]
  /\ UNCHANGED <<cpuVars, handler, illegal, save, frames>>

\* Mutant: one unit late.
BlockedLate(u) == ~excm /\ u > Window + 1

\* step_one: an instruction naming a register of unit u, or an ENTRY into
\* unit CALLINC, finds a frame in the way.
Blocked(u) == ~excm /\ u > Window

Overflow ==
  /\ Executing /\ insn.op \in {"use", "call", "entry"}
  /\ Blocked(insn.u)
  /\ WindowOverflow

\* Any instruction that writes the frame's registers up to unit u.
UseRegisters ==
  /\ Executing /\ insn.op = "use" /\ ~Blocked(insn.u)
  /\ phys' = [w \in Unit |->
                LET k == Down(w, windowbase)
                IN  IF k \in 1 .. insn.u THEN Word(Nesting, k, 0) ELSE phys[w]]
  /\ frames' = [frames EXCEPT ![Nesting].owned = IF insn.u > @ THEN insn.u ELSE @]
  /\ insn' = Idle
  /\ UNCHANGED <<windowbase, windowstart, excm, owb, callinc, handler, illegal, save>>

\* CALLn and CALLXn: the return address, with n in its top bits, goes into
\* the register that becomes the callee's a0.
CallN ==
  /\ Executing /\ insn.op = "call" /\ ~Blocked(insn.u)
  /\ phys' = [Discard(phys, Nesting, insn.u)
              EXCEPT ![Up(windowbase, insn.u)] = Word(Nesting + 1, 0, insn.u)]
  /\ callinc' = insn.u
  /\ frames' = Append([frames EXCEPT ![Nesting].owned = IF @ < insn.u THEN @ ELSE insn.u - 1],
                      [inc |-> insn.u, owned |-> 0, at |-> frames[Nesting].at + insn.u])
  /\ insn' = [op |-> "entry", u |-> insn.u]
  /\ UNCHANGED <<windowbase, windowstart, excm, owb, handler, illegal, save>>

\* ENTRY, the first instruction of the callee (its new stack pointer goes
\* into the callee's unit 0, beside the return address).
Entry ==
  /\ Executing /\ insn.op = "entry" /\ ~Blocked(callinc)
  /\ windowbase' = Up(windowbase, callinc)
  /\ windowstart' = windowstart \cup {Up(windowbase, callinc)}
  /\ insn' = Idle
  /\ UNCHANGED <<phys, excm, owb, callinc, handler, illegal, save, frames>>

\* RETW: n from a0, m the nearest frame start within three units below.
RetCount == phys[windowbase].count

NearestBelow ==
  IF \E k \in 1..3 : Down(windowbase, k) \in windowstart
  THEN CHOOSE k \in 1..3 : Down(windowbase, k) \in windowstart
                           /\ \A j \in 1 .. k - 1 : Down(windowbase, j) \notin windowstart
  ELSE 0

\* Mutant: a zero count is let through.
RetwLegalZero ==
  NearestBelow = 0 \/ NearestBelow = RetCount \/ RetCount = 0

RetwLegal ==
  RetCount # 0 /\ (NearestBelow = 0 \/ NearestBelow = RetCount)

RetwIllegal ==
  /\ Executing /\ insn.op = "retw" /\ ~RetwLegal
  /\ illegal' = TRUE
  /\ excm' = TRUE
  /\ UNCHANGED <<windowbase, windowstart, phys, owb, callinc, insn, handler, save, frames>>

RetwUnderflow ==
  /\ Executing /\ insn.op = "retw" /\ RetwLegal
  /\ Down(windowbase, RetCount) \notin windowstart
  /\ WindowUnderflow(RetCount)

Retw ==
  /\ Executing /\ insn.op = "retw" /\ RetwLegal
  /\ Down(windowbase, RetCount) \in windowstart
  /\ windowstart' = windowstart \ {windowbase}
  /\ windowbase' = Down(windowbase, RetCount)
  /\ frames' = SubSeq(frames, 1, Nesting - 1)
  /\ insn' = Idle
  /\ phys' = Discard(phys, Nesting, 0)
  /\ UNCHANGED <<excm, owb, callinc, handler, illegal, save>>

-----------------------------------------------------------------------------
(* Window handlers                                                         *)

\* The common part of RFWO and RFWU: back to the interrupted frame.
ReturnFromWindow ==
  /\ excm' = FALSE
  /\ windowbase' = owb
  /\ handler' = "none"
  /\ UNCHANGED <<owb, callinc, insn, illegal, frames>>

Size(h) == CASE h \in {"of4", "uf4"} -> 1 [] h \in {"of8", "uf8"} -> 2 [] OTHER -> 3

\* External: the handler stores the rotated-to frame's units in the save area
\* found from the stack pointer of the frame it called.
Spill ==
  LET k == Size(handler)
      callee == phys[Up(windowbase, k)].frame
  IN  save' = [save EXCEPT ![callee - 1] = [j \in 1..k |-> phys[Up(windowbase, j - 1)]]]

\* Mutant: the spilled frame stays marked.
RfwoKeepsBit ==
  /\ handler \in {"of4", "of8", "of12"}
  /\ Spill
  /\ ReturnFromWindow
  /\ UNCHANGED <<windowstart, phys>>

Rfwo ==
  /\ handler \in {"of4", "of8", "of12"}
  /\ Spill
  /\ windowstart' = windowstart \ {windowbase}
  /\ ReturnFromWindow
  /\ UNCHANGED phys

\* External: the handler loads the caller's units from the save area found
\* from the stack pointer of the frame that is returning.  The area is then
\* free for the firmware to reuse.
Fill ==
  LET k == Size(handler)
      caller == phys[owb].frame - 1
  IN  /\ phys' = [w \in Unit |-> LET j == Down(w, windowbase) + 1
                                 IN IF j \in 1 .. k /\ j <= Len(save[caller])
                                    THEN save[caller][j] ELSE phys[w]]
      /\ save' = [save EXCEPT ![caller] = <<>>]

Rfwu ==
  /\ handler \in {"uf4", "uf8", "uf12"}
  /\ Fill
  /\ windowstart' = windowstart \cup {windowbase}
  /\ ReturnFromWindow

\* External: after an illegal instruction the panic handler parks the core.
Panic == illegal /\ UNCHANGED windowVars

-----------------------------------------------------------------------------

WindowStep == Overflow \/ UseRegisters \/ CallN \/ Entry \/ RetwIllegal \/ RetwUnderflow
          \/ Retw \/ Rfwo \/ Rfwu

WindowNext == Fetch \/ WindowStep \/ Panic

WindowSpec == WindowInit /\ [][WindowNext]_windowVars

-----------------------------------------------------------------------------
(* Properties                                                              *)

\* WINDOW_BASE, OWB and CALLINC stay within their fields, and registers hold
\* words of frames that exist.
WindowTypeOK ==
  /\ windowbase \in Unit /\ owb \in Unit /\ windowstart \subseteq Unit
  /\ DOMAIN phys = Unit
  /\ \A u \in Unit : phys[u].frame \in 0 .. MaxDepth /\ phys[u].count \in 0..3
  /\ excm \in BOOLEAN /\ illegal \in BOOLEAN /\ callinc \in 0..3
  /\ Nesting \in 1 .. MaxDepth

\* The unit where the innermost frame starts.
Base ==
  IF handler # "none" THEN IF insn.op = "entry" THEN Up(owb, callinc) ELSE owb
  ELSE IF insn.op = "entry" THEN Up(windowbase, callinc) ELSE windowbase

\* Units between frame d's start and the innermost frame's, and d's start.
DistanceOf(d) == frames[Nesting].at - frames[d].at

Place(d) == (Base - DistanceOf(d)) % N

Entered(d) == d < Nesting \/ insn.op # "entry"

Resident(d) == Entered(d) /\ DistanceOf(d) < N /\ Place(d) \in windowstart

\* WINDOWSTART marks exactly the resident frames, which are the innermost
\* ones: only the oldest frames are ever out in memory.
ResidentChain ==
  /\ windowstart = {Place(d) : d \in {e \in 1 .. Nesting : Resident(e)}}
  /\ \A d \in 1 .. Nesting - 1 : Resident(d) => Resident(d + 1) \/ ~Entered(d + 1)

\* Unit u of frame d as the program will find it.
Held(d, u) ==
  IF Resident(d) \/ ~Entered(d) THEN phys[Up(Place(d), u)]
  ELSE IF u < Len(save[d]) THEN save[d][u + 1] ELSE Dead

\* Whatever its callees did, each frame's registers are intact: in the
\* register file while it is resident, in its save area otherwise.
FramesIntact ==
  \A d \in 1 .. Nesting : Held(d, 0) = Word(d, 0, frames[d].inc)
                        /\ \A u \in 1 .. frames[d].owned : Held(d, u) = Word(d, u, 0)

\* An overflow spills the oldest resident frame, whole: the vector chosen
\* from WINDOWSTART is the one for the increment that frame called with.
SpillsOldest ==
  handler \in {"of4", "of8", "of12"} =>
    \E d \in 1 .. Nesting - 1 :
      /\ Resident(d) /\ (d > 1 => ~Resident(d - 1))
      /\ windowbase = Place(d)
      /\ Size(handler) = frames[d + 1].inc

\* RETW raises ILLEGAL_INSTRUCTION only in a frame nobody called.
IllegalOnlyOutermost == illegal => Nesting = 1

\* Frame d read back from the registers: the increment its a0 returns by and
\* the units above that are still its own.
HeldFrame(d) ==
  [inc |-> Held(d, 0).count,
   owned |-> CHOOSE u \in 0..3 : /\ \A v \in 1..u : Held(d, v) = Word(d, v, 0)
                                 /\ u < 3 => Held(d, u + 1) # Word(d, u + 1, 0)]

HeldFrames == [d \in 1 .. Nesting |-> HeldFrame(d)]

Stack == INSTANCE CallStack WITH frames <- HeldFrames

\* The register file with its spill and fill handlers is a call stack: what
\* the frames hold, wherever it is, changes only by their own instructions.
RefinesCallStack == Stack!Spec

\* An instruction that keeps overflowing or underflowing completes in the end.
InsnCompletes == (insn # Idle) ~> (insn = Idle \/ illegal)

\* The safety of the windows: no program of calls and returns loses a
\* register of any of its frames, spills the wrong frame or is told that its
\* return is illegal.
WindowSound ==
  /\ WindowTypeOK /\ ResidentChain /\ FramesIntact
  /\ SpillsOldest /\ IllegalOnlyOutermost
=============================================================================
