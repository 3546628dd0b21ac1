-------------------------------- MODULE Twai --------------------------------
(***************************************************************************)
(* The TWAI controller (twai.rs) between firmware and a host-driven peer.  *)
(* One frame buffer serves both directions.  A frame has two fields that   *)
(* firmware writes one at a time; the acceptance registers are the set of  *)
(* identifiers they let through.  The status bits of the transmitter,      *)
(* which is always free, and its interrupt are left out.                   *)
(***************************************************************************)
EXTENDS Integers

CONSTANTS
  Id, Data,     \* the values of the two fields of a frame
  Acceptance,   \* the sets of identifiers firmware programs
  NoFrame

ASSUME TwaiAssumption == 0 \in Id /\ 0 \in Data /\ {0} \in Acceptance

VARIABLES
  twMode,   \* MODE: [rm, stm]
  accept,   \* the identifiers ACR and AMR let through
  slot,     \* [buf, full, dos, ir]: the shared buffer, rx_full, the overrun
            \* bit of STATUS, the receive and overrun bits of IR
  twClk,    \* the SYSTEM clock of the controller is on
  seen      \* history: [composed, received, accepted, lost, riAck]
            \* the fields written for the frame to send; the received frame
            \* waiting, or NoFrame; the frames taken since the last release,
            \* up to 2; one of them replaced another; firmware cleared RI
            \* through IR since it was raised

twaiVars == <<twMode, accept, slot, twClk, seen>>

Frame == [id : Id, data : Data]
Nothing == [f \in {} |-> 0]

TwaiInit ==
  /\ twMode = [rm |-> TRUE, stm |-> FALSE] /\ accept = {0} /\ twClk = TRUE
  /\ slot = [buf |-> [id |-> 0, data |-> 0], full |-> FALSE, dos |-> FALSE, ir |-> {}]
  /\ seen = [composed |-> Nothing, received |-> NoFrame, accepted |-> 0,
             lost |-> FALSE, riAck |-> FALSE]

-----------------------------------------------------------------------------

\* Mutant: an occupied slot keeps its old frame.
ReceiveKeepsOld(s, frame) ==
  IF frame.id \notin accept THEN s
  ELSE [buf |-> IF s.full THEN s.buf ELSE frame, full |-> TRUE, dos |-> s.dos \/ s.full,
        ir |-> s.ir \union {"RI"} \union (IF s.full THEN {"DOI"} ELSE {})]

\* receive: a frame that passes the filter takes the slot, occupied or not.
Receive(s, frame) ==
  IF frame.id \notin accept THEN s
  ELSE [buf |-> frame, full |-> TRUE, dos |-> s.dos \/ s.full,
        ir |-> s.ir \union {"RI"} \union (IF s.full THEN {"DOI"} ELSE {})]

\* RRB.
Release(s) == [s EXCEPT !.full = FALSE, !.ir = @ \ {"RI"}]

SeenReceive(h, frame) ==
  IF frame.id \notin accept THEN h
  ELSE [composed |-> Nothing, received |-> frame,
        accepted |-> IF h.accepted = 0 THEN 1 ELSE 2,
        lost |-> h.lost \/ h.accepted > 0, riAck |-> FALSE]

SeenRelease(h) == [h EXCEPT !.received = NoFrame, !.accepted = 0]

-----------------------------------------------------------------------------

\* A frame of the host-driven peer.
TwaiInjectRx ==
  /\ ~twMode.rm
  /\ \E frame \in Frame :
       slot' = Receive(slot, frame) /\ seen' = SeenReceive(seen, frame)
  /\ UNCHANGED <<twMode, accept, twClk>>

\* do_command: RRB, then CDO, then TR or SRR, whichever bits are set; the SoC
\* masks the last two while the clock is gated.  Without self reception the
\* frame leaves the controller.
Command ==
  /\ ~twMode.rm
  /\ \E rrb, cdo, tr, srr \in BOOLEAN :
       LET s1   == IF rrb THEN Release(slot) ELSE slot
           h1   == IF rrb THEN SeenRelease(seen) ELSE seen
           s2   == IF cdo THEN [s1 EXCEPT !.dos = FALSE] ELSE s1
           h2   == IF cdo THEN [h1 EXCEPT !.lost = FALSE] ELSE h1
           send == twClk /\ (tr \/ srr)
           self == send /\ (twMode.stm \/ srr)
           h3   == IF send THEN [h2 EXCEPT !.composed = Nothing] ELSE h2
       IN  /\ slot' = IF self THEN Receive(s2, s2.buf) ELSE s2
           /\ seen' = IF self THEN SeenReceive(h3, s2.buf) ELSE h3
  /\ UNCHANGED <<twMode, accept, twClk>>

\* A buffer register in operational mode: it is written whether or not a
\* received frame still waits there.
WriteBuf ==
  /\ ~twMode.rm
  /\ \E f \in {"id", "data"} :
       /\ \E v \in IF f = "id" THEN Id ELSE Data : slot' = [slot EXCEPT !.buf[f] = v]
       /\ seen' = [seen EXCEPT !.received = NoFrame,
                     !.composed = [g \in DOMAIN @ \union {f} |->
                                     IF g = f THEN slot'.buf[f] ELSE @[g]]]
  /\ UNCHANGED <<twMode, accept, twClk>>

\* The same registers in reset mode.
WriteAcceptance ==
  /\ twMode.rm
  /\ accept' \in Acceptance
  /\ UNCHANGED <<twMode, slot, twClk, seen>>

\* Entering reset mode keeps the received frame.
WriteMode ==
  /\ twMode' \in [rm : BOOLEAN, stm : BOOLEAN]
  /\ UNCHANGED <<accept, slot, twClk, seen>>

\* A read of IR clears all but RI, a write what it names.
ClearIr ==
  /\ \/ slot' = [slot EXCEPT !.ir = @ \cap {"RI"}]
     \/ \E c \in SUBSET {"RI", "DOI"} : slot' = [slot EXCEPT !.ir = @ \ c]
  /\ seen' = [seen EXCEPT !.riAck = @ \/ "RI" \in slot.ir \ slot'.ir]
  /\ UNCHANGED <<twMode, accept, twClk>>

TwaiClockGate ==
  /\ twClk' = ~twClk
  /\ UNCHANGED <<twMode, accept, slot, seen>>

TwaiNext ==
  \/ TwaiInjectRx \/ Command \/ WriteBuf \/ WriteAcceptance \/ WriteMode \/ ClearIr
  \/ TwaiClockGate

-----------------------------------------------------------------------------
(* Properties                                                              *)

\* The buffer holds a frame, the registers values of their fields.
TwaiTypeOK ==
  /\ twMode \in [rm : BOOLEAN, stm : BOOLEAN] /\ accept \in Acceptance /\ twClk \in BOOLEAN
  /\ slot \in [buf : Frame, full : BOOLEAN, dos : BOOLEAN, ir : SUBSET {"RI", "DOI"}]
  /\ seen.received \in Frame \union {NoFrame} /\ seen.accepted \in 0 .. 2

\* The frame a transmission will send has the fields firmware composed, unless
\* a frame passed the filter since; one that is rejected disturbs nothing.
ComposeKept == \A f \in DOMAIN seen.composed : slot.buf[f] = seen.composed[f]

\* The last received frame stays in the buffer until it is released or
\* firmware itself writes the shared buffer.
RxIntact == seen.received # NoFrame => slot.full /\ slot.buf = seen.received

\* A waiting frame shows on RI until firmware clears it there, and RI is down
\* once the slot is released, also when reset mode comes in between.
RxAnnounced == IF slot.full THEN "RI" \in slot.ir \/ seen.riAck ELSE "RI" \notin slot.ir

\* The overrun bit is set exactly when a frame was replaced unreleased,
\* whether the peer or a self reception replaced it.
OverrunShown == slot.dos = seen.lost

\* The safety of the one buffer that serves both directions: frames received
\* and frames being composed keep their contents, and what was lost is shown.
TwaiSound == TwaiTypeOK /\ ComposeKept /\ RxIntact /\ RxAnnounced /\ OverrunShown
=============================================================================
