--------------------------- MODULE UsbSerialJtag ---------------------------
(***************************************************************************)
(* The USB-Serial-JTAG console (usb_serial_jtag.rs).  Bytes are counted:   *)
(* usjHold is the endpoint FIFO kept while the clock is gated, usjRx the   *)
(* queue from the host, which the code leaves unbounded.                   *)
(***************************************************************************)
EXTENDS Integers

CONSTANTS
  HoldDepth,  \* bytes the endpoint FIFO keeps while the clock is gated
  MaxUsjRx,   \* bound: the host stops after this many unread bytes
  Poll        \* ticks between two re-assertions (reassert_countdown)

ASSUME UsjAssumption == {HoldDepth, MaxUsjRx, Poll} \subseteq Nat \ {0}

VARIABLES
  usjClk,            \* sys_clk, the SoC's EN1 bit 10
  usjHold, usjRx,
  usjRaw, usjEna,    \* INT_RAW and INT_ENA, subsets of UsjInt
  needReassert, countdown,
  usjQuiet,          \* firmware leaves the device, its clock on, alone from now on
  usjAck             \* history: firmware cleared RECV_PKT since it was raised

usjVars == <<usjClk, usjHold, usjRx, usjRaw, usjEna, needReassert, countdown, usjQuiet, usjAck>>

UsjInt == {"RECV_PKT", "IN_EMPTY"}

UsjInit ==
  /\ usjClk = TRUE /\ usjHold = 0 /\ usjRx = 0
  /\ usjRaw = {} /\ usjEna = {}
  /\ needReassert = FALSE /\ countdown = 0
  /\ usjQuiet = FALSE /\ usjAck = FALSE

-----------------------------------------------------------------------------

UsjInject ==
  /\ usjRx < MaxUsjRx
  /\ usjRx' = usjRx + 1
  /\ usjRaw' = usjRaw \union {"RECV_PKT"}
  /\ usjAck' = FALSE
  /\ UNCHANGED <<usjClk, usjHold, usjEna, needReassert, countdown, usjQuiet>>

\* Mutant: every read drops the line.
ReadEp1Drops ==
  /\ ~usjQuiet /\ usjRx > 0
  /\ usjRx' = usjRx - 1
  /\ usjRaw' = usjRaw \ {"RECV_PKT"}
  /\ UNCHANGED <<usjClk, usjHold, usjEna, needReassert, countdown, usjQuiet, usjAck>>

ReadEp1 ==
  /\ ~usjQuiet /\ usjRx > 0
  /\ usjRx' = usjRx - 1
  /\ usjRaw' = IF usjRx = 1 THEN usjRaw \ {"RECV_PKT"} ELSE usjRaw
  /\ UNCHANGED <<usjClk, usjHold, usjEna, needReassert, countdown, usjQuiet, usjAck>>

\* With the clock running a byte goes straight to the host.
WriteEp1 ==
  /\ ~usjQuiet /\ ~usjClk /\ usjHold < HoldDepth
  /\ usjHold' = usjHold + 1
  /\ UNCHANGED <<usjClk, usjRx, usjRaw, usjEna, needReassert, countdown, usjQuiet, usjAck>>

WrDone ==
  /\ ~usjQuiet
  /\ usjRaw' = usjRaw \union {"IN_EMPTY"}
  /\ UNCHANGED <<usjClk, usjHold, usjRx, usjEna, needReassert, countdown, usjQuiet, usjAck>>

UsjIntClr ==
  /\ ~usjQuiet
  /\ \E c \in SUBSET UsjInt :
       /\ usjRaw' = usjRaw \ c
       /\ needReassert' = (needReassert \/ "IN_EMPTY" \in c \cap usjRaw)
       /\ usjAck' = (usjAck \/ "RECV_PKT" \in c \cap usjRaw)
  /\ UNCHANGED <<usjClk, usjHold, usjRx, usjEna, countdown, usjQuiet>>

UsjIntEna ==
  /\ ~usjQuiet
  /\ usjEna' \in SUBSET UsjInt
  /\ UNCHANGED <<usjClk, usjHold, usjRx, usjRaw, needReassert, countdown, usjQuiet, usjAck>>

SetSysClk ==
  /\ ~usjQuiet
  /\ usjClk' = ~usjClk
  /\ UNCHANGED <<usjHold, usjRx, usjRaw, usjEna, needReassert, countdown, usjQuiet, usjAck>>

UsjLeave ==
  /\ ~usjQuiet /\ usjClk /\ usjQuiet' = TRUE
  /\ UNCHANGED <<usjClk, usjHold, usjRx, usjRaw, usjEna, needReassert, countdown, usjAck>>

\* Mutant: the re-assertion is forgotten while the countdown runs.
ReassertForgets ==
  IF ~needReassert THEN UNCHANGED <<needReassert, countdown, usjRaw>>
  ELSE /\ needReassert' = FALSE
       /\ IF countdown > 0 THEN countdown' = countdown - 1 /\ UNCHANGED usjRaw
          ELSE /\ usjRaw' = IF "IN_EMPTY" \in usjEna THEN usjRaw \union {"IN_EMPTY"} ELSE usjRaw
               /\ countdown' = IF "IN_EMPTY" \in usjEna THEN Poll ELSE countdown

\* A cleared IN_EMPTY comes back after the countdown if it is enabled then;
\* if it is not, the re-assertion is dropped.
Reassert ==
  IF ~needReassert THEN UNCHANGED <<needReassert, countdown, usjRaw>>
  ELSE IF countdown > 0
  THEN countdown' = countdown - 1 /\ UNCHANGED <<needReassert, usjRaw>>
  ELSE /\ needReassert' = FALSE
       /\ IF "IN_EMPTY" \in usjEna
          THEN usjRaw' = usjRaw \union {"IN_EMPTY"} /\ countdown' = Poll
          ELSE UNCHANGED <<usjRaw, countdown>>

\* The SoC ticks the device only while its clock runs.
UsjTick ==
  /\ usjClk
  /\ usjHold' = 0
  /\ Reassert
  /\ UNCHANGED <<usjClk, usjRx, usjEna, usjQuiet, usjAck>>

UsjNext ==
  \/ UsjInject \/ ReadEp1 \/ WriteEp1 \/ WrDone \/ UsjIntClr \/ UsjIntEna
  \/ SetSysClk \/ UsjLeave \/ UsjTick

-----------------------------------------------------------------------------
(* Properties                                                              *)

\* The queues stay within their depth, the registers within their fields.
UsjTypeOK ==
  /\ {usjClk, needReassert, usjQuiet, usjAck} \subseteq BOOLEAN
  /\ usjHold \in 0 .. HoldDepth /\ usjRx \in 0 .. MaxUsjRx
  /\ {usjRaw, usjEna} \subseteq SUBSET UsjInt
  /\ countdown \in 0 .. Poll

\* Unread host bytes show on RECV_PKT until firmware clears it, and the line
\* is down once the last one is read.
RecvSeen ==
  IF usjRx = 0 THEN "RECV_PKT" \notin usjRaw ELSE "RECV_PKT" \in usjRaw \/ usjAck

\* An enabled IN_EMPTY that the ISR cleared comes back, so the transmit task
\* goes on, whatever the countdown was left at by the one before.
PumpResumes ==
  (usjQuiet /\ needReassert /\ "IN_EMPTY" \in usjEna) ~> ("IN_EMPTY" \in usjRaw)

\* The queues stay within their bounds and RECV_PKT tells of unread bytes.
UsjSound == UsjTypeOK /\ RecvSeen
=============================================================================
