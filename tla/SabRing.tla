------------------------------ MODULE SabRing ------------------------------
(***************************************************************************)
(* The shared-memory UART ring between the emulation worker (writer) and   *)
(* the UI thread (reader), web/sab-rings.js.  The two run on different     *)
(* threads and share the control words UHEAD, UTAIL and DROPPED and the    *)
(* byte array uart; every Atomics access is one step.  The writer keeps    *)
(* its own copy of the head until the whole chunk is stored.               *)
(***************************************************************************)
EXTENDS Naturals, Sequences

CONSTANTS
  Byte,      \* the values a byte can take
  Zero,      \* the byte a fresh SharedArrayBuffer is filled with
  RING,      \* UART_RING: the number of slots
  MaxRead,   \* maxBytes of one ringReadUart call
  MaxChunk,  \* bound: the longest chunk one worker frame writes
  CountMod   \* 2^32: DROPPED is an element of a Uint32Array

ASSUME ByteAssumption == Zero \in Byte
ASSUME RingAssumption == RING \in Nat /\ RING > 1
ASSUME BoundAssumption == MaxRead \in Nat \ {0} /\ MaxChunk \in Nat \ {0}
ASSUME CountAssumption == CountMod \in Nat \ {0}

VARIABLES
  uart, UHEAD, UTAIL, DROPPED,  \* the shared buffer
  wpc, bytes, head, dropped,    \* ringWriteUart: control point and locals
  rpc, n, out,                  \* ringReadUart: control point and locals
  polling,                      \* workerRunning: the UI's poll reads the ring
  received                      \* what the last ringReadUart returned

writerVars == <<wpc, bytes, head, dropped>>
readerVars == <<rpc, n, out, received>>
vars == <<uart, UHEAD, UTAIL, DROPPED, writerVars, readerVars, polling>>

Slot == 0 .. RING - 1

Chunks == UNION {[1..k -> Byte] : k \in 1..MaxChunk}

Init ==
  /\ uart = [s \in Slot |-> Zero]
  /\ UHEAD = 0 /\ UTAIL = 0 /\ DROPPED = 0
  /\ wpc = "idle" /\ bytes = <<>> /\ head = 0 /\ dropped = 0
  /\ rpc = "idle" /\ n = 0 /\ out = <<>> /\ received = <<>>
  /\ polling = FALSE

-----------------------------------------------------------------------------
(* ringWriteUart, on the emulation worker                                  *)

WriteBegin ==
  /\ wpc = "idle"
  /\ bytes' \in Chunks
  /\ head' = UHEAD
  /\ dropped' = 0
  /\ wpc' = "loop"
  /\ UNCHANGED <<uart, UHEAD, UTAIL, DROPPED, readerVars>>

SlotAfter(h) == (h + 1) % RING

\* One turn of the loop whose byte finds the ring full.
WriteDrop ==
  /\ wpc = "loop" /\ bytes # <<>>
  /\ SlotAfter(head) = UTAIL
  /\ dropped' = dropped + 1
  /\ bytes' = Tail(bytes)
  /\ UNCHANGED <<uart, UHEAD, UTAIL, DROPPED, wpc, head, readerVars>>

\* Mutant: the full check is dropped.
WriteStoreUnchecked ==
  /\ wpc = "loop" /\ bytes # <<>>
  /\ uart' = [uart EXCEPT ![head] = Head(bytes)]
  /\ head' = SlotAfter(head)
  /\ bytes' = Tail(bytes)
  /\ UNCHANGED <<UHEAD, UTAIL, DROPPED, wpc, dropped, readerVars>>

\* One turn of the loop whose byte is stored.
WriteStore ==
  /\ wpc = "loop" /\ bytes # <<>>
  /\ SlotAfter(head) # UTAIL
  /\ uart' = [uart EXCEPT ![head] = Head(bytes)]
  /\ head' = SlotAfter(head)
  /\ bytes' = Tail(bytes)
  /\ UNCHANGED <<UHEAD, UTAIL, DROPPED, wpc, dropped, readerVars>>

WritePublish ==
  /\ wpc = "loop" /\ bytes = <<>>
  /\ UHEAD' = head
  /\ wpc' = IF dropped > 0 THEN "count" ELSE "idle"
  /\ UNCHANGED <<uart, UTAIL, DROPPED, bytes, head, dropped, readerVars>>

\* Mutant: the count is stored, not added.
WriteCountOverwrite ==
  /\ wpc = "count"
  /\ DROPPED' = dropped % CountMod
  /\ dropped' = 0
  /\ wpc' = "idle"
  /\ UNCHANGED <<uart, UHEAD, UTAIL, bytes, head, readerVars>>

WriteCount ==
  /\ wpc = "count"
  /\ DROPPED' = (DROPPED + dropped) % CountMod
  /\ dropped' = 0
  /\ wpc' = "idle"
  /\ UNCHANGED <<uart, UHEAD, UTAIL, bytes, head, readerVars>>

-----------------------------------------------------------------------------
(* ringReadUart, on the UI thread.  Only this side moves UTAIL.            *)

Distance(from, to) == (to + RING - from) % RING

Least(a, b) == IF a < b THEN a ELSE b

ReadBegin ==
  /\ rpc = "idle" /\ polling
  /\ n' = Least(Distance(UTAIL, UHEAD), MaxRead)
  /\ out' = <<>>
  /\ rpc' = "copy"
  /\ UNCHANGED <<uart, UHEAD, UTAIL, DROPPED, writerVars, received>>

ReadCopy ==
  /\ rpc = "copy" /\ Len(out) < n
  /\ out' = Append(out, uart[(UTAIL + Len(out)) % RING])
  /\ UNCHANGED <<uart, UHEAD, UTAIL, DROPPED, writerVars, rpc, n, received>>

\* Mutant: the tail is not moved.
ReadEndNoRelease ==
  /\ rpc = "copy" /\ Len(out) = n
  /\ received' = out
  /\ rpc' = "idle"
  /\ UNCHANGED <<uart, UHEAD, UTAIL, DROPPED, writerVars, n, out>>

ReadEnd ==
  /\ rpc = "copy" /\ Len(out) = n
  /\ UTAIL' = (UTAIL + n) % RING
  /\ received' = out
  /\ rpc' = "idle"
  /\ UNCHANGED <<uart, UHEAD, DROPPED, writerVars, n, out>>

\* Run, stop and the worker's answers turn the poll's reads on and off, between
\* animation frames.  The worker may still be in a frame.
Poll ==
  /\ rpc = "idle"
  /\ polling' = ~polling
  /\ UNCHANGED <<uart, UHEAD, UTAIL, DROPPED, writerVars, readerVars>>

-----------------------------------------------------------------------------

Write == (WriteDrop \/ WriteStore \/ WritePublish \/ WriteCount) /\ UNCHANGED polling
Read == (ReadBegin \/ ReadCopy \/ ReadEnd) /\ UNCHANGED polling

Next == (WriteBegin /\ UNCHANGED polling) \/ Write \/ Read \/ Poll

\* A call once entered runs to its end, and while the poll is on the UI reads
\* on every animation frame (main.js startSabPoll); nothing forces the
\* firmware to print or the user to click.
Fairness == WF_vars(Write) /\ WF_vars(Read)

Spec == Init /\ [][Next]_vars

FairSpec == Spec /\ Fairness

-----------------------------------------------------------------------------
(* Properties                                                              *)

\* Heads and tails are slots, DROPPED is a 32-bit word, and a read never takes
\* more than the ring can hold.
TypeOK ==
  /\ uart \in [Slot -> Byte]
  /\ UHEAD \in Slot /\ UTAIL \in Slot /\ head \in Slot
  /\ DROPPED \in 0 .. CountMod - 1
  /\ wpc \in {"idle", "loop", "count"}
  /\ bytes \in Seq(Byte) /\ dropped \in Nat
  /\ rpc \in {"idle", "copy"}
  /\ n \in 0 .. RING - 1 /\ out \in Seq(Byte) /\ received \in Seq(Byte)
  /\ polling \in BOOLEAN

\* What the reader has copied is still what the ring holds in those slots:
\* the writer, which may run between any two of the reader's loads, never
\* overwrites a slot before the reader's store to UTAIL releases it.
CopyIntact ==
  rpc = "copy" =>
    \A i \in 1 .. Len(out) : out[i] = uart[(UTAIL + i - 1) % RING]

\* The reader only ever takes published bytes: its n never exceeds what
\* lies between the tail and the head, even while both ends are moving.
ReadsPublished ==
  rpc = "copy" => n <= Distance(UTAIL, UHEAD)

\* The writer's unpublished head runs ahead of UHEAD and never laps UTAIL.
HeadAhead ==
  Distance(UTAIL, UHEAD) <= Distance(UTAIL, head)

\* The unread bytes, the writer's unpublished ones included, oldest first.
Unread ==
  [i \in 1 .. Distance(UTAIL, head) |-> uart[(UTAIL + i - 1) % RING]]

Fifo == INSTANCE LossyFifo WITH
  Capacity <- RING - 1,
  queue <- Unread,
  drops <- (DROPPED + dropped) % CountMod

\* The ring is a bounded lossy FIFO: bytes are delivered in the order in
\* which ringWriteUart stored them, none is lost or delivered twice after it
\* was stored, and only a byte that meets a full ring is dropped and counted.
RefinesFifo == Fifo!Spec

Full == Distance(UTAIL, head) = RING - 1

\* Polling empties a full ring: the console does not stay wedged while the UI
\* takes the machine for running.
FullDrains == (Full /\ polling) ~> (~Full \/ ~polling)

\* The safety of the ring: reader and writer, each stopped at any point of its
\* loop, never touch a slot that is the other's.
RingSound == TypeOK /\ CopyIntact /\ ReadsPublished /\ HeadAhead
=============================================================================
