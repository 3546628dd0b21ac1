----------------------------- MODULE LossyFifo -----------------------------
(***************************************************************************)
(* What the UART transport of the web front end promises its two ends: a   *)
(* first-in first-out queue of at most Capacity bytes that never blocks    *)
(* the producer.  A byte offered while the queue is full is dropped and    *)
(* counted; a byte once accepted is delivered, once and in order.          *)
(***************************************************************************)
EXTENDS Naturals, Sequences

CONSTANTS
  Byte,      \* the values a byte can take
  Capacity,  \* how many bytes the queue holds
  CountMod   \* the drop counter wraps at this value

VARIABLES
  queue,     \* accepted and not yet delivered, oldest first
  received,  \* the bytes the last delivery handed out
  drops      \* bytes dropped so far, modulo CountMod

vars == <<queue, received, drops>>

Init ==
  /\ queue = <<>>
  /\ received = <<>>
  /\ drops = 0

Accept ==
  /\ Len(queue) < Capacity
  /\ \E b \in Byte : queue' = Append(queue, b)
  /\ UNCHANGED <<received, drops>>

Drop ==
  /\ Len(queue) = Capacity
  /\ drops' = (drops + 1) % CountMod
  /\ UNCHANGED <<queue, received>>

Deliver ==
  \E n \in 0..Len(queue) :
    /\ received' = SubSeq(queue, 1, n)
    /\ queue' = SubSeq(queue, n + 1, Len(queue))
    /\ UNCHANGED drops

Next == Accept \/ Drop \/ Deliver

Spec == Init /\ [][Next]_vars
=============================================================================
