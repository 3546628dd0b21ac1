----------------------------- MODULE WebProofs -----------------------------
(***************************************************************************)
(* The web front end's two links, for every size: the shared ring is safe  *)
(* and is a lossy FIFO (SabRing), and the UI and the worker agree once     *)
(* their messages have arrived (UiWorker).                                 *)
(*                                                                         *)
(* The ring's invariants hold each other up: what the reader may copy lies *)
(* below the published head (ReadsPublished), which lies below the         *)
(* writer's private head (HeadAhead), so the slot the writer stores into   *)
(* is never one the reader is copying (CopyIntact).                        *)
(***************************************************************************)
EXTENDS SabRing, UiWorker, SequenceTheorems, TLAPS

\* The strengthening: a copy in progress has copied at most n bytes.
CopyBounded == rpc = "copy" => Len(out) <= n

RingIInv == TypeOK /\ CopyIntact /\ ReadsPublished /\ HeadAhead /\ CopyBounded

-----------------------------------------------------------------------------
(* Positions modulo RING                                                   *)

\* A position never reaches 2 * RING before it is reduced.
LEMMA ModRing ==
  ASSUME NEW x \in 0 .. 2 * RING - 1
  PROVE  x % RING = IF x < RING THEN x ELSE x - RING
BY RingAssumption

\* The slots from a up to b, without the modulus.
LEMMA DistanceValue ==
  ASSUME NEW a \in Slot, NEW b \in Slot
  PROVE  /\ Distance(a, b) = IF a <= b THEN b - a ELSE b + RING - a
         /\ Distance(a, b) \in Slot
<1>1. b + RING - a \in 0 .. 2 * RING - 1
  BY RingAssumption DEF Slot
<1> QED
  BY <1>1, ModRing, RingAssumption DEF Distance, Slot

\* The next slot, without the modulus.
LEMMA SlotAfterValue ==
  ASSUME NEW h \in Slot
  PROVE  /\ SlotAfter(h) = IF h = RING - 1 THEN 0 ELSE h + 1
         /\ SlotAfter(h) \in Slot
<1>1. h + 1 \in 0 .. 2 * RING - 1
  BY RingAssumption DEF Slot
<1> QED
  BY <1>1, ModRing, RingAssumption DEF SlotAfter, Slot

\* The slot k places after a, for k below RING.
LEMMA OffsetValue ==
  ASSUME NEW a \in Slot, NEW k \in 0 .. RING - 1
  PROVE  /\ (a + k) % RING = IF a + k < RING THEN a + k ELSE a + k - RING
         /\ (a + k) % RING \in Slot
<1>1. a + k \in 0 .. 2 * RING - 1
  BY RingAssumption DEF Slot
<1> QED
  BY <1>1, ModRing, RingAssumption DEF Slot

\* A head moved on by one is one slot further from a tail it does not meet.
LEMMA DistanceSucc ==
  ASSUME NEW a \in Slot, NEW h \in Slot, SlotAfter(h) # a
  PROVE  Distance(a, SlotAfter(h)) = Distance(a, h) + 1
<1>1. SlotAfter(h) \in Slot /\ SlotAfter(h) = IF h = RING - 1 THEN 0 ELSE h + 1
  BY SlotAfterValue, Zenon
<1>2. Distance(a, SlotAfter(h))
        = IF a <= SlotAfter(h) THEN SlotAfter(h) - a ELSE SlotAfter(h) + RING - a
  BY <1>1, DistanceValue, Zenon
<1>3. Distance(a, h) = IF a <= h THEN h - a ELSE h + RING - a
  BY DistanceValue, Zenon
<1> QED
  BY <1>1, <1>2, <1>3, RingAssumption DEF Slot

\* A slot short of h, seen from a, is not h.
LEMMA OffsetShort ==
  ASSUME NEW a \in Slot, NEW h \in Slot, NEW k \in Nat, k < Distance(a, h)
  PROVE  (a + k) % RING \in Slot /\ (a + k) % RING # h
<1>1. Distance(a, h) \in Slot /\ Distance(a, h) = IF a <= h THEN h - a ELSE h + RING - a
  BY DistanceValue, Zenon
<1>2. k \in 0 .. RING - 1
  BY <1>1, RingAssumption DEF Slot
<1>3. /\ (a + k) % RING = IF a + k < RING THEN a + k ELSE a + k - RING
      /\ (a + k) % RING \in Slot
  BY <1>2, OffsetValue, Zenon
<1> QED
  BY <1>1, <1>3, RingAssumption DEF Slot

\* Moving the tail k slots towards b leaves k slots fewer.
LEMMA DistanceAdvance ==
  ASSUME NEW a \in Slot, NEW b \in Slot, NEW k \in 0 .. RING - 1, k <= Distance(a, b)
  PROVE  Distance((a + k) % RING, b) = Distance(a, b) - k
<1>1. Distance(a, b) = IF a <= b THEN b - a ELSE b + RING - a
  BY DistanceValue, Zenon
<1>2. /\ (a + k) % RING = IF a + k < RING THEN a + k ELSE a + k - RING
      /\ (a + k) % RING \in Slot
  BY OffsetValue, Zenon
<1> DEFINE t == (a + k) % RING
<1>3. Distance(t, b) = IF t <= b THEN b - t ELSE b + RING - t
  BY <1>2, DistanceValue, Zenon
<1> QED
  BY <1>1, <1>2, <1>3, RingAssumption DEF Slot

\* A chunk is a sequence of bytes.
LEMMA ChunkType ==
  ASSUME NEW c \in Chunks
  PROVE  c \in Seq(Byte)
<1>1. PICK k \in 1 .. MaxChunk : c \in [1..k -> Byte]
  BY Zenon DEF Chunks
<1>2. k \in Nat
  BY BoundAssumption
<1> QED
  BY <1>1, <1>2

-----------------------------------------------------------------------------

\* The fresh buffer satisfies the invariant.
LEMMA RingInitIInv == Init => RingIInv
<1> SUFFICES ASSUME Init PROVE RingIInv
  BY Zenon
<1>1. 0 \in Slot
  BY RingAssumption DEF Slot
<1>2. TypeOK
  BY <1>1, RingAssumption, CountAssumption, ByteAssumption DEF Init, TypeOK, Slot
<1>3. CopyIntact /\ ReadsPublished /\ CopyBounded
  BY Zenon DEF Init, CopyIntact, ReadsPublished, CopyBounded
<1>4. HeadAhead
  BY <1>1, DistanceValue DEF Init, HeadAhead, Slot
<1> QED
  BY <1>2, <1>3, <1>4, Zenon DEF RingIInv

\* Every step of either thread preserves the invariant.
LEMMA RingNextIInv == RingIInv /\ [Next]_vars => RingIInv'
<1> SUFFICES ASSUME RingIInv, [Next]_vars PROVE RingIInv'
  BY Zenon
<1> USE DEF RingIInv
<1>t. TypeOK /\ UTAIL \in Slot /\ UHEAD \in Slot /\ head \in Slot /\ RING \in Nat
  BY RingAssumption, Zenon DEF TypeOK
<1>d. /\ Distance(UTAIL, UHEAD) \in 0 .. RING - 1
      /\ Distance(UTAIL, head) \in 0 .. RING - 1
  BY <1>t, DistanceValue, Zenon DEF Slot
<1>1. CASE WriteBegin /\ UNCHANGED polling
  <2>1. TypeOK'
    BY <1>1, ChunkType, Zenon DEF WriteBegin, TypeOK, readerVars
  <2>2. CopyIntact' /\ ReadsPublished' /\ CopyBounded'
    BY <1>1, Zenon DEF WriteBegin, readerVars, CopyIntact, ReadsPublished, CopyBounded, Distance
  <2>3. HeadAhead'
    BY <1>1, <1>d DEF WriteBegin, HeadAhead
  <2> QED BY <2>1, <2>2, <2>3, Zenon
<1>2. CASE WriteDrop /\ UNCHANGED polling
  <2>1. TypeOK'
    BY <1>2 DEF WriteDrop, TypeOK, readerVars
  <2> QED
    BY <1>2, <2>1, Zenon DEF WriteDrop, readerVars, CopyIntact, ReadsPublished, CopyBounded,
                      HeadAhead, Distance
<1>3. CASE WriteStore /\ UNCHANGED polling
  <2>1. head' \in Slot /\ Distance(UTAIL, head') = Distance(UTAIL, head) + 1
    BY <1>3, <1>t, SlotAfterValue, DistanceSucc, Zenon DEF WriteStore
  <2>2. Head(bytes) \in Byte /\ Tail(bytes) \in Seq(Byte)
    BY <1>3, <1>t DEF WriteStore, TypeOK
  <2>3. TypeOK'
    BY <1>3, <2>1, <2>2, Zenon DEF WriteStore, TypeOK, readerVars
  <2>4. HeadAhead' /\ ReadsPublished' /\ CopyBounded'
    BY <1>3, <1>t, <1>d, <2>1
       DEF WriteStore, readerVars, HeadAhead, ReadsPublished, CopyBounded
  \* the slot written lies beyond everything the reader may be copying
  <2>5. ASSUME rpc = "copy", NEW i \in 1 .. Len(out)
        PROVE  /\ (UTAIL + i - 1) % RING \in Slot
               /\ (UTAIL + i - 1) % RING # head
    <3>1. i \in Nat /\ i >= 1 /\ i <= Distance(UTAIL, head)
      BY <2>5, <1>t, <1>d DEF TypeOK, CopyBounded, ReadsPublished, HeadAhead
    <3>2. i - 1 \in Nat /\ i - 1 < Distance(UTAIL, head) /\ UTAIL + i - 1 = UTAIL + (i - 1)
      BY <3>1, <1>t, <1>d DEF Slot
    <3> QED
      BY <3>2, <1>t, OffsetShort, Zenon
  <2>6. CopyIntact'
    BY <1>3, <1>t, <2>5, Zenon DEF WriteStore, readerVars, CopyIntact, TypeOK
  <2> QED BY <2>3, <2>4, <2>6, Zenon
<1>4. CASE WritePublish /\ UNCHANGED polling
  <2>1. TypeOK'
    BY <1>4, Zenon DEF WritePublish, TypeOK, readerVars
  <2>2. CopyIntact' /\ CopyBounded'
    BY <1>4, Zenon DEF WritePublish, readerVars, CopyIntact, CopyBounded
  <2>3. HeadAhead' /\ ReadsPublished'
    BY <1>4, <1>t, <1>d DEF WritePublish, readerVars, HeadAhead, ReadsPublished, TypeOK
  <2> QED BY <2>1, <2>2, <2>3, Zenon
<1>5. CASE WriteCount /\ UNCHANGED polling
  <2>1. TypeOK'
    BY <1>5, CountAssumption DEF WriteCount, TypeOK, readerVars
  <2> QED
    BY <1>5, <2>1, Zenon DEF WriteCount, readerVars, CopyIntact, ReadsPublished, CopyBounded,
                      HeadAhead, Distance
<1>6. CASE ReadBegin /\ UNCHANGED polling
  <2>1. n' <= Distance(UTAIL, UHEAD) /\ n' \in 0 .. RING - 1
    BY <1>6, <1>t, <1>d, BoundAssumption DEF ReadBegin, Least
  <2>2. TypeOK'
    BY <1>6, <2>1 DEF ReadBegin, TypeOK, writerVars
  <2>3. out' = <<>> /\ Len(out') = 0
    BY <1>6, Zenon DEF ReadBegin
  <2>4. CopyIntact' /\ CopyBounded'
    BY <2>1, <2>3 DEF CopyIntact, CopyBounded
  <2>5. HeadAhead' /\ ReadsPublished'
    BY <1>6, <2>1, Zenon DEF ReadBegin, writerVars, HeadAhead, ReadsPublished, Distance
  <2> QED BY <2>2, <2>4, <2>5, Zenon
<1>7. CASE ReadCopy /\ UNCHANGED polling
  <2>1. Len(out) \in 0 .. RING - 1 /\ n \in Nat /\ Len(out) < n
    BY <1>7, <1>t DEF ReadCopy, TypeOK
  <2>2. (UTAIL + Len(out)) % RING \in Slot
    BY <1>t, <2>1, OffsetValue, Zenon
  <2>3. TypeOK'
    BY <1>7, <2>2 DEF ReadCopy, TypeOK, writerVars
  <2>4. Len(out') = Len(out) + 1 /\ UTAIL + Len(out') - 1 = UTAIL + Len(out)
    BY <1>7, <1>t, <2>1 DEF ReadCopy, TypeOK, Slot
  <2>5. ASSUME NEW i \in 1 .. Len(out')
        PROVE  out'[i] = uart'[(UTAIL' + i - 1) % RING]
    <3>1. CASE i = Len(out')
      BY <1>7, <1>t, <2>1, <2>4, <3>1 DEF ReadCopy, TypeOK
    <3>2. CASE i # Len(out')
      <4>1. i \in 1 .. Len(out)
        BY <2>1, <2>4, <3>2
      <4>2. out'[i] = out[i]
        BY <1>7, <4>1, <1>t, <2>1, <2>2 DEF ReadCopy, TypeOK
      <4> QED
        BY <1>7, <4>1, <4>2, Zenon DEF ReadCopy, CopyIntact
    <3> QED BY <3>1, <3>2, Zenon
  <2>c. CopyIntact'
    BY <2>5, Zenon DEF CopyIntact
  <2>6. CopyBounded' /\ HeadAhead' /\ ReadsPublished'
    BY <1>7, <2>1, <2>4, <1>t
       DEF ReadCopy, writerVars, CopyBounded, HeadAhead, ReadsPublished, Distance, TypeOK
  <2> QED BY <2>3, <2>c, <2>6, Zenon
<1>8. CASE ReadEnd /\ UNCHANGED polling
  <2>1. n \in 0 .. RING - 1 /\ n <= Distance(UTAIL, UHEAD)
    BY <1>8, <1>t, Zenon DEF ReadEnd, TypeOK, ReadsPublished
  <2>2. UTAIL' \in Slot
    BY <1>8, <1>t, <2>1, OffsetValue, Zenon DEF ReadEnd
  <2>3. TypeOK'
    BY <1>8, <2>2, Zenon DEF ReadEnd, TypeOK, writerVars
  <2>4. CopyIntact' /\ CopyBounded' /\ ReadsPublished'
    BY <1>8, Zenon DEF ReadEnd, CopyIntact, CopyBounded, ReadsPublished
  <2>5. /\ Distance(UTAIL', UHEAD) = Distance(UTAIL, UHEAD) - n
        /\ Distance(UTAIL', head) = Distance(UTAIL, head) - n
    <3>1. n <= Distance(UTAIL, head)
      BY <2>1, <1>d DEF HeadAhead
    <3> QED
      BY <1>8, <1>t, <2>1, <3>1, DistanceAdvance DEF ReadEnd
  <2>6. HeadAhead'
    BY <1>8, <1>d, <2>1, <2>5 DEF ReadEnd, writerVars, HeadAhead
  <2> QED BY <2>3, <2>4, <2>6, Zenon
<1>9. CASE Poll
  BY <1>9, Zenon DEF Poll, writerVars, readerVars, TypeOK, CopyIntact, ReadsPublished, HeadAhead,
              CopyBounded, Distance
<1>10. CASE UNCHANGED vars
  BY <1>10, Zenon DEF vars, writerVars, readerVars, TypeOK, CopyIntact, ReadsPublished, HeadAhead,
               CopyBounded, Distance
<1> QED
  BY <1>1, <1>2, <1>3, <1>4, <1>5, <1>6, <1>7, <1>8, <1>9, <1>10, Zenon DEF Next, Write, Read

-----------------------------------------------------------------------------

\* Type correctness of the ring for every RING, MaxRead and chunk bound.
THEOREM RingTypeOK == Spec => []TypeOK
<1>1. RingIInv => TypeOK
  BY Zenon DEF RingIInv
<1> QED
  BY RingInitIInv, RingNextIInv, <1>1, PTL DEF Spec

\* ringWriteUart never overwrites a byte that a concurrent ringReadUart has
\* copied and not yet released, whatever the interleaving of the two threads.
THEOREM RingCopyIntact == Spec => []CopyIntact
<1>1. RingIInv => CopyIntact
  BY Zenon DEF RingIInv
<1> QED
  BY RingInitIInv, RingNextIInv, <1>1, PTL DEF Spec

\* ringReadUart only copies slots below the published head.
THEOREM RingReadsPublished == Spec => []ReadsPublished
<1>1. RingIInv => ReadsPublished
  BY Zenon DEF RingIInv
<1> QED
  BY RingInitIInv, RingNextIInv, <1>1, PTL DEF Spec

\* What ringWriteUart has stored and not yet published never laps the reader:
\* its private head stays at or ahead of UHEAD, seen from UTAIL.
THEOREM RingHeadAhead == Spec => []HeadAhead
<1>1. RingIInv => HeadAhead
  BY Zenon DEF RingIInv
<1> QED
  BY RingInitIInv, RingNextIInv, <1>1, PTL DEF Spec

\* The ring is safe for every size, read limit and chunk.
THEOREM RingIsSound == Spec => []RingSound
<1>1. TypeOK /\ CopyIntact /\ ReadsPublished /\ HeadAhead => RingSound
  BY Zenon DEF RingSound
<1> QED
  BY <1>1, RingTypeOK, RingCopyIntact, RingReadsPublished, RingHeadAhead, PTL
-----------------------------------------------------------------------------
(***************************************************************************)
(* The ring implements LossyFifo.  Only the bytes between UTAIL and the    *)
(* writer's private head matter: publishing them and adding up the drops   *)
(* are steps the FIFO does not see, because the private head and count     *)
(* agree with the shared ones whenever no call is running (Settled).       *)
(***************************************************************************)

\* Between two calls the writer's locals are spent.
Settled ==
  /\ wpc # "loop" => head = UHEAD
  /\ wpc = "idle" => dropped = 0

FifoInv == RingIInv /\ Settled

LEMMA InitFifoInv == Init => FifoInv
BY RingInitIInv, Zenon DEF FifoInv, Settled, Init

LEMMA NextFifoInv == FifoInv /\ [Next]_vars => FifoInv'
<1> SUFFICES ASSUME FifoInv, [Next]_vars PROVE Settled'
  BY RingNextIInv, Zenon DEF FifoInv
<1> USE DEF FifoInv, Settled
<1>1. dropped \in Nat
  BY Zenon DEF RingIInv, TypeOK
<1>2. CASE WriteBegin
  BY <1>2, Zenon DEF WriteBegin
<1>3. CASE WriteDrop \/ WriteStore
  BY <1>3, Zenon DEF WriteDrop, WriteStore
<1>4. CASE WritePublish
  BY <1>1, <1>4 DEF WritePublish
<1>5. CASE WriteCount
  BY <1>5, Zenon DEF WriteCount
<1>6. CASE Read \/ Poll \/ UNCHANGED vars
  BY <1>6, Zenon DEF Read, ReadBegin, ReadCopy, ReadEnd, Poll, writerVars, vars
<1>7. QED
  BY <1>2, <1>3, <1>4, <1>5, <1>6, Zenon DEF Next, Write

\* A function on 1 .. d is a sequence of length d.
LEMMA FcnSeq ==
  ASSUME NEW S, NEW d \in Nat, NEW f \in [1 .. d -> S]
  PROVE  f \in Seq(S) /\ Len(f) = d
<1>1. f \in Seq(S)
  BY SeqDef, Zenon
<1>2. DOMAIN f = 1 .. Len(f) /\ Len(f) \in Nat /\ DOMAIN f = 1 .. d
  BY <1>1, LenProperties, Zenon
<1>3. QED BY <1>1, <1>2

\* The unread bytes as a sequence.
LEMMA UnreadSeq ==
  ASSUME RingIInv
  PROVE  /\ Distance(UTAIL, head) \in 0 .. RING - 1
         /\ Unread \in Seq(Byte) /\ Len(Unread) = Distance(UTAIL, head)
         /\ \A i \in 1 .. Len(Unread) :
              /\ (UTAIL + i - 1) % RING \in Slot
              /\ Unread[i] = uart[(UTAIL + i - 1) % RING]
<1> DEFINE D == Distance(UTAIL, head)
<1>1. UTAIL \in Slot /\ head \in Slot /\ uart \in [Slot -> Byte] /\ RING \in Nat
  BY RingAssumption, Zenon DEF RingIInv, TypeOK
<1>2. D \in 0 .. RING - 1
  BY <1>1, DistanceValue, Zenon DEF Slot
<1>3. ASSUME NEW i \in 1 .. D PROVE (UTAIL + i - 1) % RING \in Slot
  <2>1. i - 1 \in 0 .. RING - 1 /\ UTAIL + (i - 1) = UTAIL + i - 1
    BY <1>1, <1>2 DEF Slot
  <2>2. (UTAIL + (i - 1)) % RING \in Slot
    BY <1>1, <2>1, OffsetValue, Zenon
  <2>3. QED BY <2>1, <2>2, Zenon
<1>4. Unread \in [1 .. D -> Byte]
  BY <1>1, <1>3, Zenon DEF Unread
<1>5. Unread \in Seq(Byte) /\ Len(Unread) = D
  BY <1>2, <1>4, FcnSeq
<1>6. QED BY <1>2, <1>3, <1>5, Zenon DEF Unread

\* A stored byte joins the queue at its end.
LEMMA StoreAccepts ==
  ASSUME RingIInv, WriteStore
  PROVE  Fifo!Accept
<1> DEFINE D == Distance(UTAIL, head)
           b == Head(bytes)
<1>1. UTAIL \in Slot /\ head \in Slot /\ uart \in [Slot -> Byte] /\ RING \in Nat /\ RING > 1
  BY RingAssumption, Zenon DEF RingIInv, TypeOK
<1>2. /\ SlotAfter(head) # UTAIL /\ uart' = [uart EXCEPT ![head] = b]
      /\ head' = SlotAfter(head) /\ bytes # <<>>
      /\ UNCHANGED <<UTAIL, DROPPED, dropped, received>>
  BY Zenon DEF WriteStore, readerVars
<1>3. b \in Byte
  BY <1>2, HeadTailProperties, Zenon DEF RingIInv, TypeOK
<1>4. /\ D \in 0 .. RING - 1 /\ Unread \in Seq(Byte) /\ Len(Unread) = D
      /\ \A i \in 1 .. D : (UTAIL + i - 1) % RING \in Slot
                           /\ Unread[i] = uart[(UTAIL + i - 1) % RING]
  BY UnreadSeq, Zenon
<1>5. Distance(UTAIL, SlotAfter(head)) = D + 1 /\ D < RING - 1
  <2>1. Distance(UTAIL, SlotAfter(head)) = D + 1
    BY <1>1, <1>2, DistanceSucc, Zenon
  <2>2. Distance(UTAIL, SlotAfter(head)) \in 0 .. RING - 1
    BY <1>1, SlotAfterValue, DistanceValue, Zenon DEF Slot
  <2>3. QED BY <1>1, <1>4, <2>1, <2>2
<1>6. Unread' = [i \in 1 .. D + 1 |-> uart'[(UTAIL + i - 1) % RING]]
  BY <1>2, <1>5 DEF Unread
<1>7. ASSUME NEW i \in 1 .. D PROVE (UTAIL + i - 1) % RING # head
  <2>1. i - 1 \in Nat /\ i - 1 < D /\ UTAIL + (i - 1) = UTAIL + i - 1
    BY <1>1, <1>4 DEF Slot
  <2>2. (UTAIL + (i - 1)) % RING # head
    BY <1>1, <2>1, OffsetShort, Zenon
  <2>3. QED BY <2>1, <2>2, Zenon
<1>8. (UTAIL + (D + 1) - 1) % RING = head
  <2>1. (UTAIL + D) % RING = head
    <3>1. D = IF UTAIL <= head THEN head - UTAIL ELSE head + RING - UTAIL
      BY <1>1, DistanceValue, Zenon
    <3>2. (UTAIL + D) % RING = IF UTAIL + D < RING THEN UTAIL + D ELSE UTAIL + D - RING
      BY <1>1, <1>4, OffsetValue, Zenon
    <3> HIDE DEF D
    <3>3. QED BY <1>1, <3>1, <3>2 DEF Slot
  <2>2. UTAIL + (D + 1) - 1 = UTAIL + D
    BY <1>1, <1>4 DEF Slot
  <2>3. QED BY <2>1, <2>2, Zenon
<1>9. Unread' = Append(Unread, b)
  <2> DEFINE s == [i \in 1 .. D + 1 |-> uart'[(UTAIL + i - 1) % RING]]
             t == Append(Unread, b)
  <2>1. /\ t \in Seq(Byte) /\ Len(t) = D + 1
        /\ \A i \in 1 .. D : t[i] = Unread[i]
        /\ t[D + 1] = b
    BY <1>3, <1>4, AppendProperties
  <2>2. ASSUME NEW i \in 1 .. D + 1 PROVE s[i] = t[i] /\ s[i] \in Byte
    <3>1. CASE i \in 1 .. D
      BY <1>1, <1>2, <1>4, <1>7, <2>1, <3>1, Zenon
    <3>2. CASE i = D + 1
      BY <1>1, <1>2, <1>3, <1>8, <2>1, <3>2, Zenon
    <3>3. QED BY <1>4, <3>1, <3>2
  <2>3. s \in Seq(Byte) /\ Len(s) = D + 1
    <3>1. s \in [1 .. D + 1 -> Byte]
      BY <2>2, Zenon
    <3>2. D + 1 \in Nat
      BY <1>4
    <3> HIDE DEF s, D
    <3>3. QED BY <3>1, <3>2, FcnSeq, Zenon
  <2>4. s = t
    BY <2>1, <2>2, <2>3, SeqEqual, Zenon
  <2>5. QED BY <1>6, <2>4, Zenon
<1>10. QED
  BY <1>2, <1>3, <1>4, <1>5, <1>9, Zenon DEF Fifo!Accept

\* A byte that meets a full ring is dropped by a full queue.
LEMMA DropDrops ==
  ASSUME RingIInv, WriteDrop
  PROVE  Fifo!Drop
<1> DEFINE D == Distance(UTAIL, head)
<1>1. /\ UTAIL \in Slot /\ head \in Slot /\ RING \in Nat /\ RING > 1
      /\ DROPPED \in 0 .. CountMod - 1 /\ dropped \in Nat /\ CountMod \in Nat \ {0}
  BY RingAssumption, CountAssumption, Zenon DEF RingIInv, TypeOK
<1>2. SlotAfter(head) = UTAIL /\ dropped' = dropped + 1
      /\ UNCHANGED <<uart, UTAIL, DROPPED, head, received>>
  BY Zenon DEF WriteDrop, readerVars
<1>3. Len(Unread) = D
  BY UnreadSeq, Zenon
<1>4. D = RING - 1
  <2>1. D = IF UTAIL <= head THEN head - UTAIL ELSE head + RING - UTAIL
    BY <1>1, DistanceValue, Zenon
  <2>2. UTAIL = IF head = RING - 1 THEN 0 ELSE head + 1
    BY <1>1, <1>2, SlotAfterValue, Zenon
  <2> HIDE DEF D
  <2>3. QED BY <1>1, <2>1, <2>2 DEF Slot
<1>5. Unread' = Unread
  BY <1>2, Zenon DEF Unread, Distance
<1>6. (DROPPED + (dropped + 1)) % CountMod = (((DROPPED + dropped) % CountMod) + 1) % CountMod
  <2> DEFINE x == DROPPED + dropped
             r == x % CountMod
             q == x \div CountMod
  <2>1. x \in Nat /\ x = q * CountMod + r /\ r \in 0 .. CountMod - 1 /\ q \in Nat
    BY <1>1
  <2>2. DROPPED + (dropped + 1) = x + 1
    BY <1>1
  <2> HIDE DEF x, r, q
  <2>3. CASE r + 1 < CountMod
    <3>1. x + 1 = q * CountMod + (r + 1)
      BY <1>1, <2>1
    <3>2. (x + 1) % CountMod = r + 1 /\ (r + 1) % CountMod = r + 1
      BY <1>1, <2>1, <2>3, <3>1
    <3>3. QED BY <2>2, <3>2, Zenon DEF r, x
  <2>4. CASE r + 1 = CountMod
    <3>1. x + 1 = (q + 1) * CountMod
      BY <1>1, <2>1, <2>4
    <3>2. (x + 1) % CountMod = 0 /\ (r + 1) % CountMod = 0
      BY <1>1, <2>1, <2>4, <3>1
    <3>3. QED BY <2>2, <3>2, Zenon DEF r, x
  <2>5. QED BY <1>1, <2>1, <2>3, <2>4
<1>7. QED
  BY <1>2, <1>3, <1>4, <1>5, <1>6, Zenon DEF Fifo!Drop

\* The end of a read delivers the oldest n bytes.
LEMMA ReadDelivers ==
  ASSUME RingIInv, ReadEnd
  PROVE  Fifo!Deliver
<1> DEFINE D == Distance(UTAIL, head)
           E == D - n
           tail == (UTAIL + n) % RING
<1>1. /\ UTAIL \in Slot /\ head \in Slot /\ UHEAD \in Slot /\ uart \in [Slot -> Byte]
      /\ RING \in Nat /\ RING > 1 /\ n \in 0 .. RING - 1 /\ out \in Seq(Byte)
  BY RingAssumption, Zenon DEF RingIInv, TypeOK
<1>2. /\ rpc = "copy" /\ Len(out) = n /\ UTAIL' = tail /\ received' = out
      /\ UNCHANGED <<uart, DROPPED, head, dropped>>
  BY Zenon DEF ReadEnd, writerVars
<1>3. /\ D \in 0 .. RING - 1 /\ Unread \in Seq(Byte) /\ Len(Unread) = D
      /\ \A i \in 1 .. D : (UTAIL + i - 1) % RING \in Slot
                           /\ Unread[i] = uart[(UTAIL + i - 1) % RING]
  BY UnreadSeq, Zenon
<1>4. n <= D /\ E \in Nat
  <2>1. n <= Distance(UTAIL, UHEAD) /\ Distance(UTAIL, UHEAD) <= D
    BY <1>2, Zenon DEF RingIInv, ReadsPublished, HeadAhead
  <2>2. Distance(UTAIL, UHEAD) \in Nat
    <3>1. Distance(UTAIL, UHEAD) \in Slot
      BY <1>1, DistanceValue, Zenon
    <3>2. QED BY <1>1, <3>1 DEF Slot
  <2> HIDE DEF D
  <2>3. QED BY <1>1, <1>3, <2>1, <2>2
<1>5. received' = SubSeq(Unread, 1, n)
  <2> DEFINE t == SubSeq(Unread, 1, n)
  <2>1. /\ t \in Seq(Byte) /\ Len(t) = n
        /\ \A i \in 1 .. n : t[i] = Unread[i]
    <3>1. 1 \in 1 .. D + 1 /\ n \in 0 .. D
      BY <1>1, <1>3, <1>4
    <3> HIDE DEF D
    <3>2. /\ t \in Seq(Byte)
          /\ Len(t) = IF 1 <= n THEN n - 1 + 1 ELSE 0
          /\ \A i \in 1 .. n - 1 + 1 : t[i] = Unread[1 + i - 1]
      BY <1>3, <3>1, SubSeqProperties
    <3> HIDE DEF t
    <3>3. QED BY <1>1, <3>2
  <2>2. ASSUME NEW i \in 1 .. n PROVE out[i] = t[i]
    <3>1. out[i] = uart[(UTAIL + i - 1) % RING]
      BY <1>2, Zenon DEF RingIInv, CopyIntact
    <3>2. i \in 1 .. D
      BY <1>1, <1>3, <1>4
    <3>3. QED BY <1>3, <2>1, <3>1, <3>2, Zenon
  <2> HIDE DEF t
  <2>3. out = t
    BY <1>1, <1>2, <2>1, <2>2, SeqEqual, Zenon
  <2>4. QED BY <1>2, <2>3, Zenon DEF t
<1>6. Unread' = SubSeq(Unread, n + 1, Len(Unread))
  <2> DEFINE s == [i \in 1 .. E |-> uart[(tail + i - 1) % RING]]
             t == SubSeq(Unread, n + 1, D)
  <2>1. tail \in Slot /\ Distance(tail, head) = E
    BY <1>1, <1>4, OffsetValue, DistanceAdvance, Zenon
  <2>2. Unread' = s
    BY <1>2, <2>1, Zenon DEF Unread, Distance
  <2>3. /\ t \in Seq(Byte) /\ Len(t) = E
        /\ \A i \in 1 .. E : t[i] = Unread[n + i]
    <3>1. n + 1 \in 1 .. D + 1 /\ D \in n + 1 - 1 .. D
      BY <1>1, <1>3, <1>4
    <3> HIDE DEF D
    <3>2. /\ t \in Seq(Byte)
          /\ Len(t) = IF n + 1 <= D THEN D - (n + 1) + 1 ELSE 0
          /\ \A i \in 1 .. D - (n + 1) + 1 : t[i] = Unread[n + 1 + i - 1]
      BY <1>3, <3>1, SubSeqProperties, SMTT(60)
    <3> HIDE DEF t
    <3>3. QED BY <1>1, <1>3, <1>4, <3>2
  <2>4. ASSUME NEW i \in 1 .. E PROVE s[i] = t[i] /\ s[i] \in Byte
    <3>1. n + i \in 1 .. D /\ n + i - 1 \in 0 .. RING - 1 /\ i - 1 \in 0 .. RING - 1
      BY <1>1, <1>3, <1>4
    <3>2. /\ tail = IF UTAIL + n < RING THEN UTAIL + n ELSE UTAIL + n - RING
          /\ (UTAIL + (n + i - 1)) % RING = IF UTAIL + (n + i - 1) < RING
               THEN UTAIL + (n + i - 1) ELSE UTAIL + (n + i - 1) - RING
          /\ (tail + (i - 1)) % RING = IF tail + (i - 1) < RING
               THEN tail + (i - 1) ELSE tail + (i - 1) - RING
      BY <1>1, <2>1, <3>1, OffsetValue, Zenon
    <3>3. /\ tail + i - 1 = tail + (i - 1)
          /\ UTAIL + (n + i) - 1 = UTAIL + (n + i - 1)
      BY <1>1, <2>1, <3>1 DEF Slot
    <3>4. tail \in 0 .. RING - 1 /\ UTAIL \in 0 .. RING - 1
      BY <1>1, <2>1, Zenon DEF Slot
    <3> HIDE DEF tail, D
    <3>5. (tail + i - 1) % RING = (UTAIL + (n + i) - 1) % RING
      BY <1>1, <3>1, <3>2, <3>3, <3>4
    <3>6. QED BY <1>1, <1>3, <2>3, <3>1, <3>5, Zenon
  <2>5. s \in Seq(Byte) /\ Len(s) = E
    <3>1. s \in [1 .. E -> Byte]
      BY <2>4, Zenon
    <3> HIDE DEF s, E
    <3>2. QED BY <1>4, <3>1, FcnSeq, Zenon
  <2>6. s = t
    <3> HIDE DEF s, t, E
    <3>1. QED BY <2>3, <2>4, <2>5, SeqEqual, Zenon
  <2>7. QED BY <1>3, <2>2, <2>6, Zenon
<1>7. n \in 0 .. Len(Unread) /\ UNCHANGED ((DROPPED + dropped) % CountMod)
  BY <1>1, <1>2, <1>3, <1>4
<1>8. QED
  BY <1>5, <1>6, <1>7, Zenon DEF Fifo!Deliver

\* Every step of the ring is a step of the FIFO or is not seen by it.
LEMMA StepIsFifoStep ==
  ASSUME FifoInv, [Next]_vars
  PROVE  [Fifo!Next]_Fifo!vars
<1> USE DEF FifoInv
<1>1. /\ DROPPED \in 0 .. CountMod - 1 /\ dropped \in Nat /\ CountMod \in Nat \ {0}
  BY CountAssumption, Zenon DEF RingIInv, TypeOK
<1>2. ASSUME UNCHANGED <<uart, UTAIL, head, received>>,
             UNCHANGED ((DROPPED + dropped) % CountMod)
      PROVE  UNCHANGED Fifo!vars
  <2>1. Unread' = Unread
    BY <1>2, Zenon DEF Unread, Distance
  <2>2. QED BY <1>2, <2>1, Zenon DEF Fifo!vars
<1>3. CASE WriteBegin
  BY <1>2, <1>3, Zenon DEF WriteBegin, Settled, readerVars
<1>4. CASE WriteDrop
  BY <1>4, DropDrops, Zenon DEF Fifo!Next
<1>5. CASE WriteStore
  BY <1>5, StoreAccepts, Zenon DEF Fifo!Next
<1>6. CASE WritePublish
  BY <1>2, <1>6, Zenon DEF WritePublish, readerVars
<1>7. CASE WriteCount
  <2>1. (((DROPPED + dropped) % CountMod) + 0) % CountMod = (DROPPED + dropped) % CountMod
    <3> DEFINE r == (DROPPED + dropped) % CountMod
    <3>1. r \in 0 .. CountMod - 1
      BY <1>1
    <3> HIDE DEF r
    <3>2. (r + 0) % CountMod = r
      BY <1>1, <3>1
    <3>3. QED BY <3>2, Zenon DEF r
  <2>2. QED BY <1>2, <1>7, <2>1, Zenon DEF WriteCount, readerVars
<1>8. CASE ReadEnd
  BY <1>8, ReadDelivers, Zenon DEF Fifo!Next
<1>9. CASE ReadBegin \/ ReadCopy \/ Poll \/ UNCHANGED vars
  BY <1>2, <1>9, Zenon DEF ReadBegin, ReadCopy, Poll, writerVars, readerVars, vars
<1>10. QED
  BY <1>3, <1>4, <1>5, <1>6, <1>7, <1>8, <1>9, Zenon DEF Next, Write, Read

\* The fresh ring is the empty FIFO.
LEMMA InitIsFifoInit ==
  ASSUME Init
  PROVE  Fifo!Init
<1>1. Distance(0, 0) = 0 /\ 0 % CountMod = 0 /\ 0 + 0 = 0
  BY RingAssumption, CountAssumption DEF Distance
<1>2. RingIInv
  BY RingInitIInv, Zenon
<1>3. Unread \in Seq(Byte) /\ Len(Unread) = 0
  BY <1>1, <1>2, UnreadSeq, Zenon DEF Init
<1>4. Unread = <<>>
  BY <1>3, EmptySeq, Zenon
<1>5. QED BY <1>1, <1>4, Zenon DEF Init, Fifo!Init

\* The shared ring (sab-rings.js ringWriteUart, ringReadUart) is a bounded
\* lossy FIFO, whatever its size and the longest read: no interleaving of
\* the two threads loses, repeats or reorders a stored byte.
THEOREM RingRefinesFifo == Spec => RefinesFifo
<1>1. FifoInv /\ [Next]_vars => [Fifo!Next]_Fifo!vars
  BY StepIsFifoStep, Zenon
<1>2. QED
  BY <1>1, InitFifoInv, NextFifoInv, InitIsFifoInit, PTL DEF Spec, RefinesFifo, Fifo!Spec
-----------------------------------------------------------------------------
(***************************************************************************)
(* The UI and the worker agree once their messages have arrived, for every *)
(* number of messages and rings, as long as the transport is not switched  *)
(* again before the worker has answered.  The invariant says what the      *)
(* messages under way will do: the last answer the UI has yet to hear is   *)
(* the worker's state, unless an order is still on its way to the worker;  *)
(* and a ring on its way to the worker is the one the UI already uses.     *)
(***************************************************************************)

Orders == {"run", "stop", "load"}
Answers == {"running", "loaded"}

Command == [cmd : Orders \union {"reset", "engine", "transport"},
            arg : (0 .. MaxRing) \union {"single", "dual"}]
Notice == [type : Answers \union {"transport"}, on : BOOLEAN]

\* An order is under way in s.
Ordered(s) == \E i \in 1 .. Len(s) : s[i].cmd \in Orders

\* A UI that believes w will believe v when it has heard all of s.
WillBelieve(s, w, v) ==
  /\ (\A j \in 1 .. Len(s) : s[j].type \notin Answers) => w = v
  /\ \A j \in 1 .. Len(s) :
       /\ s[j].type \in Answers
       /\ \A k \in j + 1 .. Len(s) : s[k].type \notin Answers
       => s[j].on = v

\* s carries a ring to the worker; it carries one at most, and it is r.
Carries(s) == \E i \in 1 .. Len(s) : s[i].cmd = "transport"
CarriesOnly(s, r) ==
  /\ \A i \in 1 .. Len(s) : s[i].cmd = "transport" => s[i].arg = r
  /\ \A i, k \in 1 .. Len(s) : s[i].cmd = "transport" /\ s[k].cmd = "transport" => i = k

\* s brings the UI the worker's answer about a ring, and each answer fits r.
Confirms(s) == \E j \in 1 .. Len(s) : s[j].type = "transport"
ConfirmsOnly(s, r) ==
  \A j \in 1 .. Len(s) : s[j].type = "transport" => s[j].on = (r # None)

\* Only a machine that exists is told to run, and only one is reported loaded.
RunsLoaded(s, e) == \A i \in 1 .. Len(s) : s[i].cmd = "run" => e
ReportsLoaded(s, e) == \A j \in 1 .. Len(s) : s[j].type = "loaded" => e /\ ~s[j].on

QueuesOK ==
  /\ toWorker \in Seq(Command) /\ toUi \in Seq(Notice)
  /\ {workerLoaded, workerRunning, emu, running, runOn, stopOn} \subseteq BOOLEAN
  /\ RunsLoaded(toWorker, emu) /\ ReportsLoaded(toUi, emu)

RunFollows == Ordered(toWorker) \/ WillBelieve(toUi, workerRunning, running)

RingFollows ==
  /\ Carries(toWorker) => ~Confirms(toUi)
  /\ ~Carries(toWorker) => sabRings = rings
  /\ CarriesOnly(toWorker, sabRings) /\ ConfirmsOnly(toUi, sabRings)

UiInv == UiTypeOK /\ QueuesOK /\ RunFollows /\ RingFollows

-----------------------------------------------------------------------------
(* What taking the first message and adding a last one does to the queues *)

LEMMA TailFacts ==
  ASSUME NEW S, NEW s \in Seq(S), s # <<>>
  PROVE  /\ Tail(s) \in Seq(S) /\ Len(s) \in Nat \ {0} /\ Len(Tail(s)) = Len(s) - 1
         /\ s[1] \in S
         /\ \A i \in 1 .. Len(s) - 1 : Tail(s)[i] = s[i + 1]
BY HeadTailProperties, EmptySeq, LenProperties, ElementOfSeq

LEMMA AppendFacts ==
  ASSUME NEW S, NEW s \in Seq(S), NEW x \in S
  PROVE  /\ Append(s, x) \in Seq(S) /\ Len(s) \in Nat /\ Len(Append(s, x)) = Len(s) + 1
         /\ Append(s, x)[Len(s) + 1] = x
         /\ \A i \in 1 .. Len(s) : Append(s, x)[i] = s[i]
BY AppendProperties, LenProperties

\* A message to the worker is a last one, too.
LEMMA PostFacts ==
  ASSUME NEW S, NEW s \in Seq(S), NEW x \in S
  PROVE  s \o <<x>> = Append(s, x)
BY AppendIsConcat, Zenon

LEMMA HearAnswer ==
  ASSUME NEW s \in Seq(Notice), s # <<>>, NEW w, NEW v, WillBelieve(s, w, v),
         s[1].type \in Answers
  PROVE  WillBelieve(Tail(s), s[1].on, v)
<1>1. /\ Len(s) \in Nat \ {0} /\ Len(Tail(s)) = Len(s) - 1
      /\ \A i \in 1 .. Len(s) - 1 : Tail(s)[i] = s[i + 1]
  BY TailFacts, Zenon
<1> DEFINE t == Tail(s)
<1> HIDE DEF t
<1>2. ASSUME \A j \in 1 .. Len(t) : t[j].type \notin Answers PROVE s[1].on = v
  <2>1. \A k \in 2 .. Len(s) : s[k].type \notin Answers
    <3> TAKE k \in 2 .. Len(s)
    <3>1. k - 1 \in 1 .. Len(t) /\ t[k - 1] = s[k]
      BY <1>1 DEF t
    <3>2. QED BY <1>2, <3>1, Zenon
  <2>2. QED BY <1>1, <2>1 DEF WillBelieve
<1>3. ASSUME NEW j \in 1 .. Len(t), t[j].type \in Answers,
             \A k \in j + 1 .. Len(t) : t[k].type \notin Answers
      PROVE  t[j].on = v
  <2>1. j + 1 \in 1 .. Len(s) /\ t[j] = s[j + 1]
    BY <1>1 DEF t
  <2>2. \A k \in (j + 1) + 1 .. Len(s) : s[k].type \notin Answers
    <3> TAKE k \in (j + 1) + 1 .. Len(s)
    <3>1. k - 1 \in j + 1 .. Len(t) /\ t[k - 1] = s[k]
      BY <1>1 DEF t
    <3>2. QED BY <1>3, <3>1, Zenon
  <2>3. QED BY <1>3, <2>1, <2>2, Zenon DEF WillBelieve
<1>4. QED BY <1>2, <1>3, Zenon DEF WillBelieve, t

LEMMA HearOther ==
  ASSUME NEW s \in Seq(Notice), s # <<>>, NEW w, NEW v, WillBelieve(s, w, v),
         s[1].type \notin Answers
  PROVE  WillBelieve(Tail(s), w, v)
<1>1. /\ Len(s) \in Nat \ {0} /\ Len(Tail(s)) = Len(s) - 1
      /\ \A i \in 1 .. Len(s) - 1 : Tail(s)[i] = s[i + 1]
  BY TailFacts, Zenon
<1> DEFINE t == Tail(s)
<1> HIDE DEF t
<1>2. ASSUME \A j \in 1 .. Len(t) : t[j].type \notin Answers PROVE w = v
  <2>1. \A k \in 1 .. Len(s) : s[k].type \notin Answers
    <3> TAKE k \in 1 .. Len(s)
    <3>1. k = 1 \/ (k - 1 \in 1 .. Len(t) /\ t[k - 1] = s[k])
      BY <1>1 DEF t
    <3>2. QED BY <1>2, <3>1, Zenon
  <2>2. QED BY <2>1, Zenon DEF WillBelieve
<1>3. ASSUME NEW j \in 1 .. Len(t), t[j].type \in Answers,
             \A k \in j + 1 .. Len(t) : t[k].type \notin Answers
      PROVE  t[j].on = v
  <2>1. j + 1 \in 1 .. Len(s) /\ t[j] = s[j + 1]
    BY <1>1 DEF t
  <2>2. \A k \in (j + 1) + 1 .. Len(s) : s[k].type \notin Answers
    <3> TAKE k \in (j + 1) + 1 .. Len(s)
    <3>1. k - 1 \in j + 1 .. Len(t) /\ t[k - 1] = s[k]
      BY <1>1 DEF t
    <3>2. QED BY <1>3, <3>1, Zenon
  <2>3. QED BY <1>3, <2>1, <2>2, Zenon DEF WillBelieve
<1>4. QED BY <1>2, <1>3, Zenon DEF WillBelieve, t

LEMMA TellAnswer ==
  ASSUME NEW s \in Seq(Notice), NEW x \in Notice, x.type \in Answers, NEW w
  PROVE  WillBelieve(Append(s, x), w, x.on)
<1>1. /\ Len(s) \in Nat /\ Len(Append(s, x)) = Len(s) + 1
      /\ Append(s, x)[Len(s) + 1] = x
  BY AppendFacts
<1>2. Len(s) + 1 \in 1 .. Len(Append(s, x))
  BY <1>1
<1>3. ASSUME NEW j \in 1 .. Len(Append(s, x)),
             \A k \in j + 1 .. Len(Append(s, x)) : Append(s, x)[k].type \notin Answers
      PROVE  Append(s, x)[j].on = x.on
  <2>1. j = Len(s) + 1 \/ Len(s) + 1 \in j + 1 .. Len(Append(s, x))
    BY <1>1
  <2>2. QED BY <1>1, <1>3, <2>1, Zenon
<1>4. QED BY <1>1, <1>2, <1>3, Zenon DEF WillBelieve

LEMMA TellOther ==
  ASSUME NEW s \in Seq(Notice), NEW x \in Notice, x.type \notin Answers,
         NEW w, NEW v, WillBelieve(s, w, v)
  PROVE  WillBelieve(Append(s, x), w, v)
<1> DEFINE t == Append(s, x)
<1>1. /\ Len(s) \in Nat /\ Len(t) = Len(s) + 1 /\ t[Len(s) + 1] = x
      /\ \A i \in 1 .. Len(s) : t[i] = s[i]
  BY AppendFacts
<1> HIDE DEF t
<1>2. \A j \in 1 .. Len(s) : j \in 1 .. Len(t)
  BY <1>1
<1>3. ASSUME \A j \in 1 .. Len(t) : t[j].type \notin Answers PROVE w = v
  BY <1>1, <1>2, <1>3, Zenon DEF WillBelieve
<1>4. ASSUME NEW j \in 1 .. Len(t), t[j].type \in Answers,
             \A k \in j + 1 .. Len(t) : t[k].type \notin Answers
      PROVE  t[j].on = v
  <2>1. j \in 1 .. Len(s) /\ t[j] = s[j]
    BY <1>1, <1>4
  <2>2. \A k \in j + 1 .. Len(s) : s[k].type \notin Answers
    <3> TAKE k \in j + 1 .. Len(s)
    <3>1. k \in 1 .. Len(s) /\ k \in j + 1 .. Len(t)
      BY <1>1, <2>1
    <3>2. QED BY <1>1, <1>4, <3>1, Zenon
  <2>3. QED BY <1>4, <2>1, <2>2, Zenon DEF WillBelieve
<1>5. QED BY <1>3, <1>4, Zenon DEF WillBelieve, t

LEMMA TakeCommand ==
  ASSUME NEW s \in Seq(Command), s # <<>>, NEW r, NEW e, CarriesOnly(s, r), RunsLoaded(s, e)
  PROVE  /\ Tail(s) \in Seq(Command) /\ s[1] \in Command
         /\ CarriesOnly(Tail(s), r) /\ RunsLoaded(Tail(s), e)
         /\ Carries(Tail(s)) => Carries(s)
         /\ s[1].cmd = "transport" => ~Carries(Tail(s)) /\ Carries(s) /\ s[1].arg = r
         /\ s[1].cmd # "transport" => (Carries(s) => Carries(Tail(s)))
         /\ s[1].cmd \notin Orders => (Ordered(s) => Ordered(Tail(s)))
         /\ s[1].cmd = "run" => e
<1> DEFINE t == Tail(s)
<1>1. /\ t \in Seq(Command) /\ Len(s) \in Nat \ {0} /\ Len(t) = Len(s) - 1
      /\ s[1] \in Command /\ \A i \in 1 .. Len(s) - 1 : t[i] = s[i + 1]
  BY TailFacts, Zenon
<1> HIDE DEF t
<1>2. \A i \in 1 .. Len(t) : i + 1 \in 1 .. Len(s) /\ i + 1 # 1 /\ t[i] = s[i + 1]
  BY <1>1
<1>3. \A i \in 1 .. Len(s) : i = 1 \/ (i - 1 \in 1 .. Len(t) /\ t[i - 1] = s[i])
  BY <1>1
<1>4. 1 \in 1 .. Len(s)
  BY <1>1
<1>5. CarriesOnly(t, r)
  <2>1. ASSUME NEW i \in 1 .. Len(t), NEW k \in 1 .. Len(t),
               t[i].cmd = "transport", t[k].cmd = "transport"
        PROVE  i = k
    <3>1. i + 1 = k + 1
      BY <1>2, <2>1 DEF CarriesOnly
    <3>2. QED BY <3>1
  <2>2. QED BY <1>2, <2>1, Zenon DEF CarriesOnly
<1>6. RunsLoaded(t, e)
  BY <1>2, Zenon DEF RunsLoaded
<1>7. Carries(t) => Carries(s)
  BY <1>2, Zenon DEF Carries
<1>8. s[1].cmd = "transport" => ~Carries(t) /\ Carries(s) /\ s[1].arg = r
  BY <1>2, <1>4, Zenon DEF Carries, CarriesOnly
<1>9. s[1].cmd # "transport" => (Carries(s) => Carries(t))
  BY <1>3, Zenon DEF Carries
<1>10. s[1].cmd \notin Orders => (Ordered(s) => Ordered(t))
  BY <1>3, Zenon DEF Ordered
<1>11. s[1].cmd = "run" => e
  BY <1>4, Zenon DEF RunsLoaded
<1>12. QED
  BY <1>1, <1>5, <1>6, <1>7, <1>8, <1>9, <1>10, <1>11, Zenon DEF t

LEMMA PostCommand ==
  ASSUME NEW s \in Seq(Command), NEW x \in Command, NEW r, NEW e,
         RunsLoaded(s, e), x.cmd = "run" => e
  PROVE  /\ Append(s, x) \in Seq(Command)
         /\ RunsLoaded(Append(s, x), e)
         /\ x.cmd \in Orders => Ordered(Append(s, x))
         /\ Ordered(s) => Ordered(Append(s, x))
         /\ x.cmd = "transport" => Carries(Append(s, x))
         /\ x.cmd # "transport" => (Carries(Append(s, x)) <=> Carries(s))
         /\ x.cmd # "transport" /\ CarriesOnly(s, r) => CarriesOnly(Append(s, x), r)
         /\ x.cmd = "transport" /\ x.arg = r /\ ~Carries(s) => CarriesOnly(Append(s, x), r)
<1> DEFINE t == Append(s, x)
<1>1. /\ t \in Seq(Command) /\ Len(s) \in Nat /\ Len(t) = Len(s) + 1
      /\ t[Len(s) + 1] = x /\ \A i \in 1 .. Len(s) : t[i] = s[i]
  BY AppendFacts
<1> HIDE DEF t
<1>2. \A i \in 1 .. Len(t) : (i = Len(s) + 1 /\ t[i] = x) \/ (i \in 1 .. Len(s) /\ t[i] = s[i])
  BY <1>1
<1>3. Len(s) + 1 \in 1 .. Len(t) /\ \A i \in 1 .. Len(s) : i \in 1 .. Len(t)
  BY <1>1
<1>4. RunsLoaded(t, e)
  BY <1>2, Zenon DEF RunsLoaded
<1>5. (x.cmd \in Orders => Ordered(t)) /\ (Ordered(s) => Ordered(t))
  BY <1>1, <1>3, Zenon DEF Ordered
<1>6. /\ x.cmd = "transport" => Carries(t)
      /\ x.cmd # "transport" => (Carries(t) <=> Carries(s))
  BY <1>1, <1>2, <1>3, Zenon DEF Carries
<1>7. x.cmd # "transport" /\ CarriesOnly(s, r) => CarriesOnly(t, r)
  BY <1>2, Zenon DEF CarriesOnly
<1>8. x.cmd = "transport" /\ x.arg = r /\ ~Carries(s) => CarriesOnly(t, r)
  BY <1>2, Zenon DEF CarriesOnly, Carries
<1>9. QED
  BY <1>1, <1>4, <1>5, <1>6, <1>7, <1>8, Zenon DEF t

LEMMA TakeNotice ==
  ASSUME NEW s \in Seq(Notice), s # <<>>, NEW r, NEW e, ConfirmsOnly(s, r), ReportsLoaded(s, e)
  PROVE  /\ Tail(s) \in Seq(Notice) /\ s[1] \in Notice
         /\ ConfirmsOnly(Tail(s), r) /\ ReportsLoaded(Tail(s), e)
         /\ Confirms(Tail(s)) => Confirms(s)
         /\ s[1].type = "transport" => s[1].on = (r # None)
         /\ s[1].type = "loaded" => e /\ ~s[1].on
<1> DEFINE t == Tail(s)
<1>1. /\ t \in Seq(Notice) /\ Len(s) \in Nat \ {0} /\ Len(t) = Len(s) - 1
      /\ s[1] \in Notice /\ \A i \in 1 .. Len(s) - 1 : t[i] = s[i + 1]
  BY TailFacts, Zenon
<1> HIDE DEF t
<1>2. \A i \in 1 .. Len(t) : i + 1 \in 1 .. Len(s) /\ t[i] = s[i + 1]
  BY <1>1
<1>3. 1 \in 1 .. Len(s)
  BY <1>1
<1>4. ConfirmsOnly(t, r) /\ (s[1].type = "transport" => s[1].on = (r # None))
  BY <1>2, <1>3 DEF ConfirmsOnly
<1>5. ReportsLoaded(t, e) /\ (s[1].type = "loaded" => e /\ ~s[1].on)
  BY <1>2, <1>3, Zenon DEF ReportsLoaded
<1>6. Confirms(t) => Confirms(s)
  BY <1>2, Zenon DEF Confirms
<1>7. QED
  BY <1>1, <1>4, <1>5, <1>6, Zenon DEF t

LEMMA TellNotice ==
  ASSUME NEW s \in Seq(Notice), NEW x \in Notice, NEW r, NEW e,
         ConfirmsOnly(s, r), ReportsLoaded(s, e),
         x.type = "transport" => x.on = (r # None),
         x.type = "loaded" => e /\ ~x.on
  PROVE  /\ Append(s, x) \in Seq(Notice)
         /\ ConfirmsOnly(Append(s, x), r) /\ ReportsLoaded(Append(s, x), e)
         /\ x.type # "transport" => (Confirms(Append(s, x)) <=> Confirms(s))
<1> DEFINE t == Append(s, x)
<1>1. /\ t \in Seq(Notice) /\ Len(s) \in Nat /\ Len(t) = Len(s) + 1
      /\ t[Len(s) + 1] = x /\ \A i \in 1 .. Len(s) : t[i] = s[i]
  BY AppendFacts
<1> HIDE DEF t
<1>2. \A i \in 1 .. Len(t) : t[i] = x \/ (i \in 1 .. Len(s) /\ t[i] = s[i])
  BY <1>1
<1>3. \A i \in 1 .. Len(s) : i \in 1 .. Len(t)
  BY <1>1
<1>4. ConfirmsOnly(t, r)
  BY <1>2, Zenon DEF ConfirmsOnly
<1>5. ReportsLoaded(t, e)
  BY <1>2, Zenon DEF ReportsLoaded
<1>6. x.type # "transport" => (Confirms(t) <=> Confirms(s))
  BY <1>1, <1>2, <1>3, Zenon DEF Confirms
<1>7. QED
  BY <1>1, <1>4, <1>5, <1>6, Zenon DEF t

-----------------------------------------------------------------------------

LEMMA UiInitInv == UiInit => UiInv
<1> SUFFICES ASSUME UiInit PROVE UiInv
  BY Zenon
<1>1. <<>> \in Seq(Command) /\ <<>> \in Seq(Notice) /\ Len(<<>>) = 0
  BY EmptySeq, Zenon
<1>2. \A i \in 1 .. Len(<<>>) : FALSE
  BY <1>1
<1>3. UiTypeOK
  BY UiAssumption DEF UiInit, UiTypeOK, None
<1>4. QueuesOK
  BY <1>1, <1>2, Zenon DEF UiInit, QueuesOK, RunsLoaded, ReportsLoaded
<1>5. RunFollows /\ RingFollows
  BY <1>2, Zenon DEF UiInit, RunFollows, WillBelieve, RingFollows, Carries, CarriesOnly, ConfirmsOnly
<1>6. QED BY <1>3, <1>4, <1>5, Zenon DEF UiInv

\* Two messages posted one after the other.
LEMMA PostTwo ==
  ASSUME NEW S, NEW s \in Seq(S), NEW x \in S, NEW y \in S
  PROVE  s \o <<x, y>> = Append(Append(s, x), y)
<1>1. /\ s \o <<x>> = Append(s, x) /\ Append(s, x) \in Seq(S)
      /\ Append(s, x) \o <<y>> = Append(Append(s, x), y)
  BY AppendIsConcat, AppendProperties, Zenon
<1>2. <<x>> \in Seq(S) /\ <<y>> \in Seq(S) /\ <<x>> \o <<y>> = <<x, y>>
  <2>1. <<x>> \in Seq(S) /\ <<y>> \in Seq(S)
    OBVIOUS
  <2>2. <<x>> \o <<y>> = Append(<<x>>, y)
    BY <2>1, AppendIsConcat, Zenon
  <2>3. <<x, y>> \in Seq(S) /\ Append(<<x>>, y) \in Seq(S)
        /\ Len(<<x, y>>) = 2 /\ Len(Append(<<x>>, y)) = 2
    BY <2>1, AppendProperties
  <2>4. \A i \in 1 .. 2 : <<x, y>>[i] = Append(<<x>>, y)[i]
    BY <2>1, AppendProperties
  <2>5. Append(<<x>>, y) = <<x, y>>
    BY <2>3, <2>4, SeqEqual, Zenon
  <2>6. QED BY <2>1, <2>2, <2>5, Zenon
<1>3. (s \o <<x>>) \o <<y>> = s \o (<<x>> \o <<y>>)
  BY <1>2, ConcatAssociative
<1>4. QED BY <1>1, <1>2, <1>3, Zenon

LEMMA RunKept ==
  ASSUME UiInv, ClickRun
  PROVE  UiInv'
<1> USE DEF UiInv
<1>1. workerLoaded /\ workerRunning' = TRUE
      /\ UNCHANGED <<workerLoaded, sabRings, engineMode, made, emu, running, rings, engine, toUi>>
  BY Zenon DEF ClickRun, worker
<1>2. UiTypeOK'
  BY <1>1, Zenon DEF UiTypeOK
<1>3. emu /\ toWorker \in Seq(Command)
  BY <1>1, Zenon DEF UiTypeOK, QueuesOK
<1>4. runOn' \in BOOLEAN /\ stopOn' \in BOOLEAN
  BY Zenon DEF ClickRun
<1>5. CASE workerRunning
  <2>1. UNCHANGED <<toWorker, workerRunning>>
    BY <1>1, <1>5, Zenon DEF ClickRun, QueuesOK
  <2>2. QueuesOK'
    BY <1>1, <1>4, <2>1, Zenon DEF QueuesOK
  <2>3. QED BY <1>1, <1>2, <2>1, <2>2, Zenon DEF RunFollows, RingFollows
<1>6. CASE ~workerRunning
  <2> DEFINE x == Msg("run", None)
  <2>1. x \in Command /\ x.cmd = "run"
    BY UiAssumption DEF Msg, Command, None, Orders
  <2>2. toWorker' = Append(toWorker, x)
    BY <1>3, <1>6, <2>1, PostFacts, Zenon DEF ClickRun, Post
  <2> HIDE DEF x
  <2>3. /\ toWorker' \in Seq(Command) /\ RunsLoaded(toWorker', emu) /\ Ordered(toWorker')
        /\ Carries(toWorker') <=> Carries(toWorker)
        /\ CarriesOnly(toWorker', sabRings)
    BY <1>3, <2>1, <2>2, PostCommand, Zenon DEF QueuesOK, RingFollows, Orders
  <2>4. QueuesOK'
    BY <1>1, <1>4, <2>3, Zenon DEF QueuesOK
  <2>5. QED BY <1>1, <1>2, <2>3, <2>4, Zenon DEF RunFollows, RingFollows
<1>7. QED BY <1>5, <1>6, Zenon

LEMMA StopKept ==
  ASSUME UiInv, ClickStop
  PROVE  UiInv'
<1> USE DEF UiInv
<1> DEFINE x == Msg("stop", None)
<1>1. /\ workerRunning' = FALSE /\ runOn' \in BOOLEAN /\ stopOn' \in BOOLEAN
      /\ UNCHANGED <<workerLoaded, sabRings, engineMode, made, emu, running, rings, engine, toUi>>
  BY Zenon DEF ClickStop, worker
<1>2. UiTypeOK' /\ toWorker \in Seq(Command)
  BY <1>1, Zenon DEF UiTypeOK, QueuesOK
<1>3. x \in Command /\ x.cmd = "stop"
  BY UiAssumption DEF Msg, Command, None, Orders
<1>4. toWorker' = Append(toWorker, x)
  BY <1>2, <1>3, PostFacts, Zenon DEF ClickStop, Post
<1> HIDE DEF x
<1>5. /\ toWorker' \in Seq(Command) /\ RunsLoaded(toWorker', emu) /\ Ordered(toWorker')
      /\ Carries(toWorker') <=> Carries(toWorker)
      /\ CarriesOnly(toWorker', sabRings)
  BY <1>2, <1>3, <1>4, PostCommand, Zenon DEF QueuesOK, RingFollows, Orders
<1>6. QueuesOK'
  BY <1>1, <1>5, Zenon DEF QueuesOK
<1>7. QED BY <1>1, <1>2, <1>5, <1>6, Zenon DEF RunFollows, RingFollows

LEMMA ResetKept ==
  ASSUME UiInv, ClickReset
  PROVE  UiInv'
<1> USE DEF UiInv
<1> DEFINE x == Msg("reset", None)
<1>1. UNCHANGED <<workerLoaded, workerRunning, sabRings, engineMode, runOn, stopOn, made,
                  emu, running, rings, engine, toUi>>
  BY Zenon DEF ClickReset, worker, ui
<1>2. UiTypeOK' /\ toWorker \in Seq(Command)
  BY <1>1, Zenon DEF UiTypeOK, QueuesOK
<1>3. x \in Command /\ x.cmd = "reset"
  BY UiAssumption DEF Msg, Command, None, Orders
<1>4. toWorker' = Append(toWorker, x)
  BY <1>2, <1>3, PostFacts, Zenon DEF ClickReset, Post
<1> HIDE DEF x
<1>5. /\ toWorker' \in Seq(Command) /\ RunsLoaded(toWorker', emu)
      /\ Ordered(toWorker) => Ordered(toWorker')
      /\ Carries(toWorker') <=> Carries(toWorker)
      /\ CarriesOnly(toWorker', sabRings)
  BY <1>2, <1>3, <1>4, PostCommand, Zenon DEF QueuesOK, RingFollows
<1>6. QueuesOK'
  BY <1>1, <1>5, Zenon DEF QueuesOK
<1>7. QED BY <1>1, <1>2, <1>5, <1>6, Zenon DEF RunFollows, RingFollows

LEMMA LoadKept ==
  ASSUME UiInv, LoadFlash
  PROVE  UiInv'
<1> USE DEF UiInv
<1> DEFINE x == Msg("stop", None)
           y == Msg("load", None)
           s == Append(toWorker, x)
<1>1. /\ workerRunning' = FALSE /\ runOn' \in BOOLEAN /\ stopOn' \in BOOLEAN
      /\ UNCHANGED <<workerLoaded, sabRings, engineMode, made, emu, running, rings, engine, toUi>>
  BY Zenon DEF LoadFlash, worker
<1>2. UiTypeOK' /\ toWorker \in Seq(Command)
  BY <1>1, Zenon DEF UiTypeOK, QueuesOK
<1>3. x \in Command /\ x.cmd = "stop" /\ y \in Command /\ y.cmd = "load"
  BY UiAssumption DEF Msg, Command, None, Orders
<1>4. toWorker' = Append(s, y)
  BY <1>2, <1>3, PostTwo DEF LoadFlash, Post
<1> HIDE DEF x, y
<1>5. /\ s \in Seq(Command) /\ RunsLoaded(s, emu) /\ CarriesOnly(s, sabRings)
      /\ Carries(s) <=> Carries(toWorker)
  BY <1>2, <1>3, PostCommand, Zenon DEF QueuesOK, RingFollows
<1> HIDE DEF s
<1>6. /\ toWorker' \in Seq(Command) /\ RunsLoaded(toWorker', emu) /\ Ordered(toWorker')
      /\ Carries(toWorker') <=> Carries(toWorker)
      /\ CarriesOnly(toWorker', sabRings)
  BY <1>3, <1>4, <1>5, PostCommand, Zenon DEF Orders
<1>7. QueuesOK'
  BY <1>1, <1>6, Zenon DEF QueuesOK
<1>8. QED BY <1>1, <1>2, <1>6, <1>7, Zenon DEF RunFollows, RingFollows

LEMMA EngineKept ==
  ASSUME UiInv, SelectEngine
  PROVE  UiInv'
<1> USE DEF UiInv
<1> DEFINE x == Msg("engine", engineMode')
<1>1. /\ engineMode' \in {"single", "dual"}
      /\ UNCHANGED <<workerLoaded, workerRunning, sabRings, runOn, stopOn, made,
                     emu, running, rings, engine, toUi>>
  BY Zenon DEF SelectEngine, worker
<1>2. UiTypeOK' /\ toWorker \in Seq(Command)
  BY <1>1, Zenon DEF UiTypeOK, QueuesOK
<1>3. x \in Command /\ x.cmd = "engine"
  BY <1>1, Zenon DEF Msg, Command
<1>4. toWorker' = Append(toWorker, x)
  BY <1>2, <1>3, PostFacts, Zenon DEF SelectEngine, Post
<1> HIDE DEF x
<1>5. /\ toWorker' \in Seq(Command) /\ RunsLoaded(toWorker', emu)
      /\ Ordered(toWorker) => Ordered(toWorker')
      /\ Carries(toWorker') <=> Carries(toWorker)
      /\ CarriesOnly(toWorker', sabRings)
  BY <1>2, <1>3, <1>4, PostCommand, Zenon DEF QueuesOK, RingFollows
<1>6. QueuesOK'
  BY <1>1, <1>5, Zenon DEF QueuesOK
<1>7. QED BY <1>1, <1>2, <1>5, <1>6, Zenon DEF RunFollows, RingFollows

\* The UI moves to its new ring before the worker does; no answer about an
\* earlier ring is under way that could make it leave the new one.
LEMMA TransportKept ==
  ASSUME ~Hasty, UiInv, SelectTransport
  PROVE  UiInv'
<1> USE DEF UiInv
<1> DEFINE x == Msg("transport", sabRings')
<1>1. UNCHANGED <<workerLoaded, workerRunning, engineMode, runOn, stopOn,
                  emu, running, rings, engine, toUi>>
  BY Zenon DEF SelectTransport, worker
<1>2. /\ made' \in 0 .. MaxRing /\ made <= made' /\ sabRings' \in 0 .. made'
      /\ made \in Nat /\ MaxRing \in Nat
  BY UiAssumption DEF SelectTransport, UiTypeOK, None
<1>3. UiTypeOK' /\ toWorker \in Seq(Command) /\ sabRings' \in 0 .. MaxRing
  BY <1>1, <1>2 DEF UiTypeOK, QueuesOK
<1>4. ~Carries(toWorker) /\ ~Confirms(toUi)
  BY Zenon DEF SelectTransport, Switching, Carries, Confirms
<1>5. x \in Command /\ x.cmd = "transport" /\ x.arg = sabRings'
  BY <1>3, Zenon DEF Msg, Command
<1>6. toWorker' = Append(toWorker, x)
  BY <1>3, <1>5, PostFacts, Zenon DEF SelectTransport, Post
<1> HIDE DEF x
<1>7. /\ toWorker' \in Seq(Command) /\ RunsLoaded(toWorker', emu)
      /\ Ordered(toWorker) => Ordered(toWorker')
      /\ Carries(toWorker')
      /\ CarriesOnly(toWorker', sabRings')
  BY <1>3, <1>4, <1>5, <1>6, PostCommand, Zenon DEF QueuesOK, RingFollows
<1>8. QueuesOK'
  BY <1>1, <1>7, Zenon DEF QueuesOK
<1>9. ConfirmsOnly(toUi, sabRings')
  BY <1>4, Zenon DEF Confirms, ConfirmsOnly
<1>10. QED BY <1>1, <1>3, <1>4, <1>7, <1>8, <1>9, Zenon DEF RunFollows, RingFollows

-----------------------------------------------------------------------------
(* The worker's handlers                                                   *)

\* What a handler of c may rely on, and what is left of the queue after it.
LEMMA Received ==
  ASSUME UiInv, NEW c, Receive(c)
  PROVE  /\ toWorker[1] \in Command /\ toWorker[1].cmd = c
         /\ toWorker' \in Seq(Command)
         /\ CarriesOnly(toWorker', sabRings) /\ RunsLoaded(toWorker', emu)
         /\ Carries(toWorker') => Carries(toWorker)
         /\ c = "transport" => ~Carries(toWorker') /\ Carries(toWorker)
                               /\ toWorker[1].arg = sabRings
         /\ c # "transport" => (Carries(toWorker) => Carries(toWorker'))
         /\ c \notin Orders => (Ordered(toWorker) => Ordered(toWorker'))
         /\ c = "run" => emu
<1>1. /\ toWorker \in Seq(Command) /\ CarriesOnly(toWorker, sabRings)
      /\ RunsLoaded(toWorker, emu)
  BY Zenon DEF UiInv, QueuesOK, RingFollows
<1>2. toWorker # <<>> /\ toWorker[1].cmd = c /\ toWorker' = Tail(toWorker)
  BY Zenon DEF Receive
<1>3. QED BY <1>1, <1>2, TakeCommand

\* An answer about running that fits the worker's new state.
LEMMA Answered ==
  ASSUME UiInv, NEW t \in Answers, NEW v \in BOOLEAN, NEW e, emu => e,
         t = "loaded" => e /\ ~v, e \in BOOLEAN, Reply(t, v)
  PROVE  /\ toUi' \in Seq(Notice) /\ WillBelieve(toUi', workerRunning, v)
         /\ ConfirmsOnly(toUi', sabRings) /\ ReportsLoaded(toUi', e)
         /\ Confirms(toUi') <=> Confirms(toUi)
<1> DEFINE x == [type |-> t, on |-> v]
<1>1. /\ x \in Notice /\ x.type = t /\ x.on = v /\ t # "transport"
  BY Zenon DEF Notice, Answers
<1>2. toUi' = Append(toUi, x)
  BY Zenon DEF Reply
<1> HIDE DEF x
<1>3. toUi \in Seq(Notice) /\ ConfirmsOnly(toUi, sabRings) /\ ReportsLoaded(toUi, e)
  BY Zenon DEF UiInv, QueuesOK, RingFollows, ReportsLoaded
<1>4. WillBelieve(toUi', workerRunning, v)
  BY <1>1, <1>2, <1>3, TellAnswer, Zenon
<1>5. QED BY <1>1, <1>2, <1>3, <1>4, TellNotice, Zenon

\* A machine (re)built by the worker: no loop runs, and the UI will hear so.
LEMMA BuiltKept ==
  ASSUME UiInv, NEW c, Receive(c), c # "transport", DoLoad, UNCHANGED ui
  PROVE  UiInv'
<1> USE DEF UiInv
<1>1. /\ emu' = TRUE /\ running' = FALSE
      /\ UNCHANGED <<workerLoaded, workerRunning, sabRings, engineMode, runOn, stopOn, made, rings>>
  BY Zenon DEF DoLoad, ui
<1>2. UiTypeOK'
  BY <1>1, Zenon DEF UiTypeOK
<1>3. /\ toWorker' \in Seq(Command) /\ CarriesOnly(toWorker', sabRings)
      /\ Carries(toWorker') <=> Carries(toWorker)
  BY Received, Zenon
<1>4. Reply("loaded", FALSE)
  BY Zenon DEF DoLoad
<1>5. /\ toUi' \in Seq(Notice) /\ WillBelieve(toUi', workerRunning, FALSE)
      /\ ConfirmsOnly(toUi', sabRings) /\ ReportsLoaded(toUi', TRUE)
      /\ Confirms(toUi') <=> Confirms(toUi)
  BY <1>4, Answered, Zenon DEF Answers
<1>6. RunsLoaded(toWorker', TRUE)
  BY Zenon DEF RunsLoaded
<1>7. QueuesOK'
  BY <1>1, <1>3, <1>5, <1>6, Zenon DEF QueuesOK
<1>8. QED BY <1>1, <1>2, <1>3, <1>5, <1>7, Zenon DEF RunFollows, RingFollows

\* A command that leaves the machine alone and is not answered.
LEMMA IgnoredKept ==
  ASSUME UiInv, NEW c, Receive(c), c # "transport", c \notin Orders,
         UNCHANGED <<ui, emu, running, rings, toUi>>
  PROVE  UiInv'
<1> USE DEF UiInv
<1>1. UNCHANGED <<workerLoaded, workerRunning, sabRings, engineMode, runOn, stopOn, made,
                  emu, running, rings, toUi>>
  BY Zenon DEF ui
<1>2. UiTypeOK'
  BY <1>1 DEF UiTypeOK
<1>3. /\ toWorker' \in Seq(Command) /\ CarriesOnly(toWorker', sabRings)
      /\ RunsLoaded(toWorker', emu)
      /\ Carries(toWorker') <=> Carries(toWorker)
      /\ Ordered(toWorker) => Ordered(toWorker')
  BY Received, Zenon
<1>4. QueuesOK'
  BY <1>1, <1>3, Zenon DEF QueuesOK
<1>5. QED BY <1>1, <1>2, <1>3, <1>4, Zenon DEF RunFollows, RingFollows

\* A run or a stop, answered with the loop's new state.
LEMMA SwitchedKept ==
  ASSUME UiInv, NEW c, Receive(c), c # "transport", NEW v \in BOOLEAN, v => emu,
         running' = v, Reply("running", v), UNCHANGED <<ui, emu, rings, engine>>
  PROVE  UiInv'
<1> USE DEF UiInv
<1>1. UNCHANGED <<workerLoaded, workerRunning, sabRings, engineMode, runOn, stopOn, made,
                  emu, rings, engine>>
  BY Zenon DEF ui
<1>2. UiTypeOK' /\ emu \in BOOLEAN
  BY <1>1 DEF UiTypeOK, QueuesOK
<1>3. /\ toWorker' \in Seq(Command) /\ CarriesOnly(toWorker', sabRings)
      /\ RunsLoaded(toWorker', emu)
      /\ Carries(toWorker') <=> Carries(toWorker)
  BY Received, Zenon
<1>4. /\ toUi' \in Seq(Notice) /\ WillBelieve(toUi', workerRunning, v)
      /\ ConfirmsOnly(toUi', sabRings) /\ ReportsLoaded(toUi', emu)
      /\ Confirms(toUi') <=> Confirms(toUi)
  BY <1>2, Answered, Zenon DEF Answers
<1>5. QueuesOK'
  BY <1>1, <1>3, <1>4, Zenon DEF QueuesOK
<1>6. QED BY <1>1, <1>2, <1>3, <1>4, <1>5, Zenon DEF RunFollows, RingFollows

LEMMA OnTransportKept ==
  ASSUME UiInv, OnTransport
  PROVE  UiInv'
<1> USE DEF UiInv
<1> DEFINE x == [type |-> "transport", on |-> sabRings # None]
<1>1. UNCHANGED <<workerLoaded, workerRunning, sabRings, engineMode, runOn, stopOn, made,
                  emu, running, engine>>
  BY Zenon DEF OnTransport, ui
<1>2. Receive("transport")
  BY Zenon DEF OnTransport
<1>3. /\ toWorker' \in Seq(Command) /\ CarriesOnly(toWorker', sabRings)
      /\ RunsLoaded(toWorker', emu) /\ ~Carries(toWorker') /\ toWorker[1].arg = sabRings
      /\ Ordered(toWorker) => Ordered(toWorker')
  BY <1>2, Received, Zenon DEF Orders
<1>4. rings' = sabRings /\ toUi' = Append(toUi, x)
  BY <1>3, Zenon DEF OnTransport, Reply
<1>5. x \in Notice /\ x.type = "transport" /\ x.on = (sabRings # None)
  BY Zenon DEF Notice
<1> HIDE DEF x
<1>6. UiTypeOK'
  BY <1>1, <1>4, Zenon DEF UiTypeOK
<1>7. toUi \in Seq(Notice) /\ ConfirmsOnly(toUi, sabRings) /\ ReportsLoaded(toUi, emu)
  BY Zenon DEF QueuesOK, RingFollows
<1>8. /\ toUi' \in Seq(Notice)
      /\ ConfirmsOnly(toUi', sabRings) /\ ReportsLoaded(toUi', emu)
  BY <1>4, <1>5, <1>7, TellNotice, Zenon
<1>9. WillBelieve(toUi, workerRunning, running) => WillBelieve(toUi', workerRunning, running)
  BY <1>4, <1>5, <1>7, TellOther, Zenon DEF Answers
<1>10. QueuesOK'
  BY <1>1, <1>3, <1>8, Zenon DEF QueuesOK
<1>11. QED BY <1>1, <1>3, <1>4, <1>6, <1>8, <1>9, <1>10, Zenon DEF RunFollows, RingFollows

LEMMA OnMessageKept ==
  ASSUME UiInv, OnMessage
  PROVE  UiInv'
<1>1. emu \in BOOLEAN
  BY Zenon DEF UiInv, QueuesOK
<1>2. CASE OnLoad
  BY <1>2, BuiltKept, Zenon DEF OnLoad
<1>3. CASE OnRun
  <2>1. Receive("run") /\ running' = emu /\ Reply("running", TRUE)
        /\ UNCHANGED <<ui, emu, rings, engine>>
    BY <1>3, Zenon DEF OnRun
  <2>2. emu
    BY <2>1, Received, Zenon
  <2>3. running' = TRUE
    BY <1>1, <2>1, <2>2, Zenon
  <2>4. QED BY <2>1, <2>2, <2>3, SwitchedKept, Zenon
<1>4. CASE OnStop
  <2>1. Receive("stop") /\ running' = FALSE /\ Reply("running", FALSE)
        /\ UNCHANGED <<ui, emu, rings, engine>>
    BY <1>4, Zenon DEF OnStop
  <2>2. QED BY <2>1, SwitchedKept, Zenon
<1>5. CASE OnReset
  <2>1. Receive("reset") /\ Reload /\ UNCHANGED <<ui, engine>>
    BY <1>5, Zenon DEF OnReset
  <2>2. CASE emu
    BY <2>1, <2>2, BuiltKept, Zenon DEF Reload
  <2>3. CASE ~emu
    BY <2>1, <2>3, IgnoredKept, Zenon DEF Reload, Orders
  <2>4. QED BY <2>2, <2>3, Zenon
<1>6. CASE OnEngine
  <2>1. Receive("engine") /\ UNCHANGED ui
        /\ (DoLoad \/ UNCHANGED <<emu, running, rings, toUi>>)
    BY <1>6, Zenon DEF OnEngine, Reload
  <2>2. QED BY <2>1, BuiltKept, IgnoredKept, Zenon DEF Orders
<1>7. CASE OnTransport
  BY <1>7, OnTransportKept, Zenon
<1>8. QED
  BY <1>2, <1>3, <1>4, <1>5, <1>6, <1>7, Zenon DEF OnMessage

-----------------------------------------------------------------------------
(* The UI's handlers                                                       *)

\* What a handler of t may rely on, and what is left of the queue after it.
LEMMA HeardFacts ==
  ASSUME UiInv, NEW t, Heard(t)
  PROVE  /\ toUi[1] \in Notice /\ toUi[1].type = t
         /\ toUi' \in Seq(Notice)
         /\ ConfirmsOnly(toUi', sabRings) /\ ReportsLoaded(toUi', emu)
         /\ Confirms(toUi') => Confirms(toUi)
         /\ t = "transport" => toUi[1].on = (sabRings # None)
         /\ t = "loaded" => emu /\ ~toUi[1].on
         /\ t \in Answers /\ WillBelieve(toUi, workerRunning, running)
              => WillBelieve(toUi', toUi[1].on, running)
         /\ t \notin Answers /\ WillBelieve(toUi, workerRunning, running)
              => WillBelieve(toUi', workerRunning, running)
<1>1. toUi \in Seq(Notice) /\ ConfirmsOnly(toUi, sabRings) /\ ReportsLoaded(toUi, emu)
  BY Zenon DEF UiInv, QueuesOK, RingFollows
<1>2. toUi # <<>> /\ toUi[1].type = t /\ toUi' = Tail(toUi)
  BY Zenon DEF Heard
<1>3. /\ t \in Answers /\ WillBelieve(toUi, workerRunning, running)
           => WillBelieve(toUi', toUi[1].on, running)
      /\ t \notin Answers /\ WillBelieve(toUi, workerRunning, running)
           => WillBelieve(toUi', workerRunning, running)
  BY <1>1, <1>2, HearAnswer, HearOther, Zenon
<1>4. QED BY <1>1, <1>2, <1>3, TakeNotice, Zenon

LEMMA OnWorkerMessageKept ==
  ASSUME UiInv, OnWorkerMessage
  PROVE  UiInv'
<1> USE DEF UiInv
<1>1. CASE HearLoaded
  <2>1. /\ workerLoaded' = TRUE /\ workerRunning' = FALSE /\ runOn' = TRUE /\ stopOn' = FALSE
        /\ Heard("loaded") /\ UNCHANGED <<sabRings, made, emu, running, rings, toWorker>>
    BY <1>1, Zenon DEF HearLoaded, worker
  <2>2. /\ emu /\ toUi[1].on = FALSE
        /\ toUi' \in Seq(Notice) /\ ConfirmsOnly(toUi', sabRings)
        /\ ReportsLoaded(toUi', emu)
        /\ Confirms(toUi') => Confirms(toUi)
        /\ WillBelieve(toUi, workerRunning, running) => WillBelieve(toUi', FALSE, running)
    <3>1. toUi[1] \in Notice /\ ~toUi[1].on
      BY <2>1, HeardFacts, Zenon
    <3>2. toUi[1].on = FALSE
      BY <3>1, Zenon DEF Notice
    <3>3. QED BY <2>1, <3>2, HeardFacts, Zenon DEF Answers
  <2>3. UiTypeOK'
    BY <2>1, <2>2, Zenon DEF UiTypeOK
  <2>4. QueuesOK'
    BY <2>1, <2>2, Zenon DEF QueuesOK
  <2>5. QED BY <2>1, <2>2, <2>3, <2>4, Zenon DEF RunFollows, RingFollows
<1>2. CASE HearRunning
  <2>1. /\ workerRunning' = toUi[1].on /\ Heard("running")
        /\ UNCHANGED <<workerLoaded, sabRings, runOn, stopOn, made, emu, running, rings, toWorker>>
    BY <1>2, Zenon DEF HearRunning, worker
  <2>2. /\ toUi[1] \in Notice
        /\ toUi' \in Seq(Notice) /\ ConfirmsOnly(toUi', sabRings)
        /\ ReportsLoaded(toUi', emu)
        /\ Confirms(toUi') => Confirms(toUi)
        /\ WillBelieve(toUi, workerRunning, running) => WillBelieve(toUi', toUi[1].on, running)
    BY <2>1, HeardFacts, Zenon DEF Answers
  <2>3. UiTypeOK'
    BY <2>1, Zenon DEF UiTypeOK
  <2>4. toUi[1].on \in BOOLEAN
    BY <2>2, Zenon DEF Notice
  <2>5. QueuesOK'
    BY <2>1, <2>2, <2>4, Zenon DEF QueuesOK
  <2>6. QED BY <2>1, <2>2, <2>3, <2>5, Zenon DEF RunFollows, RingFollows
<1>3. CASE HearTransport
  <2>1. /\ sabRings' = IF toUi[1].on THEN sabRings ELSE None
        /\ Heard("transport")
        /\ UNCHANGED <<workerLoaded, workerRunning, runOn, stopOn, made,
                       emu, running, rings, toWorker>>
    BY <1>3, Zenon DEF HearTransport, worker
  <2>2. /\ toUi[1].on = (sabRings # None)
        /\ toUi' \in Seq(Notice) /\ ConfirmsOnly(toUi', sabRings)
        /\ ReportsLoaded(toUi', emu)
        /\ Confirms(toUi') => Confirms(toUi)
        /\ WillBelieve(toUi, workerRunning, running) => WillBelieve(toUi', workerRunning, running)
    BY <2>1, HeardFacts DEF Answers
  <2>3. sabRings' = sabRings
    BY <2>1, <2>2, Zenon
  <2>4. UiTypeOK'
    BY <2>1, <2>3, Zenon DEF UiTypeOK
  <2>5. QueuesOK'
    BY <2>1, <2>2, Zenon DEF QueuesOK
  <2>6. QED BY <2>1, <2>2, <2>3, <2>4, <2>5, Zenon DEF RunFollows, RingFollows
<1>4. QED BY <1>1, <1>2, <1>3, Zenon DEF OnWorkerMessage

-----------------------------------------------------------------------------

LEMMA UiNextInv ==
  ASSUME ~Hasty, UiInv, [UiNext]_uiVars
  PROVE  UiInv'
<1>1. CASE UNCHANGED uiVars
  <2>1. UNCHANGED <<workerLoaded, workerRunning, sabRings, engineMode, runOn, stopOn, made,
                    emu, running, rings, engine, toWorker, toUi>>
    BY <1>1, Zenon DEF uiVars, ui, worker
  <2>2. UiTypeOK' /\ QueuesOK'
    BY <2>1, Zenon DEF UiInv, UiTypeOK, QueuesOK
  <2>3. QED BY <2>1, <2>2, Zenon DEF UiInv, RunFollows, RingFollows
<1>2. QED
  BY <1>1, RunKept, StopKept, ResetKept, LoadKept, EngineKept, TransportKept,
     OnMessageKept, OnWorkerMessageKept, Zenon DEF UiNext

LEMMA UiInvSound == UiInv => UiSound
<1> SUFFICES ASSUME UiInv PROVE UiSound
  BY Zenon
<1>1. UiTypeOK
  BY Zenon DEF UiInv
<1>2. ASSUME Quiet PROVE workerRunning = running /\ sabRings = rings
  <2>1. \A i \in 1 .. Len(<<>>) : FALSE
    BY EmptySeq
  <2>2. toWorker = <<>> /\ toUi = <<>>
    BY <1>2, Zenon DEF Quiet
  <2>3. ~Ordered(toWorker) /\ ~Carries(toWorker)
    BY <2>1, <2>2, Zenon DEF Ordered, Carries
  <2>4. WillBelieve(toUi, workerRunning, running) /\ sabRings = rings
    BY <2>3, Zenon DEF UiInv, RunFollows, RingFollows
  <2>5. QED BY <2>1, <2>2, <2>4, Zenon DEF WillBelieve
<1>3. QED BY <1>1, <1>2, Zenon DEF UiSound, RunAgrees, TransportAgrees

\* The UI (main.js) and the worker (emu-worker.js) agree on the machine's
\* state and on its ring once every message has arrived, however many were
\* under way and however they crossed, when the transport is not switched
\* again before the worker's answer.
THEOREM UiIsSound ==
  ASSUME ~Hasty
  PROVE  UiSpec => []UiSound
<1>1. UiInv /\ [UiNext]_uiVars => UiInv'
  BY UiNextInv, Zenon
<1>2. QED
  BY <1>1, UiInitInv, UiInvSound, PTL DEF UiSpec
=============================================================================
