---------------------------- MODULE SerialProofs ----------------------------
(***************************************************************************)
(* Proofs about the serial peripherals: the UART, the USB Serial/JTAG      *)
(* bridge, the TWAI (CAN) controller and the I2C master.                   *)
(*                                                                         *)
(* Uart is safe for every FIFO depth, set of thresholds and timeout.       *)
(* HeldGoesFirst speaks of flow control that is on; firmware may turn it   *)
(* off and on again between two ticks, so its proof needs the stronger     *)
(* fact that bytes are only ever held while the sampled CTS level says     *)
(* stop (HeldIsStopped).  The bridge is safe for every depth and poll      *)
(* interval, and TWAI's shared buffer for any identifiers and filters.     *)
(*                                                                         *)
(* The I2C master is safe for any depth, number of command registers,      *)
(* lengths and number of supplied bytes.  SendsInOrder says where a list   *)
(* is only while a WRITE is on the bus and once it is over; the invariant  *)
(* has to follow it in between: sent, left of the running WRITE and queued *)
(* add up to all the list was asked to send (Balance), which are sums over *)
(* the queue.  ReadsInOrder speaks of one stream from the device through   *)
(* the bus into the FIFO, which bytes enter at the end and leave at the    *)
(* front or, where the FIFO is full, on the bus; with its range            *)
(* (StreamTyped) it is inductive.                                          *)
(***************************************************************************)
EXTENDS Uart, UsbSerialJtag, Twai, I2c, WellFoundedInduction, TLAPS

-----------------------------------------------------------------------------
(* The UART                                                                *)

\* The specification without fairness, which safety does not need.
UartSpec == UartInit /\ [][UartNext]_uartVars

\* The strengthening: held bytes wait for a CTS level of 0.
HeldIsStopped == hold > 0 => cts = 1

UartIInv == UartTypeOK /\ HeldIsStopped /\ CountIsLength /\ FullSeen

-----------------------------------------------------------------------------

\* The smaller of two numbers.
LEMMA MinPair ==
  ASSUME NEW a \in Nat, NEW b \in Nat
  PROVE  Min({a, b}) = IF a <= b THEN a ELSE b
<1>1. CASE a <= b
  <2> DEFINE P(x) == x \in {a, b} /\ \A y \in {a, b} : x <= y
  <2>1. P(a)
    BY <1>1
  <2>2. \A x : P(x) => x = a
    BY <1>1
  <2>3. Min({a, b}) = a
    BY <2>1, <2>2, Zenon DEF Min
  <2> QED
    BY <2>3, <1>1, Zenon
<1>2. CASE b < a
  <2> DEFINE P(x) == x \in {a, b} /\ \A y \in {a, b} : x <= y
  <2>1. P(b)
    BY <1>2
  <2>2. \A x : P(x) => x = b
    BY <1>2
  <2>3. Min({a, b}) = b
    BY <2>1, <2>2, Zenon DEF Min
  <2> QED
    BY <2>3, <1>2
<1> QED
  BY <1>1, <1>2

RxType == [n : 0 .. FifoDepth, count : 0 .. FifoDepth, idle : 0 .. ToutTicks - 1,
           full : BOOLEAN, tout : BOOLEAN]

\* A transmitted byte is heard at most twice.
LEMMA HeardNat ==
  ASSUME NEW e \in BOOLEAN
  PROVE  Heard(e) \in 0 .. 2
BY DEF Heard

\* inject_rx keeps the FIFO within its depth and its count register true, and
\* raises FULL whenever it adds a byte at or above the threshold.
LEMMA InjectFacts ==
  ASSUME UartTypeOK, NEW k \in Nat
  PROVE  /\ InjectRx(k) \in RxType
         /\ CountIsLength => InjectRx(k).count = InjectRx(k).n
         /\ InjectRx(k) # rx /\ InjectRx(k).n >= AtLeastOne(conf1.thr) => InjectRx(k).full
<1> DEFINE m == Min({rx.n + k, FifoDepth})
<1> DEFINE r == [rx EXCEPT !.n = m, !.count = m, !.idle = 0,
                           !.full = @ \/ m >= AtLeastOne(conf1.thr)]
<1>1. rx \in RxType /\ FifoDepth \in Nat \ {0} /\ ToutTicks \in Nat \ {0}
  BY UartAssumption, Zenon DEF UartTypeOK, RxType
<1>2. rx.n \in Nat
  BY <1>1 DEF RxType
<1>3. m = IF rx.n + k <= FifoDepth THEN rx.n + k ELSE FifoDepth
  BY <1>1, <1>2, MinPair
<1>4. m \in 0 .. FifoDepth
  BY <1>1, <1>2, <1>3
<1> HIDE DEF m
<1>5. r \in RxType /\ r.count = r.n /\ (r.n >= AtLeastOne(conf1.thr) => r.full)
  <2> DEFINE f == rx.full \/ m >= AtLeastOne(conf1.thr)
  <2>1. f \in BOOLEAN /\ 0 \in 0 .. ToutTicks - 1
    BY <1>1
  <2>2. r = [rx EXCEPT !.n = m, !.count = m, !.idle = 0, !.full = f]
    BY Zenon
  <2> HIDE DEF f, r
  <2>3. r \in RxType /\ r.n = m /\ r.count = m /\ r.full = f
    BY <1>1, <1>4, <2>1, <2>2, Zenon DEF RxType
  <2> QED
    BY <2>3, Zenon DEF f
<1>6. InjectRx(k) = IF m = rx.n THEN rx ELSE r
  BY Zenon DEF InjectRx, m
<1> HIDE DEF r
<1>7. CASE m = rx.n
  BY <1>1, <1>6, <1>7, Zenon DEF CountIsLength
<1>8. CASE m # rx.n
  BY <1>5, <1>6, <1>8, Zenon
<1> QED
  BY <1>7, <1>8, Zenon

-----------------------------------------------------------------------------

\* The UART after a reset satisfies the invariant.
LEMMA UartInitIInv == UartInit => UartIInv
<1> SUFFICES ASSUME UartInit PROVE UartIInv
  BY Zenon
<1>1. rx \in RxType /\ rx.n = 0 /\ rx.count = 0
  BY UartAssumption DEF UartInit, RxType
<1>2. conf1 \in [thr : Threshold, tout : BOOLEAN]
  BY UartAssumption, Zenon DEF UartInit
<1>3. UartTypeOK
  <2>1. {flow, brk, loop, echo, uartClk, uartQuiet, fullAck} \subseteq BOOLEAN
    BY Zenon DEF UartInit
  <2>2. cts \in {0, 1} /\ hold \in 0 .. FifoDepth
    BY UartAssumption DEF UartInit
  <2> QED
    BY <1>1, <1>2, <2>1, <2>2, Zenon DEF UartTypeOK, RxType
<1>4. HeldIsStopped /\ CountIsLength
  BY <1>1, Zenon DEF UartInit, HeldIsStopped, CountIsLength
<1>5. FullSeen
  <2>1. conf1.thr \in Nat
    BY <1>2, UartAssumption, Zenon
  <2> QED
    BY <1>1, <2>1 DEF FullSeen, AtLeastOne
<1> QED
  BY <1>3, <1>4, <1>5, Zenon DEF UartIInv

\* What a step must show: the part of the invariant that rx, conf1, hold, cts
\* and fullAck can disturb.
LEMMA UartKeepsIInv ==
  ASSUME UartIInv,
         {flow', brk', loop', echo', uartClk', uartQuiet', fullAck'} \subseteq BOOLEAN,
         conf1' \in [thr : Threshold, tout : BOOLEAN],
         cts' \in {0, 1}, hold' \in 0 .. FifoDepth, hold' > 0 => cts' = 1,
         rx' \in RxType, rx'.count = rx'.n,
         rx'.n >= AtLeastOne(conf1'.thr) => rx'.full \/ fullAck'
  PROVE  UartIInv'
BY Zenon DEF UartIInv, UartTypeOK, HeldIsStopped, CountIsLength, FullSeen, RxType, AtLeastOne

\* Every step preserves the invariant.
LEMMA UartNextIInv == UartIInv /\ [UartNext]_uartVars => UartIInv'
<1> SUFFICES ASSUME UartIInv, [UartNext]_uartVars PROVE UartIInv'
  BY Zenon
<1>1. /\ UartTypeOK /\ rx \in RxType /\ rx.count = rx.n
      /\ hold > 0 => cts = 1
      /\ rx.n >= AtLeastOne(conf1.thr) => rx.full \/ fullAck
  BY Zenon DEF UartIInv, UartTypeOK, RxType, HeldIsStopped, CountIsLength, FullSeen
<1>2. /\ {flow, brk, loop, echo, uartClk, uartQuiet, fullAck} \subseteq BOOLEAN
      /\ conf1 \in [thr : Threshold, tout : BOOLEAN]
      /\ cts \in {0, 1} /\ hold \in 0 .. FifoDepth
  BY <1>1, Zenon DEF UartTypeOK
<1>3. FifoDepth \in Nat \ {0} /\ ToutTicks \in Nat \ {0} /\ rx.n \in 0 .. FifoDepth
  BY <1>1, UartAssumption, Zenon DEF RxType
<1>4. CASE HostInject
  <2>1. rx' = InjectRx(1) /\ fullAck' = (fullAck /\ rx'.full = rx.full)
    BY <1>4, Zenon DEF HostInject, Ack
  <2>2. UNCHANGED <<flow, brk, loop, echo, conf1, uartClk, uartQuiet, cts, hold>>
    BY <1>4, Zenon DEF HostInject, uartConf
  <2>3. /\ rx' \in RxType /\ rx'.count = rx'.n
        /\ rx'.n >= AtLeastOne(conf1.thr) => rx'.full \/ (fullAck /\ rx'.full = rx.full)
    BY <1>1, <2>1, InjectFacts, Zenon DEF CountIsLength
  <2> QED
    BY <1>1, <1>2, <2>1, <2>2, <2>3, UartKeepsIInv, Zenon
<1>5. CASE ReadFifo
  <2>1. /\ rx' = [rx EXCEPT !.n = rx.n - 1, !.count = rx.n - 1, !.full = rx.full /\ rx.n > 1]
        /\ rx.n > 0 /\ fullAck' = (fullAck /\ rx.n > 1)
    BY <1>5, Zenon DEF ReadFifo
  <2>2. UNCHANGED <<flow, brk, loop, echo, conf1, uartClk, uartQuiet, cts, hold>>
    BY <1>5, Zenon DEF ReadFifo, uartConf
  <2>3. rx' \in RxType /\ rx'.count = rx'.n /\ rx'.n = rx.n - 1
    <3>1. rx.n - 1 \in 0 .. FifoDepth
      BY <1>3, <2>1
    <3> QED
      BY <1>1, <2>1, <3>1, Zenon DEF RxType
  <2>4. conf1.thr \in Nat
    BY <1>2, UartAssumption, Zenon
  <2>5. rx'.n >= AtLeastOne(conf1.thr) => rx.n > 1 /\ rx.n >= AtLeastOne(conf1.thr)
    BY <1>3, <2>3, <2>4 DEF AtLeastOne
  <2>6. rx'.full = (rx.full /\ rx.n > 1)
    BY <1>1, <2>1, Zenon DEF RxType
  <2> QED
    BY <1>1, <1>2, <2>1, <2>2, <2>3, <2>5, <2>6, UartKeepsIInv, ZenonT(60)
<1>6. CASE TakeRx
  <2>1. PICK k \in 1 .. rx.n : rx' = [rx EXCEPT !.n = rx.n - k, !.count = rx.n - k]
    BY <1>6, Zenon DEF TakeRx
  <2>2. UNCHANGED <<flow, brk, loop, echo, conf1, uartClk, uartQuiet, cts, hold, fullAck>>
    BY <1>6, Zenon DEF TakeRx, uartConf
  <2>3. rx' \in RxType /\ rx'.count = rx'.n /\ rx'.n = rx.n - k /\ rx'.full = rx.full
    <3>1. rx.n - k \in 0 .. FifoDepth
      BY <1>3
    <3> QED
      BY <1>1, <2>1, <3>1, Zenon DEF RxType
  <2>4. conf1.thr \in Nat
    BY <1>2, UartAssumption, Zenon
  <2>5. rx'.n >= AtLeastOne(conf1.thr) => rx.n >= AtLeastOne(conf1.thr)
    BY <1>3, <2>3, <2>4 DEF AtLeastOne
  <2> QED
    BY <1>1, <1>2, <2>2, <2>3, <2>5, UartKeepsIInv, Zenon
<1>7. CASE WriteFifo
  <2>1. UNCHANGED <<flow, brk, loop, echo, conf1, uartClk, uartQuiet, cts>>
    BY <1>7, Zenon DEF WriteFifo, uartConf
  <2>2. CASE CanTx(cts)
    <3>1. /\ rx' = InjectRx(Heard(echo)) /\ fullAck' = (fullAck /\ rx'.full = rx.full)
          /\ hold' = hold
      BY <1>7, <2>2, Zenon DEF WriteFifo, Ack
    <3>2. Heard(echo) \in Nat
      BY <1>2, HeardNat
    <3>3. /\ rx' \in RxType /\ rx'.count = rx'.n
          /\ rx'.n >= AtLeastOne(conf1.thr) => rx'.full \/ (fullAck /\ rx'.full = rx.full)
      BY <1>1, <3>1, <3>2, InjectFacts, Zenon DEF CountIsLength
    <3> QED
      BY <1>1, <1>2, <2>1, <3>1, <3>3, UartKeepsIInv, Zenon
  <2>3. CASE ~CanTx(cts)
    <3>1. hold' = Min({hold + 1, FifoDepth}) /\ UNCHANGED <<rx, fullAck>>
      BY <1>7, <2>3, Zenon DEF WriteFifo
    <3>2. hold' \in 0 .. FifoDepth
      BY <1>2, <1>3, <3>1, MinPair
    <3>3. cts = 1
      BY <1>2, <2>3, Zenon DEF CanTx
    <3> QED
      BY <1>1, <1>2, <2>1, <3>1, <3>2, <3>3, UartKeepsIInv, Zenon
  <2> QED
    BY <2>2, <2>3, Zenon
<1>8. CASE WriteConf0
  BY <1>1, <1>2, <1>8, UartKeepsIInv, Zenon DEF WriteConf0
<1>9. CASE WriteRs485
  BY <1>1, <1>2, <1>9, UartKeepsIInv, Zenon DEF WriteRs485
<1>10. CASE WriteConf1
  <2> DEFINE reached == rx.n >= AtLeastOne(conf1'.thr)
  <2>1. /\ conf1' \in [thr : Threshold, tout : BOOLEAN]
        /\ rx' = [rx EXCEPT !.full = rx.full \/ reached]
        /\ fullAck' = (fullAck /\ ~reached)
    BY <1>10, Zenon DEF WriteConf1
  <2>2. UNCHANGED <<flow, brk, loop, echo, uartClk, uartQuiet, cts, hold>>
    BY <1>10, Zenon DEF WriteConf1
  <2>3. /\ rx' \in RxType /\ rx'.count = rx.count /\ rx'.n = rx.n
        /\ rx'.full = (rx.full \/ reached)
    BY <1>1, <2>1, Zenon DEF RxType
  <2> QED
    BY <1>1, <1>2, <2>1, <2>2, <2>3, UartKeepsIInv, Zenon
<1>11. CASE UartIntClr
  <2>1. PICK f \in BOOLEAN, t \in BOOLEAN :
          /\ rx' = [rx EXCEPT !.full = rx.full /\ ~f, !.tout = rx.tout /\ ~t]
          /\ fullAck' = (fullAck \/ (f /\ rx.full))
    BY <1>11, Zenon DEF UartIntClr
  <2>2. UNCHANGED <<flow, brk, loop, echo, conf1, uartClk, uartQuiet, cts, hold>>
    BY <1>11, Zenon DEF UartIntClr, uartConf
  <2>3. /\ rx' \in RxType /\ rx'.count = rx.count /\ rx'.n = rx.n
        /\ rx'.full = (rx.full /\ ~f)
    BY <1>1, <2>1, Zenon DEF RxType
  <2> QED
    BY <1>1, <1>2, <2>1, <2>2, <2>3, UartKeepsIInv, ZenonT(60)
<1>12. CASE UartClockGate
  BY <1>1, <1>2, <1>12, UartKeepsIInv, Zenon DEF UartClockGate
<1>13. CASE UartLeave
  BY <1>1, <1>2, <1>13, UartKeepsIInv, Zenon DEF UartLeave
<1>14. CASE UartTick
  <2> DEFINE flush(level) == Flushes(level)
             r(level) == IF flush(level) THEN InjectRx(hold * Heard(echo /\ ~brk)) ELSE rx
             count(level) == uartClk /\ r(level).n > 0 /\ conf1.tout
             late(level) == count(level) /\ r(level).idle + 1 >= ToutTicks
  <2>1. PICK level \in {0, 1} :
          /\ cts' = level
          /\ hold' = IF flush(level) THEN 0 ELSE hold
          /\ rx' = [r(level) EXCEPT
                      !.tout = r(level).tout \/ late(level),
                      !.idle = IF late(level) THEN 0
                               ELSE IF count(level) THEN r(level).idle + 1
                               ELSE r(level).idle]
          /\ fullAck' = (fullAck /\ rx'.full = rx.full)
    BY <1>14, Zenon DEF UartTick, Ack
  <2>2. UNCHANGED <<flow, brk, loop, echo, conf1, uartClk, uartQuiet>>
    BY <1>14, Zenon DEF UartTick, uartConf
  <2> DEFINE s == r(level)
             i == IF late(level) THEN 0 ELSE IF count(level) THEN s.idle + 1 ELSE s.idle
             t == s.tout \/ late(level)
  <2>3. hold * Heard(echo /\ ~brk) \in Nat
    <3>1. Heard(echo /\ ~brk) \in 0 .. 2
      BY <1>2, HeardNat, Zenon
    <3> QED
      BY <1>2, <1>3, <3>1
  <2>4. /\ s \in RxType /\ s.count = s.n
        /\ s.n >= AtLeastOne(conf1.thr) => s.full \/ (fullAck /\ s.full = rx.full)
    BY <1>1, <2>3, InjectFacts, Zenon DEF CountIsLength
  <2>5. i \in 0 .. ToutTicks - 1 /\ t \in BOOLEAN
    <3>1. s.idle \in 0 .. ToutTicks - 1
      BY <2>4, Zenon DEF RxType
    <3> HIDE DEF r
    <3> QED
      BY <1>3, <3>1
  <2>6. rx' = [s EXCEPT !.tout = t, !.idle = i]
    BY <2>1, Zenon
  <2> HIDE DEF s, i, t
  <2>7. rx' \in RxType /\ rx'.n = s.n /\ rx'.count = s.count /\ rx'.full = s.full
    BY <2>4, <2>5, <2>6, Zenon DEF RxType
  <2>8. hold' \in 0 .. FifoDepth /\ (hold' > 0 => cts' = 1) /\ cts' \in {0, 1}
    BY <1>1, <1>2, <1>3, <2>1 DEF Flushes
  <2> QED
    BY <1>1, <1>2, <2>1, <2>2, <2>4, <2>7, <2>8, UartKeepsIInv, SMTT(60)
<1>15. CASE UNCHANGED uartVars
  BY <1>1, <1>2, <1>15, UartKeepsIInv, Zenon DEF uartVars, uartConf
<1> QED
  BY <1>4, <1>5, <1>6, <1>7, <1>8, <1>9, <1>10, <1>11, <1>12, <1>13, <1>14, <1>15, Zenon DEF UartNext

\* The invariant holds in every reachable state.
THEOREM UartInvariant == UartSpec => []UartIInv
BY UartInitIInv, UartNextIInv, PTL DEF UartSpec

\* Both FIFOs stay within their depth and the registers within their fields,
\* for every depth, set of thresholds and timeout.
THEOREM UartTypes == UartSpec => []UartTypeOK
<1>1. UartIInv => UartTypeOK
  BY Zenon DEF UartIInv
<1> QED
  BY <1>1, UartInvariant, PTL

\* With flow control on, a byte that write32 may send at once never overtakes
\* one waiting in tx_hold.
THEOREM UartHeldGoesFirst == UartSpec => []HeldGoesFirst
<1>1. UartIInv => HeldGoesFirst
  BY UartAssumption DEF UartIInv, HeldIsStopped, HeldGoesFirst, CanTx, UartTypeOK
<1> QED
  BY <1>1, UartInvariant, PTL

\* STATUS always counts the bytes in the RX FIFO.
THEOREM UartCountIsLength == UartSpec => []CountIsLength
<1>1. UartIInv => CountIsLength
  BY Zenon DEF UartIInv
<1> QED
  BY <1>1, UartInvariant, PTL

\* A FIFO at its threshold has raised FULL, unless firmware cleared it since,
\* whatever the order of arrivals, reads, DMA, threshold changes and flushes.
THEOREM UartFullSeen == UartSpec => []FullSeen
<1>1. UartIInv => FullSeen
  BY Zenon DEF UartIInv
<1> QED
  BY <1>1, UartInvariant, PTL

\* The port is safe for every depth, threshold and timeout.
THEOREM UartIsSound == UartSpec => []UartSound
<1>1. UartTypeOK /\ HeldGoesFirst /\ CountIsLength /\ FullSeen => UartSound
  BY Zenon DEF UartSound
<1> QED
  BY <1>1, UartTypes, UartHeldGoesFirst, UartCountIsLength, UartFullSeen, PTL

-----------------------------------------------------------------------------
(***************************************************************************)
(* The USB-Serial-JTAG console, for every depth and poll interval.  Its    *)
(* soundness is inductive as it stands.                                    *)
(***************************************************************************)

\* The specification without fairness, which safety does not need.
UsjSpec == UsjInit /\ [][UsjNext]_usjVars

\* The assumption, one constant at a time.
LEMMA UsjBounds == HoldDepth \in Nat \ {0} /\ MaxUsjRx \in Nat \ {0} /\ Poll \in Nat \ {0}
BY UsjAssumption, Zenon

\* Both directions of the bridge are empty at first.
LEMMA UsjInitSound == UsjInit => UsjSound
<1> SUFFICES ASSUME UsjInit PROVE UsjSound
  BY Zenon
<1>1. {usjClk, needReassert, usjQuiet, usjAck} \subseteq BOOLEAN
  BY Zenon DEF UsjInit
<1>2. usjHold \in 0 .. HoldDepth /\ usjRx \in 0 .. MaxUsjRx /\ countdown \in 0 .. Poll
  BY UsjBounds DEF UsjInit
<1>3. {usjRaw, usjEna} \subseteq SUBSET UsjInt /\ RecvSeen
  BY Zenon DEF UsjInit, RecvSeen
<1>4. QED BY <1>1, <1>2, <1>3, Zenon DEF UsjSound, UsjTypeOK

\* Every step of the bridge keeps it sound; no strengthening is needed.
LEMMA UsjNextSound == UsjSound /\ [UsjNext]_usjVars => UsjSound'
<1> SUFFICES ASSUME UsjSound, [UsjNext]_usjVars PROVE UsjSound'
  BY Zenon
<1> USE UsjBounds DEF UsjSound, UsjTypeOK, RecvSeen, UsjInt
<1>1. CASE UsjInject
  <2>1. usjRx' \in 0 .. MaxUsjRx /\ usjRx' # 0
    BY <1>1 DEF UsjInject
  <2>2. usjRaw' \in SUBSET UsjInt /\ "RECV_PKT" \in usjRaw'
    BY <1>1, Zenon DEF UsjInject
  <2>3. QED BY <1>1, <2>1, <2>2, Zenon DEF UsjInject
<1>2. CASE ReadEp1
  <2>1. UsjTypeOK'
    BY <1>2 DEF ReadEp1
  <2>2. RecvSeen'
    BY <1>2 DEF ReadEp1
  <2>3. QED BY <2>1, <2>2, Zenon
<1>3. CASE WriteEp1
  BY <1>3 DEF WriteEp1
<1>4. CASE WrDone
  BY <1>4, Zenon DEF WrDone
<1>5. CASE UsjIntClr
  <2>1. PICK c \in SUBSET UsjInt :
          /\ usjRaw' = usjRaw \ c
          /\ needReassert' = (needReassert \/ "IN_EMPTY" \in c \cap usjRaw)
          /\ usjAck' = (usjAck \/ "RECV_PKT" \in c \cap usjRaw)
    BY <1>5, Zenon DEF UsjIntClr
  <2>2. UNCHANGED <<usjClk, usjHold, usjRx, usjEna, countdown, usjQuiet>>
    BY <1>5, Zenon DEF UsjIntClr
  <2>3. UsjTypeOK'
    BY <2>1, <2>2, Zenon
  <2>4. RecvSeen'
    BY <2>1, <2>2, Zenon
  <2>5. QED BY <2>3, <2>4, Zenon
<1>6. CASE UsjIntEna
  BY <1>6, Zenon DEF UsjIntEna
<1>7. CASE SetSysClk
  BY <1>7, Zenon DEF SetSysClk
<1>8. CASE UsjLeave
  BY <1>8, Zenon DEF UsjLeave
<1>9. CASE UsjTick
  <2>1. usjHold' \in 0 .. HoldDepth /\ countdown' \in 0 .. Poll
    BY <1>9 DEF UsjTick, Reassert
  <2>2. usjRaw' \in SUBSET UsjInt /\ needReassert' \in BOOLEAN
    BY <1>9, Zenon DEF UsjTick, Reassert
  <2>3. UsjTypeOK'
    BY <1>9, <2>1, <2>2, Zenon DEF UsjTick
  <2>4. RecvSeen'
    BY <1>9, Zenon DEF UsjTick, Reassert
  <2>5. QED BY <2>3, <2>4, Zenon
<1>10. CASE UNCHANGED usjVars
  BY <1>10, Zenon DEF usjVars
<1>11. QED
  BY <1>1, <1>2, <1>3, <1>4, <1>5, <1>6, <1>7, <1>8, <1>9, <1>10, Zenon DEF UsjNext

\* For any depths and any poll interval, the queues stay within their bounds
\* and RECV_PKT tells of unread bytes until firmware clears it: a read drops
\* the line only with the last byte (usb_serial_jtag.rs, EP1).
THEOREM UsjIsSound == UsjSpec => []UsjSound
BY UsjInitSound, UsjNextSound, PTL DEF UsjSpec

-----------------------------------------------------------------------------
(***************************************************************************)
(* Twai's safety for every set of identifiers, data and acceptance codes.  *)
(* A command releases, clears, composes and receives in one register       *)
(* write, so the invariant is a predicate of the slot and of what firmware *)
(* saw of it (Good) that each of those parts preserves on its own.         *)
(***************************************************************************)

\* The specification without fairness, which safety does not need.
TwaiSpec == TwaiInit /\ [][TwaiNext]_twaiVars

SlotType == [buf : Frame, full : BOOLEAN, dos : BOOLEAN, ir : SUBSET {"RI", "DOI"}]

Composed == UNION {[D -> Id \union Data] : D \in SUBSET {"id", "data"}}

SeenType == [composed : Composed, received : Frame \union {NoFrame}, accepted : 0 .. 2,
             lost : BOOLEAN, riAck : BOOLEAN]

\* The strengthening: the slot is full exactly when a frame was accepted since
\* the last release.
Good(s, h) ==
  /\ s \in SlotType /\ h \in SeenType
  /\ s.full <=> h.accepted > 0
  /\ \A f \in DOMAIN h.composed : s.buf[f] = h.composed[f]
  /\ h.received # NoFrame => s.full /\ s.buf = h.received
  /\ s.full => "RI" \in s.ir \/ h.riAck
  /\ ~s.full => "RI" \notin s.ir
  /\ s.dos <=> h.lost

Registers ==
  twMode \in [rm : BOOLEAN, stm : BOOLEAN] /\ accept \in Acceptance /\ twClk \in BOOLEAN

TwaiInv == Registers /\ Good(slot, seen)

-----------------------------------------------------------------------------

\* Nothing composed is a composition.
LEMMA NothingComposed == Nothing \in Composed /\ DOMAIN Nothing = {}
BY DEF Nothing, Composed

\* RRB preserves the predicate.
LEMMA ReleaseGood ==
  ASSUME NEW s, NEW h, Good(s, h)
  PROVE  Good(Release(s), SeenRelease(h))
<1> DEFINE r == Release(s)
           g == SeenRelease(h)
<1>1. /\ r = [s EXCEPT !.full = FALSE, !.ir = s.ir \ {"RI"}]
      /\ g = [h EXCEPT !.received = NoFrame, !.accepted = 0]
  BY Zenon DEF Release, SeenRelease
<1>2. s \in SlotType /\ h \in SeenType
  BY Zenon DEF Good
<1> HIDE DEF r, g
<1>3. s.ir \ {"RI"} \in SUBSET {"RI", "DOI"}
  BY <1>2, Zenon DEF SlotType
<1>4. /\ r \in SlotType /\ r.full = FALSE /\ r.buf = s.buf /\ r.dos = s.dos
      /\ r.ir = s.ir \ {"RI"}
  BY <1>1, <1>2, <1>3, Zenon DEF SlotType
<1>5. /\ g \in SeenType /\ g.received = NoFrame /\ g.accepted = 0
      /\ g.composed = h.composed /\ g.lost = h.lost
  <2>1. NoFrame \in Frame \union {NoFrame} /\ 0 \in 0 .. 2
    OBVIOUS
  <2> DEFINE Received == Frame \union {NoFrame}
             Count == 0 .. 2
  <2> HIDE DEF Received, Count
  <2>2. NoFrame \in Received /\ 0 \in Count
    BY <2>1, Zenon DEF Received, Count
  <2>3. SeenType = [composed : Composed, received : Received, accepted : Count,
                    lost : BOOLEAN, riAck : BOOLEAN]
    BY Zenon DEF SeenType, Received, Count
  <2> QED
    BY <1>1, <1>2, <2>2, <2>3, Zenon
<1>6. /\ \A f \in DOMAIN g.composed : r.buf[f] = g.composed[f]
      /\ r.dos <=> g.lost
  BY <1>4, <1>5, Zenon DEF Good
<1>7. "RI" \notin r.ir
  BY <1>4, Zenon
<1>8. ~(g.accepted > 0)
  BY <1>5
<1>9. Good(r, g)
  BY <1>4, <1>5, <1>6, <1>7, <1>8, Zenon DEF Good
<1> QED
  BY <1>9, Zenon DEF r, g

\* CDO preserves the predicate.
LEMMA ClearOverrunGood ==
  ASSUME NEW s, NEW h, Good(s, h)
  PROVE  Good([s EXCEPT !.dos = FALSE], [h EXCEPT !.lost = FALSE])
BY Zenon DEF Good, SlotType, SeenType

\* A transmission leaves nothing composed.
LEMMA SendGood ==
  ASSUME NEW s, NEW h, Good(s, h)
  PROVE  Good(s, [h EXCEPT !.composed = Nothing])
BY NothingComposed, Zenon DEF Good, SlotType, SeenType

\* receive preserves the predicate, whether or not the frame passes.
LEMMA ReceiveGood ==
  ASSUME NEW s, NEW h, Good(s, h), NEW frame \in Frame
  PROVE  Good(Receive(s, frame), SeenReceive(h, frame))
<1>1. CASE frame.id \notin accept
  BY <1>1, Zenon DEF Receive, SeenReceive
<1>2. CASE frame.id \in accept
  <2> DEFINE r == Receive(s, frame)
             g == SeenReceive(h, frame)
             ir == s.ir \union {"RI"} \union (IF s.full THEN {"DOI"} ELSE {})
             dos == s.dos \/ s.full
             count == IF h.accepted = 0 THEN 1 ELSE 2
             lost == h.lost \/ h.accepted > 0
             Received == Frame \union {NoFrame}
             Count == 0 .. 2
  <2>1. /\ r = [buf |-> frame, full |-> TRUE, dos |-> dos, ir |-> ir]
        /\ g = [composed |-> Nothing, received |-> frame, accepted |-> count, lost |-> lost,
                riAck |-> FALSE]
    BY <1>2, Zenon DEF Receive, SeenReceive
  <2>2. s \in SlotType /\ h \in SeenType /\ (s.full <=> h.accepted > 0) /\ (s.dos <=> h.lost)
    BY Zenon DEF Good
  <2>3. s.ir \in SUBSET {"RI", "DOI"}
    BY <2>2, Zenon DEF SlotType
  <2>4. ir \in SUBSET {"RI", "DOI"} /\ "RI" \in ir
    BY <2>3, Zenon
  <2>5. dos \in BOOLEAN /\ lost \in BOOLEAN /\ (dos <=> lost)
    BY <2>2, Zenon
  <2>6. count \in Count /\ count > 0
    OBVIOUS
  <2>7. SeenType = [composed : Composed, received : Received, accepted : Count,
                    lost : BOOLEAN, riAck : BOOLEAN]
    BY Zenon DEF SeenType
  <2>8. frame \in Received
    BY Zenon
  <2> HIDE DEF r, g, ir, dos, count, lost, Received, Count
  <2>9. r \in SlotType /\ r.buf = frame /\ r.full = TRUE /\ r.dos = dos /\ r.ir = ir
    BY <2>1, <2>4, <2>5, Zenon DEF SlotType
  <2>10. /\ g \in SeenType /\ g.composed = Nothing /\ g.received = frame
         /\ g.accepted = count /\ g.lost = lost
    BY <2>1, <2>5, <2>6, <2>7, <2>8, NothingComposed, Zenon
  <2>11. Good(r, g)
    BY <2>4, <2>5, <2>6, <2>9, <2>10, NothingComposed, Zenon DEF Good
  <2> QED
    BY <2>11, Zenon DEF r, g
<1> QED
  BY <1>1, <1>2, Zenon

-----------------------------------------------------------------------------

\* The controller after a reset satisfies the invariant.
LEMMA TwaiInitInv == TwaiInit => TwaiInv
<1> SUFFICES ASSUME TwaiInit PROVE TwaiInv
  BY Zenon
<1>1. Registers
  BY TwaiAssumption, Zenon DEF TwaiInit, Registers
<1>2. slot \in SlotType /\ seen \in SeenType
  BY TwaiAssumption, NothingComposed DEF TwaiInit, SlotType, SeenType, Frame
<1>3. Good(slot, seen)
  BY <1>2, NothingComposed DEF TwaiInit, Good
<1> QED
  BY <1>1, <1>3, Zenon DEF TwaiInv

\* Every step preserves the invariant.
LEMMA TwaiNextInv == TwaiInv /\ [TwaiNext]_twaiVars => TwaiInv'
<1> SUFFICES ASSUME TwaiInv, [TwaiNext]_twaiVars PROVE TwaiInv'
  BY Zenon
<1>1. Registers /\ Good(slot, seen)
  BY Zenon DEF TwaiInv
<1>2. slot \in SlotType /\ seen \in SeenType /\ slot.buf \in Frame
  BY <1>1, Zenon DEF Good, SlotType
<1>3. CASE TwaiInjectRx
  <2>1. PICK frame \in Frame :
          slot' = Receive(slot, frame) /\ seen' = SeenReceive(seen, frame)
    BY <1>3, Zenon DEF TwaiInjectRx
  <2>2. Good(slot', seen')
    BY <1>1, <2>1, ReceiveGood, Zenon
  <2> QED
    BY <1>1, <1>3, <2>2, Zenon DEF TwaiInjectRx, TwaiInv, Registers
<1>4. CASE Command
  <2>1. PICK rrb \in BOOLEAN, cdo \in BOOLEAN, tr \in BOOLEAN, srr \in BOOLEAN :
          LET s1   == IF rrb THEN Release(slot) ELSE slot
              h1   == IF rrb THEN SeenRelease(seen) ELSE seen
              s2   == IF cdo THEN [s1 EXCEPT !.dos = FALSE] ELSE s1
              h2   == IF cdo THEN [h1 EXCEPT !.lost = FALSE] ELSE h1
              send == twClk /\ (tr \/ srr)
              self == send /\ (twMode.stm \/ srr)
              h3   == IF send THEN [h2 EXCEPT !.composed = Nothing] ELSE h2
          IN  /\ slot' = IF self THEN Receive(s2, s2.buf) ELSE s2
              /\ seen' = IF self THEN SeenReceive(h3, s2.buf) ELSE h3
    BY <1>4, Zenon DEF Command
  <2> DEFINE s1   == IF rrb THEN Release(slot) ELSE slot
             h1   == IF rrb THEN SeenRelease(seen) ELSE seen
             s2   == IF cdo THEN [s1 EXCEPT !.dos = FALSE] ELSE s1
             h2   == IF cdo THEN [h1 EXCEPT !.lost = FALSE] ELSE h1
             send == twClk /\ (tr \/ srr)
             self == send /\ (twMode.stm \/ srr)
             h3   == IF send THEN [h2 EXCEPT !.composed = Nothing] ELSE h2
  <2>2. Good(s1, h1)
    BY <1>1, ReleaseGood, Zenon
  <2> HIDE DEF s1, h1
  <2>3. Good(s2, h2)
    BY <2>2, ClearOverrunGood, Zenon
  <2> HIDE DEF s2, h2
  <2>4. Good(s2, h3)
    BY <2>3, SendGood, Zenon
  <2> HIDE DEF h3
  <2>5. s2.buf \in Frame
    BY <2>4, Zenon DEF Good, SlotType
  <2>6. Good(Receive(s2, s2.buf), SeenReceive(h3, s2.buf))
    BY <2>4, <2>5, ReceiveGood, Zenon
  <2>7. /\ slot' = IF self THEN Receive(s2, s2.buf) ELSE s2
        /\ seen' = IF self THEN SeenReceive(h3, s2.buf) ELSE h3
    BY <2>1, Zenon DEF s1, h1, s2, h2, h3
  <2> HIDE DEF self
  <2>8. Good(slot', seen')
    BY <2>4, <2>6, <2>7, Zenon
  <2> QED
    BY <1>1, <1>4, <2>8, Zenon DEF Command, TwaiInv, Registers
<1>5. CASE WriteBuf
  <2>1. PICK f \in {"id", "data"}, v \in Id \union Data :
          /\ v \in IF f = "id" THEN Id ELSE Data
          /\ slot' = [slot EXCEPT !.buf[f] = v]
          /\ seen' = [seen EXCEPT !.received = NoFrame,
                        !.composed = [g \in DOMAIN seen.composed \union {f} |->
                                        IF g = f THEN slot'.buf[f] ELSE seen.composed[g]]]
    BY <1>5, Zenon DEF WriteBuf
  <2> DEFINE buf == [slot.buf EXCEPT ![f] = v]
             composed == [g \in DOMAIN seen.composed \union {f} |->
                            IF g = f THEN v ELSE seen.composed[g]]
  <2>2. buf \in Frame /\ \A g \in {"id", "data"} : buf[g] = IF g = f THEN v ELSE slot.buf[g]
    BY <1>2, <2>1, Zenon DEF Frame
  <2>3. slot' = [slot EXCEPT !.buf = buf] /\ slot'.buf = buf
    BY <1>2, <2>1, Zenon DEF SlotType
  <2>4. seen' = [seen EXCEPT !.received = NoFrame, !.composed = composed]
    BY <2>1, <2>2, <2>3, Zenon
  <2>5. PICK D \in SUBSET {"id", "data"} : seen.composed \in [D -> Id \union Data]
    BY <1>2, Zenon DEF SeenType, Composed
  <2>6. composed \in [D \union {f} -> Id \union Data]
    BY <2>5, Zenon
  <2>7. composed \in Composed
    BY <2>6, Zenon DEF Composed
  <2>8. \A g \in DOMAIN composed : buf[g] = composed[g]
    BY <1>1, <2>2, <2>5 DEF Good
  <2> HIDE DEF buf, composed
  <2>9. /\ slot' \in SlotType /\ slot'.full = slot.full /\ slot'.dos = slot.dos
        /\ slot'.ir = slot.ir
    BY <1>2, <2>2, <2>3, Zenon DEF SlotType
  <2>10. /\ seen' \in SeenType /\ seen'.composed = composed /\ seen'.received = NoFrame
         /\ seen'.accepted = seen.accepted /\ seen'.lost = seen.lost
         /\ seen'.riAck = seen.riAck
    BY <1>2, <2>4, <2>7, Zenon DEF SeenType
  <2>11. Good(slot', seen')
    BY <1>1, <2>3, <2>8, <2>9, <2>10, Zenon DEF Good
  <2> QED
    BY <1>1, <1>5, <2>11, Zenon DEF WriteBuf, TwaiInv, Registers
<1>6. CASE WriteAcceptance
  BY <1>1, <1>6, Zenon DEF WriteAcceptance, TwaiInv, Registers
<1>7. CASE WriteMode
  BY <1>1, <1>7, Zenon DEF WriteMode, TwaiInv, Registers
<1>8. CASE ClearIr
  <2>1. PICK c \in SUBSET {"RI", "DOI"} : slot' = [slot EXCEPT !.ir = c] /\ c \subseteq slot.ir
    BY <1>2, <1>8, Zenon DEF ClearIr, SlotType
  <2>2. seen' = [seen EXCEPT !.riAck = seen.riAck \/ "RI" \in slot.ir \ slot'.ir]
    BY <1>8, Zenon DEF ClearIr
  <2>3. /\ slot' \in SlotType /\ slot'.full = slot.full /\ slot'.dos = slot.dos
        /\ slot'.ir = c /\ slot'.buf = slot.buf
    BY <1>2, <2>1, Zenon DEF SlotType
  <2>4. /\ seen' \in SeenType /\ seen'.composed = seen.composed
        /\ seen'.received = seen.received /\ seen'.accepted = seen.accepted
        /\ seen'.lost = seen.lost
        /\ seen'.riAck <=> (seen.riAck \/ "RI" \in slot.ir \ slot'.ir)
    BY <1>2, <2>2, Zenon DEF SeenType
  <2>5. Good(slot', seen')
    BY <1>1, <2>1, <2>3, <2>4 DEF Good
  <2> QED
    BY <1>1, <1>8, <2>5, Zenon DEF ClearIr, TwaiInv, Registers
<1>9. CASE TwaiClockGate
  BY <1>1, <1>9, Zenon DEF TwaiClockGate, TwaiInv, Registers
<1>10. CASE UNCHANGED twaiVars
  BY <1>1, <1>10, Zenon DEF twaiVars, TwaiInv, Registers
<1> QED
  BY <1>3, <1>4, <1>5, <1>6, <1>7, <1>8, <1>9, <1>10, Zenon DEF TwaiNext

\* The invariant holds in every reachable state.
THEOREM TwaiInvariant == TwaiSpec => []TwaiInv
BY TwaiInitInv, TwaiNextInv, PTL DEF TwaiSpec

\* The frame a transmission will send has the fields firmware composed, unless
\* a frame passed the filter since.
THEOREM TwaiComposeKept == TwaiSpec => []ComposeKept
<1>1. TwaiInv => ComposeKept
  BY Zenon DEF TwaiInv, Good, ComposeKept
<1> QED
  BY <1>1, TwaiInvariant, PTL

\* The last received frame stays in the shared buffer until it is released or
\* firmware writes there.
THEOREM TwaiRxIntact == TwaiSpec => []RxIntact
<1>1. TwaiInv => RxIntact
  BY Zenon DEF TwaiInv, Good, RxIntact
<1> QED
  BY <1>1, TwaiInvariant, PTL

\* A waiting frame shows on RI until firmware clears it there, a released
\* slot never does.
THEOREM TwaiRxAnnounced == TwaiSpec => []RxAnnounced
<1>1. TwaiInv => RxAnnounced
  BY Zenon DEF TwaiInv, Good, RxAnnounced
<1> QED
  BY <1>1, TwaiInvariant, PTL

\* The overrun bit is set exactly when a frame was replaced unreleased.
THEOREM TwaiOverrunShown == TwaiSpec => []OverrunShown
<1>1. TwaiInv => OverrunShown
  BY Zenon DEF TwaiInv, Good, OverrunShown, SlotType, SeenType
<1> QED
  BY <1>1, TwaiInvariant, PTL

\* The buffer holds a frame, the registers values of their fields.
THEOREM TwaiTypes == TwaiSpec => []TwaiTypeOK
<1>1. TwaiInv => TwaiTypeOK
  BY Zenon DEF TwaiInv, Good, Registers, TwaiTypeOK, SlotType, SeenType
<1> QED
  BY <1>1, TwaiInvariant, PTL

\* The shared buffer is safe for any identifiers, data and filters.
THEOREM TwaiIsSound == TwaiSpec => []TwaiSound
<1>1. TwaiTypeOK /\ ComposeKept /\ RxIntact /\ RxAnnounced /\ OverrunShown => TwaiSound
  BY Zenon DEF TwaiSound
<1> QED
  BY <1>1, TwaiTypes, TwaiComposeKept, TwaiRxIntact, TwaiRxAnnounced, TwaiOverrunShown, PTL

-----------------------------------------------------------------------------
(* The I2C master                                                          *)

\* The specification without fairness, which safety does not need.
I2cSpec == I2cInit /\ [][I2cNext]_i2cVars

\* The fields of a running command.
OpType == [kind : {"none", "cond", "write", "read"}, left : Nat, byte : Int,
           phase : {"none", "hold", "bits", "ack"}]

\* A command in its bit phases is a WRITE or a READ; no phase, no command.
Shape(o) ==
  /\ o \in OpType
  /\ o.phase = "none" => o = NoOp
  /\ o.kind \in {"write", "read"} <=> o.phase \in {"bits", "ack"}

\* What is left of a WRITE.
LeftOf(o) == IF o.kind = "write" THEN o.left ELSE 0

\* Sent, under way and waiting add up to what the list was asked to send.
Balance ==
  asked # Unknown =>
    /\ asked <= txCnt
    /\ txPos + LeftOf(op) + WriteBytes(pending) = asked
    /\ op.kind = "write" /\ op.phase = "bits" => op.byte = txPos /\ op.left > 0

\* Every byte in the stream was supplied, or is the one nobody supplied.
StreamTyped ==
  /\ supplied \in 0 .. MaxSupply /\ dropped \in BOOLEAN
  /\ rxq \in Seq(0 .. supplied) /\ supply \in Seq(0 .. supplied)
  /\ op.kind = "read" /\ op.phase = "bits" => op.byte \in 0 .. supplied

\* The inductive invariant.
I2cIInv ==
  /\ I2cTypeOK /\ Shape(op) /\ asked \in Nat \cup {Unknown}
  /\ IdleIsReady /\ Balance /\ StreamTyped /\ ReadsInOrder

-----------------------------------------------------------------------------
(* Numbers and sequences                                                   *)

\* A set of naturals that is not empty has a least member.
LEMMA LeastNat ==
  ASSUME NEW T, T \subseteq Nat, T # {}
  PROVE  \E n \in T : \A m \in T : n <= m
<1> DEFINE R == OpToRel(<, Nat)
<1>1. IsWellFoundedOn(R, Nat)
  BY NatLessThanWellFounded, Zenon
<1>2. PICK n \in T : \A m \in T : ~ (<<m, n>> \in R)
  BY <1>1, WFMin, Zenon
<1>3. \A m \in T : m < n => <<m, n>> \in R
  BY Zenon DEF OpToRel
<1> HIDE DEF R
<1>4. ASSUME NEW m \in T PROVE n <= m
  <2>1. m \in Nat /\ n \in Nat
    BY Zenon
  <2>2. ~(m < n)
    BY <1>2, <1>3, Zenon
  <2>3. QED BY <2>1, <2>2
<1>5. QED BY <1>4, Zenon

\* Induction up to a bound, over a set.
LEMMA UpTo ==
  ASSUME NEW N \in Nat, NEW S, 0 \in S, \A n \in 0 .. N - 1 : n \in S => n + 1 \in S
  PROVE  \A n \in 0 .. N : n \in S
<1> SUFFICES ASSUME (0 .. N) \ S # {} PROVE FALSE
  BY Zenon
<1>1. PICK n \in (0 .. N) \ S : \A m \in (0 .. N) \ S : n <= m
  BY LeastNat, (0 .. N) \ S \subseteq Nat, Zenon
<1>2. n # 0 /\ n - 1 \in 0 .. N - 1
  BY <1>1
<1>3. n - 1 \in S
  BY <1>1, <1>2
<1>4. (n - 1) + 1 \in S
  BY <1>2, <1>3, Zenon
<1>5. (n - 1) + 1 = n
  BY <1>2
<1>6. QED BY <1>1, <1>4, <1>5, Zenon

\* The larger of a predecessor and zero.
LEMMA MaxZero ==
  ASSUME NEW a \in Nat
  PROVE  Max({a - 1, 0}) = IF a = 0 THEN 0 ELSE a - 1
<1> DEFINE m == IF a = 0 THEN 0 ELSE a - 1
<1>1. m \in {a - 1, 0} /\ \A y \in {a - 1, 0} : m >= y
  OBVIOUS
<1>2. \A x \in {a - 1, 0} : (\A y \in {a - 1, 0} : x >= y) => x = m
  OBVIOUS
<1> HIDE DEF m
<1>3. Max({a - 1, 0}) = m
  BY <1>1, <1>2, Zenon DEF Max
<1> QED BY <1>3, Zenon DEF m

\* Sequences with the same elements are the same.
LEMMA SameSeq ==
  ASSUME NEW S, NEW s \in Seq(S), NEW t \in Seq(S), Len(s) = Len(t),
         \A i \in 1 .. Len(s) : s[i] = t[i]
  PROVE  s = t
OBVIOUS

\* The empty sequence adds nothing.
LEMMA CatEmpty ==
  ASSUME NEW S, NEW s \in Seq(S)
  PROVE  s \o <<>> = s
OBVIOUS

\* A sequence is its head before its tail.
LEMMA CatHead ==
  ASSUME NEW S, NEW s \in Seq(S), s # <<>>
  PROVE  Head(s) \in S /\ Tail(s) \in Seq(S) /\ <<Head(s)>> \o Tail(s) = s
<1>1. Len(s) \in Nat /\ Len(s) > 0
  OBVIOUS
<1>2. Head(s) \in S /\ Head(s) = s[1]
  BY <1>1
<1>3. /\ Tail(s) \in Seq(S) /\ Len(Tail(s)) = Len(s) - 1
      /\ \A i \in 1 .. Len(s) - 1 : Tail(s)[i] = s[i + 1]
  BY <1>1
<1> DEFINE t == Tail(s)
           h == Head(s)
           r == <<h>> \o t
<1> HIDE DEF t, h
<1>4. t \in Seq(S) /\ h \in S /\ <<h>> \in Seq(S) /\ Len(<<h>>) = 1 /\ <<h>>[1] = h
  BY <1>2, <1>3 DEF t, h
<1>5. r \in Seq(S) /\ Len(r) = 1 + Len(t)
  BY <1>4
<1>6. r[1] = h /\ \A i \in 1 .. Len(t) : r[1 + i] = t[i]
  BY <1>4
<1> HIDE DEF r
<1>7. Len(r) = Len(s)
  BY <1>5, <1>3, <1>1 DEF t
<1>8. ASSUME NEW i \in 1 .. Len(s) PROVE r[i] = s[i]
  <2>1. CASE i = 1
    BY <2>1, <1>6, <1>2, Zenon DEF h
  <2>2. CASE i # 1
    <3>1. i - 1 \in 1 .. Len(s) - 1 /\ 1 + (i - 1) = i /\ (i - 1) + 1 = i
      BY <2>2, <1>1
    <3>2. t[i - 1] = s[(i - 1) + 1]
      BY <3>1, <1>3, Zenon DEF t
    <3>3. r[1 + (i - 1)] = t[i - 1]
      BY <3>1, <1>3, <1>6, Zenon DEF t
    <3> QED BY <3>1, <3>2, <3>3, Zenon
  <2> QED BY <2>1, <2>2, Zenon
<1>9. r = s
  BY <1>5, <1>7, <1>8, SameSeq, Zenon
<1> QED BY <1>2, <1>3, <1>9, Zenon DEF r, t, h

\* Concatenation is associative.
LEMMA CatAssoc ==
  ASSUME NEW S, NEW s \in Seq(S), NEW t \in Seq(S), NEW u \in Seq(S)
  PROVE  (s \o t) \o u = s \o (t \o u)
OBVIOUS

\* Append adds at the end.
LEMMA AppendIs ==
  ASSUME NEW S, NEW s \in Seq(S), NEW x \in S
  PROVE  Append(s, x) = s \o <<x>>
OBVIOUS

\* A sequence of small numbers is one of larger ones.
LEMMA SeqWider ==
  ASSUME NEW n \in Nat, NEW m \in Nat, n <= m, NEW s \in Seq(0 .. n)
  PROVE  s \in Seq(0 .. m)
<1>1. Len(s) \in Nat /\ \A i \in 1 .. Len(s) : s[i] \in 0 .. m
  OBVIOUS
<1> QED BY <1>1

-----------------------------------------------------------------------------
(* What a list sends                                                       *)

\* What one command sends.
Sends(c) == IF c[1] = "write" THEN c[2] ELSE 0

\* What the opcodes say of a command.
LEMMA CmdFacts ==
  ASSUME NEW c \in CmdSet
  PROVE  /\ Sends(c) \in Nat
         /\ c[1] \in {"write", "read", "cond", "end", "none"}
         /\ c[1] \in {"write", "read"} => c[2] \in Nat \ {0}
         /\ Instant(c) => Sends(c) = 0
BY I2cAssumption, Zenon DEF CmdSet, Sends, Instant

\* The recursive equation of BytesTo has a solution, so it holds.
LEMMA BytesToIs ==
  ASSUME NEW q \in Seq(CmdSet)
  PROVE  /\ BytesTo(q) = [i \in 0 .. Len(q) |->
                            IF i = 0 THEN 0 ELSE BytesTo(q)[i - 1] + Sends(q[i])]
         /\ BytesTo(q) \in [0 .. Len(q) -> Nat]
<1> DEFINE Sums(f, n) == f = [i \in 0 .. n |-> IF i = 0 THEN 0 ELSE f[i - 1] + Sends(q[i])]
           S == {n \in 0 .. Len(q) : \E f : Sums(f, n)}
           G(n, f) == [i \in 0 .. n + 1 |-> IF i = n + 1 THEN f[n] + Sends(q[n + 1]) ELSE f[i]]
<1>0. Len(q) \in Nat
  OBVIOUS
<1>1. 0 \in S
  <2>1. Sums([i \in 0 .. 0 |-> 0], 0)
    OBVIOUS
  <2>2. 0 \in 0 .. Len(q)
    BY <1>0
  <2> HIDE DEF Sums
  <2> QED BY <2>1, <2>2, Zenon
<1>2. ASSUME NEW n \in 0 .. Len(q) - 1, n \in S PROVE n + 1 \in S
  <2>1. PICK f : Sums(f, n)
    BY <1>2, Zenon
  <2>2. \A i \in 0 .. n : G(n, f)[i] = f[i]
    BY <1>0
  <2>3. \A i \in 0 .. n : i # 0 => f[i] = f[i - 1] + Sends(q[i])
    BY <2>1, <1>0, Zenon
  <2>4. f[0] = 0
    BY <2>1, <1>0
  <2>5. \A i \in 0 .. n + 1 : G(n, f)[i] = IF i = 0 THEN 0 ELSE G(n, f)[i - 1] + Sends(q[i])
    BY <2>2, <2>3, <2>4, <1>0
  <2>6. Sums(G(n, f), n + 1)
    BY <2>5, Zenon
  <2>7. n + 1 \in 0 .. Len(q)
    BY <1>0
  <2> HIDE DEF Sums, G
  <2> QED BY <2>6, <2>7, Zenon
<1>3. \E f : Sums(f, Len(q))
  <2> HIDE DEF S
  <2>1. \A n \in 0 .. Len(q) : n \in S
    BY <1>0, <1>1, <1>2, UpTo, Zenon
  <2> QED BY <2>1, <1>0 DEF S
<1>4. BytesTo(q) = CHOOSE f : Sums(f, Len(q))
  BY Zenon DEF BytesTo, Sends
<1>5. Sums(BytesTo(q), Len(q))
  BY <1>3, <1>4, Zenon
<1>6. BytesTo(q) \in [0 .. Len(q) -> Nat]
  <2> DEFINE T == {n \in 0 .. Len(q) : BytesTo(q)[n] \in Nat}
  <2>1. 0 \in T
    BY <1>5, <1>0
  <2>2. ASSUME NEW n \in 0 .. Len(q) - 1, n \in T PROVE n + 1 \in T
    <3>1. q[n + 1] \in CmdSet
      BY <1>0
    <3>2. BytesTo(q)[n + 1] = BytesTo(q)[n] + Sends(q[n + 1])
      BY <1>5, <1>0
    <3> QED BY <3>1, <3>2, <2>2, <1>0, CmdFacts
  <2>3. \A n \in 0 .. Len(q) : n \in T
    <3> HIDE DEF T
    <3> QED BY <1>0, <2>1, <2>2, UpTo, Zenon
  <2> QED BY <2>3, <1>5, Zenon
<1> QED BY <1>5, <1>6, Zenon

\* A step of the sum.
LEMMA BytesToStep ==
  ASSUME NEW q \in Seq(CmdSet)
  PROVE  /\ BytesTo(q)[0] = 0
         /\ \A i \in 1 .. Len(q) : BytesTo(q)[i] = BytesTo(q)[i - 1] + Sends(q[i])
         /\ \A i \in 0 .. Len(q) : BytesTo(q)[i] \in Nat
<1> DEFINE f == BytesTo(q)
<1>1. Len(q) \in Nat
  OBVIOUS
<1>2. f = [i \in 0 .. Len(q) |-> IF i = 0 THEN 0 ELSE f[i - 1] + Sends(q[i])]
  BY BytesToIs, Zenon
<1>3. f \in [0 .. Len(q) -> Nat]
  BY BytesToIs, Zenon
<1> HIDE DEF f
<1>4. f[0] = 0
  BY <1>1, <1>2
<1>5. \A i \in 1 .. Len(q) : f[i] = f[i - 1] + Sends(q[i])
  BY <1>1, <1>2
<1>6. \A i \in 0 .. Len(q) : f[i] \in Nat
  BY <1>3, Zenon
<1> QED BY <1>4, <1>5, <1>6, Zenon DEF f

\* A list sends a number of bytes.
LEMMA WriteBytesNat ==
  ASSUME NEW q \in Seq(CmdSet)
  PROVE  WriteBytes(q) \in Nat
<1>1. Len(q) \in 0 .. Len(q)
  OBVIOUS
<1> QED BY <1>1, BytesToStep, Zenon DEF WriteBytes

\* Instant commands send nothing.
LEMMA InstantsSendNothing ==
  ASSUME NEW q \in Seq(CmdSet), NEW k \in 0 .. Len(q), \A i \in 1 .. k : Instant(q[i])
  PROVE  BytesTo(q)[k] = 0
<1> DEFINE S == {n \in 0 .. k : BytesTo(q)[n] = 0}
<1>0. Len(q) \in Nat /\ k \in Nat /\ \A i \in 1 .. Len(q) : q[i] \in CmdSet
  OBVIOUS
<1>1. 0 \in S
  BY <1>0, BytesToStep
<1>2. ASSUME NEW n \in 0 .. k - 1, n \in S PROVE n + 1 \in S
  <2>1. n + 1 \in 1 .. k /\ n + 1 \in 1 .. Len(q) /\ (n + 1) - 1 = n
    BY <1>0
  <2>2. Sends(q[n + 1]) = 0
    BY <2>1, <1>0, CmdFacts, Zenon
  <2>3. BytesTo(q)[n + 1] = BytesTo(q)[n] + Sends(q[n + 1])
    BY <2>1, BytesToStep, Zenon
  <2>4. BytesTo(q)[n] = 0
    BY <1>2, Zenon
  <2> QED BY <2>1, <2>2, <2>3, <2>4
<1> HIDE DEF S
<1>3. \A n \in 0 .. k : n \in S
  BY <1>0, <1>1, <1>2, UpTo, Zenon
<1> QED BY <1>3, <1>0 DEF S

\* The sum over a suffix.
LEMMA SuffixSends ==
  ASSUME NEW q \in Seq(CmdSet), NEW k \in 0 .. Len(q)
  PROVE  WriteBytes(q) = BytesTo(q)[k] + WriteBytes(SubSeq(q, k + 1, Len(q)))
<1> DEFINE r == SubSeq(q, k + 1, Len(q))
           S == {n \in 0 .. Len(r) : BytesTo(q)[k + n] = BytesTo(q)[k] + BytesTo(r)[n]}
<1>0. Len(q) \in Nat /\ k \in Nat /\ \A i \in 1 .. Len(q) : q[i] \in CmdSet
  OBVIOUS
<1>1. r \in Seq(CmdSet) /\ Len(r) = Len(q) - k /\ \A i \in 1 .. Len(r) : r[i] = q[k + i]
  BY <1>0
<1> HIDE DEF r
<1>2. 0 \in S
  BY <1>0, <1>1, BytesToStep
<1>3. ASSUME NEW n \in 0 .. Len(r) - 1, n \in S PROVE n + 1 \in S
  <2>1. n + 1 \in 1 .. Len(r) /\ k + (n + 1) \in 1 .. Len(q)
        /\ (n + 1) - 1 = n /\ (k + (n + 1)) - 1 = k + n
    BY <1>0, <1>1
  <2>2. BytesTo(r)[n + 1] = BytesTo(r)[n] + Sends(r[n + 1])
    BY <2>1, <1>1, BytesToStep, ZenonT(60)
  <2>3. BytesTo(q)[k + (n + 1)] = BytesTo(q)[k + n] + Sends(q[k + (n + 1)])
    BY <2>1, BytesToStep, Zenon
  <2>4. r[n + 1] = q[k + (n + 1)] /\ Sends(r[n + 1]) \in Nat
    BY <2>1, <1>0, <1>1, CmdFacts, Zenon
  <2>5. BytesTo(q)[k + n] = BytesTo(q)[k] + BytesTo(r)[n]
    BY <1>3, Zenon
  <2>6. BytesTo(r)[n] \in Nat /\ BytesTo(q)[k] \in Nat
    BY <1>0, <1>1, BytesToStep
  <2>7. BytesTo(q)[k + (n + 1)] = BytesTo(q)[k] + BytesTo(r)[n + 1]
    BY <2>2, <2>3, <2>4, <2>5, <2>6
  <2>8. n + 1 \in 0 .. Len(r)
    BY <2>1
  <2> QED BY <2>7, <2>8, Zenon
<1>4. Len(r) \in S
  <2> HIDE DEF S
  <2>1. Len(r) \in Nat
    BY <1>0, <1>1
  <2>2. \A n \in 0 .. Len(r) : n \in S
    BY <2>1, <1>2, <1>3, UpTo, Zenon
  <2> QED BY <2>1, <2>2
<1>5. k + Len(r) = Len(q)
  BY <1>0, <1>1
<1> QED BY <1>4, <1>5, Zenon DEF WriteBytes, r

\* What the rest of a queue sends once the instant commands at its head and
\* the command behind them are gone.
LEMMA QueueSends ==
  ASSUME NEW q \in Seq(CmdSet), NEW k \in 0 .. Len(q), \A i \in 1 .. k : Instant(q[i])
  PROVE  /\ WriteBytes(q) \in Nat
         /\ k = Len(q) => WriteBytes(q) = 0
         /\ k < Len(q) => /\ SubSeq(q, k + 2, Len(q)) \in Seq(CmdSet)
                          /\ WriteBytes(SubSeq(q, k + 2, Len(q))) \in Nat
                          /\ WriteBytes(q) = Sends(q[k + 1])
                                               + WriteBytes(SubSeq(q, k + 2, Len(q)))
<1>0. Len(q) \in Nat /\ k \in Nat /\ \A i \in 1 .. Len(q) : q[i] \in CmdSet
  OBVIOUS
<1>1. BytesTo(q)[k] = 0
  BY InstantsSendNothing, Zenon
<1>2. WriteBytes(q) \in Nat
  BY WriteBytesNat, Zenon
<1>3. k = Len(q) => WriteBytes(q) = 0
  BY <1>1, Zenon DEF WriteBytes
<1>4. ASSUME k < Len(q)
      PROVE  /\ SubSeq(q, k + 2, Len(q)) \in Seq(CmdSet)
             /\ WriteBytes(SubSeq(q, k + 2, Len(q))) \in Nat
             /\ WriteBytes(q) = Sends(q[k + 1]) + WriteBytes(SubSeq(q, k + 2, Len(q)))
  <2>1. k + 1 \in 1 .. Len(q) /\ k + 1 \in 0 .. Len(q) /\ (k + 1) - 1 = k /\ (k + 1) + 1 = k + 2
    BY <1>0, <1>4
  <2>2. SubSeq(q, k + 2, Len(q)) \in Seq(CmdSet)
    BY <1>0, <2>1
  <2>3. WriteBytes(SubSeq(q, k + 2, Len(q))) \in Nat
    BY <2>2, WriteBytesNat, Zenon
  <2>4. BytesTo(q)[k + 1] = Sends(q[k + 1])
    BY <2>1, <1>0, <1>1, BytesToStep, CmdFacts
  <2>5. WriteBytes(q) = BytesTo(q)[k + 1] + WriteBytes(SubSeq(q, k + 2, Len(q)))
    BY <2>1, SuffixSends, Zenon
  <2> QED BY <2>2, <2>3, <2>4, <2>5, Zenon
<1> QED BY <1>2, <1>3, <1>4, Zenon

-----------------------------------------------------------------------------
(* The order of a stream                                                   *)

\* ReadsInOrder, of any sequence.
InOrder(s, n, d) ==
  \A i \in 1 .. Len(s) : s[i] # NoByte =>
    /\ \A j \in 1 .. i - 1 : s[j] < s[i]
    /\ ~d => \A b \in s[i] + 1 .. n : \E j \in i + 1 .. Len(s) : s[j] = b

\* The next byte the device supplies.
LEMMA OrderAppend ==
  ASSUME NEW n \in Nat, NEW s \in Seq(0 .. n), NEW d \in BOOLEAN, InOrder(s, n, d)
  PROVE  /\ Append(s, n + 1) \in Seq(0 .. n + 1)
         /\ InOrder(Append(s, n + 1), n + 1, d)
<1> DEFINE t == Append(s, n + 1)
<1>1. Len(s) \in Nat /\ \A i \in 1 .. Len(s) : s[i] \in 0 .. n
  OBVIOUS
<1>2. Len(t) = Len(s) + 1 /\ t[Len(s) + 1] = n + 1 /\ \A i \in 1 .. Len(s) : t[i] = s[i]
  OBVIOUS
<1>3. t \in Seq(0 .. n + 1)
  <2>1. s \in Seq(0 .. n + 1)
    BY <1>1
  <2> QED BY <2>1
<1> HIDE DEF t
<1>4. ASSUME NEW i \in 1 .. Len(t), t[i] # NoByte
      PROVE  /\ \A j \in 1 .. i - 1 : t[j] < t[i]
             /\ ~d => \A b \in t[i] + 1 .. n + 1 : \E j \in i + 1 .. Len(t) : t[j] = b
  <2>1. CASE i = Len(s) + 1
    BY <2>1, <1>1, <1>2
  <2>2. CASE i \in 1 .. Len(s)
    <3>1. \A j \in 1 .. i - 1 : t[j] < t[i]
      <4>1. \A j \in 1 .. i - 1 : s[j] < s[i]
        BY <2>2, <1>2, <1>4, Zenon DEF InOrder
      <4>2. \A j \in 1 .. i - 1 : j \in 1 .. Len(s)
        BY <2>2, <1>1
      <4> QED BY <4>1, <4>2, <2>2, <1>2, Zenon
    <3>2. ASSUME ~d, NEW b \in t[i] + 1 .. n + 1 PROVE \E j \in i + 1 .. Len(t) : t[j] = b
      <4>1. CASE b = n + 1
        BY <4>1, <1>1, <1>2, <2>2
      <4>2. CASE b # n + 1
        <5>1. b \in s[i] + 1 .. n
          BY <4>2, <1>1, <1>2, <2>2
        <5>2. PICK j \in i + 1 .. Len(s) : s[j] = b
          BY <5>1, <3>2, <2>2, <1>2, <1>4, Zenon DEF InOrder
        <5>3. j \in i + 1 .. Len(t) /\ t[j] = b
          BY <5>2, <1>1, <1>2, <2>2
        <5> QED BY <5>3, Zenon
      <4> QED BY <4>1, <4>2, Zenon
    <3> QED BY <3>1, <3>2, Zenon
  <2> QED BY <2>1, <2>2, <1>1, <1>2
<1>5. InOrder(t, n + 1, d)
  BY <1>4, Zenon DEF InOrder
<1> QED BY <1>3, <1>5, Zenon DEF t

\* Bytes read or flushed leave at the front.
LEMMA OrderSuffix ==
  ASSUME NEW n \in Nat, NEW u \in Seq(0 .. n), NEW v \in Seq(0 .. n), NEW d \in BOOLEAN,
         InOrder(u \o v, n, d)
  PROVE  InOrder(v, n, d)
<1> DEFINE s == u \o v
<1>1. Len(u) \in Nat /\ Len(v) \in Nat
  OBVIOUS
<1>2. Len(s) = Len(u) + Len(v) /\ \A i \in 1 .. Len(v) : s[Len(u) + i] = v[i]
  OBVIOUS
<1>3. InOrder(s, n, d)
  BY Zenon
<1>4. \A i \in 1 .. Len(v) : v[i] \in 0 .. n
  OBVIOUS
<1> HIDE DEF s
<1>5. ASSUME NEW i \in 1 .. Len(v), v[i] # NoByte
      PROVE  /\ \A j \in 1 .. i - 1 : v[j] < v[i]
             /\ ~d => \A b \in v[i] + 1 .. n : \E j \in i + 1 .. Len(v) : v[j] = b
  <2>1. Len(u) + i \in 1 .. Len(s) /\ s[Len(u) + i] = v[i]
    BY <1>1, <1>2
  <2>2. /\ \A j \in 1 .. Len(u) + i - 1 : s[j] < v[i]
        /\ ~d => \A b \in v[i] + 1 .. n : \E j \in Len(u) + i + 1 .. Len(s) : s[j] = b
    <3> DEFINE p == Len(u) + i
    <3>1. p \in 1 .. Len(s) /\ s[p] = v[i]
      BY <2>1, Zenon
    <3> HIDE DEF p
    <3>2. /\ \A j \in 1 .. p - 1 : s[j] < s[p]
          /\ ~d => \A b \in s[p] + 1 .. n : \E j \in p + 1 .. Len(s) : s[j] = b
      BY <3>1, <1>3, <1>5, Zenon DEF InOrder
    <3> QED BY <3>1, <3>2 DEF p
  <2>3. ASSUME NEW j \in 1 .. i - 1 PROVE v[j] < v[i]
    <3>1. Len(u) + j \in 1 .. Len(u) + i - 1 /\ s[Len(u) + j] = v[j]
      BY <1>1, <1>2
    <3> QED BY <3>1, <2>2, Zenon
  <2>4. ASSUME ~d, NEW b \in v[i] + 1 .. n PROVE \E j \in i + 1 .. Len(v) : v[j] = b
    <3>1. PICK j \in Len(u) + i + 1 .. Len(s) : s[j] = b
      BY <2>2, <2>4, Zenon
    <3>2. j - Len(u) \in i + 1 .. Len(v) /\ Len(u) + (j - Len(u)) = j
      BY <1>1, <1>2
    <3>3. v[j - Len(u)] = b
      <4>1. j - Len(u) \in 1 .. Len(v)
        BY <3>2, <1>1
      <4>2. s[Len(u) + (j - Len(u))] = v[j - Len(u)]
        BY <4>1, <1>2, Zenon
      <4> QED BY <4>2, <3>1, <3>2, Zenon
    <3> QED BY <3>2, <3>3, Zenon
  <2> QED BY <2>3, <2>4, Zenon
<1> QED BY <1>5, Zenon DEF InOrder

\* A byte the RX FIFO has no room for.
LEMMA OrderDrop ==
  ASSUME NEW n \in Nat, NEW u \in Seq(0 .. n), NEW v \in Seq(0 .. n), NEW x \in 0 .. n,
         NEW d \in BOOLEAN, NEW e \in BOOLEAN, d => e, x = NoByte \/ e,
         InOrder(u \o <<x>> \o v, n, d)
  PROVE  InOrder(u \o v, n, e)
<1> DEFINE s == u \o <<x>> \o v
           t == u \o v
           P(i) == IF i <= Len(u) THEN i ELSE i + 1
<1>1. Len(u) \in Nat /\ Len(v) \in Nat
  OBVIOUS
<1>2. Len(s) = Len(u) + 1 + Len(v) /\ Len(t) = Len(u) + Len(v) /\ s[Len(u) + 1] = x
  OBVIOUS
<1>3. \A i \in 1 .. Len(t) : P(i) \in 1 .. Len(s) /\ s[P(i)] = t[i] /\ t[i] \in 0 .. n
  <2>1. \A i \in 1 .. Len(u) : s[i] = u[i] /\ t[i] = u[i] /\ u[i] \in 0 .. n
    OBVIOUS
  <2>2. \A i \in 1 .. Len(v) : s[Len(u) + 1 + i] = v[i] /\ t[Len(u) + i] = v[i] /\ v[i] \in 0 .. n
    OBVIOUS
  <2> HIDE DEF s, t
  <2> TAKE i \in 1 .. Len(t)
  <2>3. CASE i <= Len(u)
    BY <2>1, <2>3, <1>1, <1>2
  <2>4. CASE ~(i <= Len(u))
    <3>1. i - Len(u) \in 1 .. Len(v) /\ Len(u) + (i - Len(u)) = i
          /\ Len(u) + 1 + (i - Len(u)) = i + 1
      BY <2>4, <1>1, <1>2
    <3>2. s[i + 1] = t[i] /\ t[i] \in 0 .. n
      BY <3>1, <2>2, Zenon
    <3>3. P(i) = i + 1 /\ i + 1 \in 1 .. Len(s)
      BY <2>4, <1>1, <1>2
    <3> QED BY <3>2, <3>3, Zenon
  <2> QED BY <2>3, <2>4, Zenon
<1>4. InOrder(s, n, d)
  BY Zenon
<1> HIDE DEF s, t
<1>5. ASSUME NEW i \in 1 .. Len(t), t[i] # NoByte
      PROVE  /\ \A j \in 1 .. i - 1 : t[j] < t[i]
             /\ ~e => \A b \in t[i] + 1 .. n : \E j \in i + 1 .. Len(t) : t[j] = b
  <2>1. /\ \A j \in 1 .. P(i) - 1 : s[j] < t[i]
        /\ ~d => \A b \in t[i] + 1 .. n : \E j \in P(i) + 1 .. Len(s) : s[j] = b
    BY <1>3, <1>4, <1>5, ZenonT(60) DEF InOrder
  <2>2. ASSUME NEW j \in 1 .. i - 1 PROVE t[j] < t[i]
    <3>1. j \in 1 .. Len(t) /\ P(j) \in 1 .. P(i) - 1
      BY <1>1, <1>2
    <3> QED BY <3>1, <2>1, <1>3, Zenon
  <2>3. ASSUME ~e, NEW b \in t[i] + 1 .. n PROVE \E j \in i + 1 .. Len(t) : t[j] = b
    <3>1. PICK j \in P(i) + 1 .. Len(s) : s[j] = b
      BY <2>1, <2>3, Zenon
    <3>2. t[i] \in Nat /\ b # 0
      BY <1>3
    <3>3. j # Len(u) + 1
      BY <3>1, <3>2, <2>3, <1>2, Zenon DEF NoByte
    <3> DEFINE k == IF j <= Len(u) THEN j ELSE j - 1
    <3>4. k \in i + 1 .. Len(t) /\ P(k) = j
      <4>1. CASE j <= Len(u)
        BY <4>1, <1>1, <1>2
      <4>2. CASE ~(j <= Len(u))
        <5>0. j \in Int
          OBVIOUS
        <5>1. j > Len(u) + 1
          BY <5>0, <4>2, <3>3, <1>1
        <5>2. k = j - 1
          BY <4>2, Zenon
        <5>3. P(j - 1) = j
          BY <5>0, <5>1, <1>1
        <5> QED BY <5>0, <5>1, <5>2, <5>3, <1>1, <1>2
      <4> QED BY <4>1, <4>2, Zenon
    <3>5. k \in 1 .. Len(t)
      BY <3>4
    <3>6. t[k] = b
      BY <3>1, <3>4, <3>5, <1>3, Zenon
    <3> HIDE DEF k
    <3> QED BY <3>4, <3>6, Zenon
  <2> QED BY <2>2, <2>3, Zenon
<1>6. InOrder(t, n, e)
  BY <1>5, Zenon DEF InOrder
<1> QED BY <1>6, Zenon DEF t

\* A byte nobody supplied.
LEMMA OrderZero ==
  ASSUME NEW n \in Nat, NEW u \in Seq(0 .. n), NEW d \in BOOLEAN, InOrder(u, n, d)
  PROVE  InOrder(u \o <<NoByte>>, n, d)
<1> DEFINE t == u \o <<NoByte>>
<1>1. Len(u) \in Nat
  OBVIOUS
<1>2. Len(t) = Len(u) + 1 /\ t[Len(u) + 1] = NoByte /\ \A i \in 1 .. Len(u) : t[i] = u[i]
  OBVIOUS
<1> HIDE DEF t
<1>3. ASSUME NEW i \in 1 .. Len(t), t[i] # NoByte
      PROVE  /\ \A j \in 1 .. i - 1 : t[j] < t[i]
             /\ ~d => \A b \in t[i] + 1 .. n : \E j \in i + 1 .. Len(t) : t[j] = b
  <2>1. i \in 1 .. Len(u) /\ t[i] = u[i] /\ \A j \in 1 .. i : t[j] = u[j]
    BY <1>1, <1>2, <1>3
  <2>2. /\ \A j \in 1 .. i - 1 : u[j] < u[i]
        /\ ~d => \A b \in u[i] + 1 .. n : \E j \in i + 1 .. Len(u) : u[j] = b
    BY <2>1, <1>3, Zenon DEF InOrder
  <2>3. \A j \in i + 1 .. Len(u) : j \in i + 1 .. Len(t) /\ t[j] = u[j]
    BY <1>1, <1>2, <2>1
  <2>4. \A j \in 1 .. i - 1 : t[j] < t[i]
    BY <2>1, <2>2, <1>1
  <2>5. ASSUME ~d, NEW b \in t[i] + 1 .. n PROVE \E j \in i + 1 .. Len(t) : t[j] = b
    <3>1. PICK j \in i + 1 .. Len(u) : u[j] = b
      BY <2>1, <2>2, <2>5, Zenon
    <3> QED BY <3>1, <2>3, Zenon
  <2> QED BY <2>4, <2>5, Zenon
<1>4. InOrder(t, n, d)
  BY <1>3, Zenon DEF InOrder
<1> QED BY <1>4, Zenon DEF t

-----------------------------------------------------------------------------
(* The queue of commands                                                   *)

\* The assumption, one constant at a time.
LEMMA I2cConstants ==
  I2cDepth \in Nat \ {0} /\ Slots \in Nat \ {0} /\ MaxSupply \in Nat
BY I2cAssumption, Zenon

\* The queue goes on behind the instant commands at its head.
LEMMA RunQueueIs ==
  ASSUME NEW q \in Seq(CmdSet), NEW pos, RunQueue(q, pos)
  PROVE  \E k \in 0 .. Len(q) :
           /\ \A i \in 1 .. k : Instant(q[i])
           /\ k = Len(q) \/ ~Instant(q[k + 1])
           /\ IF k = Len(q) THEN op' = NoOp /\ pending' = <<>> /\ supply' = supply
              ELSE /\ op' = Begin(q[k + 1], pos)
                   /\ pending' = SubSeq(q, k + 2, Len(q))
                   /\ supply' = IF q[k + 1][1] = "read" /\ supply # <<>> THEN Tail(supply)
                                ELSE supply
<1> DEFINE At(n) == /\ \A i \in 1 .. n : Instant(q[i])
                    /\ n = Len(q) \/ ~Instant(q[n + 1])
           T == {n \in 0 .. Len(q) : n = Len(q) \/ ~Instant(q[n + 1])}
<1>0. Len(q) \in Nat
  OBVIOUS
<1>1. Len(q) \in T /\ T \subseteq Nat
  BY <1>0
<1>2. PICK n \in T : \A m \in T : n <= m
  BY <1>1, LeastNat, Zenon
<1>3. n \in 0 .. Len(q) /\ At(n)
  <2>1. ASSUME NEW i \in 1 .. n, ~Instant(q[i]) PROVE FALSE
    <3>1. i - 1 \in 0 .. Len(q) /\ (i - 1) + 1 = i /\ ~(n <= i - 1)
      BY <1>0, <1>2
    <3>2. i - 1 \in T
      BY <3>1, <2>1, Zenon
    <3> QED BY <3>1, <3>2, <1>2, Zenon
  <2> QED BY <2>1, <1>2, Zenon
<1>4. \E k \in 0 .. Len(q) : At(k)
  BY <1>3, Zenon
<1> DEFINE k == CHOOSE m \in 0 .. Len(q) : At(m)
<1>5. k \in 0 .. Len(q) /\ At(k)
  BY <1>4, Zenon
<1>6. IF k = Len(q) THEN op' = NoOp /\ pending' = <<>> /\ supply' = supply
      ELSE /\ op' = Begin(q[k + 1], pos)
           /\ pending' = SubSeq(q, k + 2, Len(q))
           /\ supply' = IF q[k + 1][1] = "read" /\ supply # <<>> THEN Tail(supply) ELSE supply
  BY Zenon DEF RunQueue
<1> HIDE DEF k
<1> QED BY <1>5, <1>6, Zenon

\* A byte of the FIFO is its place.
LEMMA TxByteIs ==
  ASSUME NEW pos \in Nat, txCnt \in 0 .. I2cDepth, pos < txCnt
  PROVE  TxByte(pos) = pos
<1>1. pos % I2cDepth = pos
  BY I2cConstants
<1> QED BY <1>1, Zenon DEF TxByte

\* A byte of the FIFO is a number.
LEMMA TxByteInt ==
  ASSUME NEW pos \in Nat
  PROVE  TxByte(pos) \in Int
<1>1. pos % I2cDepth \in Int
  BY I2cConstants
<1> QED BY <1>1 DEF TxByte, Stale

\* What a command of the queue begins with.
LEMMA BeginIs ==
  ASSUME NEW c \in CmdSet, ~Instant(c), NEW pos \in Nat, txCnt \in 0 .. I2cDepth,
         NEW n \in Nat, supply \in Seq(0 .. n)
  PROVE  /\ Shape(Begin(c, pos)) /\ Begin(c, pos) # NoOp
         /\ Begin(c, pos).kind = c[1] /\ Begin(c, pos).phase # "ack"
         /\ c[1] = "read" => Begin(c, pos).byte = NextSupplied
         /\ c[1] = "write" => /\ Begin(c, pos).byte = TxByte(pos)
                              /\ c[2] <= txCnt => Begin(c, pos).left = c[2]
<1>0. I2cDepth \in Nat /\ txCnt \in Nat
  BY I2cConstants
<1>1. NextSupplied \in Int
  BY DEF NextSupplied, NoByte
<1>2. TxByte(pos) \in Int
  BY TxByteInt, Zenon
<1>3. c[1] \in {"write", "read", "cond"}
  BY CmdFacts, Zenon DEF Instant
<1>4. CASE c[1] = "write"
  <2>1. c[2] \in Nat
    BY <1>4, CmdFacts, Zenon
  <2>2. Min({c[2], txCnt}) = IF c[2] <= txCnt THEN c[2] ELSE txCnt
    BY <2>1, <1>0, MinPair, Zenon
  <2>3. Begin(c, pos) = [kind |-> "write", left |-> Min({c[2], txCnt}), byte |-> TxByte(pos),
                         phase |-> "bits"]
    BY <1>4, Zenon DEF Begin, NoOp
  <2> QED BY <2>1, <2>2, <2>3, <1>0, <1>2, <1>4 DEF Shape, OpType, NoOp
<1>5. CASE c[1] = "read"
  <2>1. c[2] \in Nat
    BY <1>5, CmdFacts, Zenon
  <2>2. Begin(c, pos) = [kind |-> "read", left |-> c[2], byte |-> NextSupplied, phase |-> "bits"]
    BY <1>5, Zenon DEF Begin, NoOp
  <2> QED BY <2>1, <2>2, <1>1, <1>5 DEF Shape, OpType, NoOp
<1>6. CASE c[1] = "cond"
  <2>1. Begin(c, pos) = [kind |-> "cond", left |-> 0, byte |-> 0, phase |-> "hold"]
    BY <1>6, Zenon DEF Begin, NoOp
  <2> QED BY <2>1, <1>6 DEF Shape, OpType, NoOp
<1> QED BY <1>3, <1>4, <1>5, <1>6, Zenon

\* A READ has taken the next supplied byte; nothing else touches them.
Takes ==
  \/ op'.kind # "read" /\ supply' = supply
  \/ /\ op'.kind = "read" /\ op'.phase = "bits" /\ op'.byte = NextSupplied
     /\ supply' = IF supply = <<>> THEN supply ELSE Tail(supply)

\* finish_op leaves a command running that is in step with what was asked, or
\* an idle bus with nothing queued.
LEMMA RunQueueKeeps ==
  ASSUME NEW q \in Seq(CmdSet), NEW pos \in Nat, txCnt \in 0 .. I2cDepth, RunQueue(q, pos),
         NEW n \in Nat, supply \in Seq(0 .. n)
  PROVE  /\ pending' \in Seq(CmdSet) /\ Shape(op')
         /\ op' = NoOp => pending' = <<>>
         /\ Takes
         /\ \A a \in Nat : a <= txCnt /\ pos + WriteBytes(q) = a =>
              /\ pos + LeftOf(op') + WriteBytes(pending') = a
              /\ op'.kind = "write" => op'.byte = pos /\ op'.left > 0
<1>1. PICK k \in 0 .. Len(q) :
        /\ \A i \in 1 .. k : Instant(q[i])
        /\ k = Len(q) \/ ~Instant(q[k + 1])
        /\ IF k = Len(q) THEN op' = NoOp /\ pending' = <<>> /\ supply' = supply
           ELSE /\ op' = Begin(q[k + 1], pos)
                /\ pending' = SubSeq(q, k + 2, Len(q))
                /\ supply' = IF q[k + 1][1] = "read" /\ supply # <<>> THEN Tail(supply)
                             ELSE supply
  BY RunQueueIs, Zenon
<1>2. CASE k = Len(q)
  <2>1. op' = NoOp /\ pending' = <<>> /\ supply' = supply
    BY <1>1, <1>2, Zenon
  <2>2. Shape(NoOp) /\ LeftOf(NoOp) = 0 /\ NoOp.kind = "none"
    BY DEF Shape, OpType, NoOp, LeftOf
  <2>3. <<>> \in Seq(CmdSet)
    OBVIOUS
  <2>4. WriteBytes(<<>>) = 0
    <3>1. Len(<<>>) = 0
      BY Zenon
    <3> QED BY <3>1, <2>3, BytesToStep, Zenon DEF WriteBytes
  <2>5. WriteBytes(q) = 0
    BY <1>1, <1>2, QueueSends, Zenon
  <2>6. Takes
    BY <2>1, <2>2, Zenon DEF Takes
  <2> QED BY <2>1, <2>2, <2>3, <2>4, <2>5, <2>6
<1>3. CASE k # Len(q)
  <2> DEFINE c == q[k + 1]
             r == SubSeq(q, k + 2, Len(q))
  <2>1. k < Len(q) /\ c \in CmdSet
    BY <1>3
  <2>2. /\ op' = Begin(c, pos) /\ pending' = r /\ ~Instant(c)
        /\ supply' = IF c[1] = "read" /\ supply # <<>> THEN Tail(supply) ELSE supply
    BY <1>1, <1>3, Zenon
  <2>3. r \in Seq(CmdSet) /\ WriteBytes(r) \in Nat /\ WriteBytes(q) = Sends(c) + WriteBytes(r)
    BY <2>1, <1>1, QueueSends, Zenon
  <2> HIDE DEF c, r
  <2>4. /\ Shape(op') /\ op' # NoOp /\ op'.kind = c[1] /\ op'.phase # "ack"
        /\ c[1] = "read" => op'.byte = NextSupplied
        /\ c[1] = "write" => /\ op'.byte = TxByte(pos)
                             /\ c[2] <= txCnt => op'.left = c[2]
    BY <2>1, <2>2, BeginIs, Zenon
  <2>5. Takes
    BY <2>2, <2>4, Zenon DEF Takes, Shape
  <2>6. ASSUME NEW a \in Nat, a <= txCnt, pos + WriteBytes(q) = a
        PROVE  /\ pos + LeftOf(op') + WriteBytes(pending') = a
               /\ op'.kind = "write" => op'.byte = pos /\ op'.left > 0
    <3> DEFINE w == WriteBytes(r)
               m == Sends(c)
               l == LeftOf(op')
    <3>0. w \in Nat /\ pos + (m + w) = a /\ WriteBytes(pending') = w
      BY <2>2, <2>3, <2>6, Zenon
    <3>1. CASE c[1] = "write"
      <4>1. c[2] \in Nat \ {0} /\ m = c[2]
        BY <2>1, <3>1, CmdFacts, Zenon DEF Sends
      <4> HIDE DEF w, m, l
      <4>2. m <= txCnt /\ pos < txCnt /\ m \in Nat \ {0}
        BY <4>1, <3>0, <2>6, I2cConstants
      <4>3. op'.left = m /\ op'.byte = pos
        BY <4>1, <4>2, <3>1, <2>4, TxByteIs, Zenon
      <4>4. l = m
        BY <4>3, <3>1, <2>4, Zenon DEF LeftOf, l
      <4>5. pos + l + w = a /\ m > 0
        BY <4>2, <4>4, <3>0
      <4> QED BY <4>3, <4>5, <3>0, Zenon DEF l
    <3>2. CASE c[1] # "write"
      <4>1. m = 0 /\ l = 0
        BY <3>2, <2>4, Zenon DEF Sends, LeftOf
      <4> HIDE DEF w, m, l
      <4>2. pos + l + w = a
        BY <4>1, <3>0
      <4> QED BY <4>2, <3>0, <3>2, <2>4, Zenon DEF l
    <3> QED BY <3>1, <3>2, Zenon
  <2> QED BY <2>2, <2>3, <2>4, <2>5, <2>6, Zenon
<1> QED BY <1>2, <1>3, Zenon

-----------------------------------------------------------------------------
(* The steps                                                               *)

\* ReadsInOrder is about the stream.
LEMMA ReadsAreInOrder == ReadsInOrder <=> InOrder(Stream, supplied, dropped)
BY Zenon DEF ReadsInOrder, InOrder

\* Beginning a command, or the next byte of a READ, when no byte is on the bus.
LEMMA TakesKeeps ==
  ASSUME StreamTyped, ReadsInOrder, Takes, ~(op.kind = "read" /\ op.phase = "bits"),
         UNCHANGED <<rxq, supplied, dropped>>
  PROVE  StreamTyped' /\ ReadsInOrder'
<1> DEFINE B == 0 .. supplied
<1>0. rxq \in Seq(B) /\ supply \in Seq(B) /\ supplied \in Nat /\ dropped \in BOOLEAN
      /\ supplied \in 0 .. MaxSupply
  BY I2cConstants DEF StreamTyped
<1>1. Stream = rxq \o supply
  BY <1>0, CatEmpty, Zenon DEF Stream
<1>2. InOrder(rxq \o supply, supplied, dropped)
  BY <1>1, ReadsAreInOrder, Zenon
<1>3. CASE op'.kind # "read" /\ supply' = supply
  <2>1. Stream' = rxq \o supply
    BY <1>0, <1>3, CatEmpty, Zenon DEF Stream
  <2>2. InOrder(Stream, supplied, dropped)'
    BY <2>1, <1>2, Zenon
  <2> QED BY <2>2, <1>0, <1>3, ReadsAreInOrder, Zenon DEF StreamTyped, ReadsInOrder, InOrder
<1>4. CASE op'.kind = "read" /\ op'.phase = "bits" /\ op'.byte = NoByte
           /\ supply = <<>> /\ supply' = supply
  <2>1. InOrder(rxq \o <<NoByte>>, supplied, dropped)
    BY <1>0, <1>2, <1>4, CatEmpty, OrderZero, Zenon
  <2>2. NoByte \in B
    BY <1>0 DEF NoByte
  <2>3. rxq \o <<NoByte>> \in Seq(B)
    BY <1>0, <2>2
  <2>4. Stream' = rxq \o <<NoByte>>
    BY <2>3, <1>4, CatEmpty, Zenon DEF Stream
  <2>5. InOrder(Stream, supplied, dropped)'
    BY <2>1, <2>4, Zenon
  <2> QED BY <2>2, <2>5, <1>0, <1>4, Zenon DEF StreamTyped, ReadsInOrder, InOrder
<1>5. CASE op'.kind = "read" /\ op'.phase = "bits" /\ op'.byte = Head(supply)
           /\ supply # <<>> /\ supply' = Tail(supply)
  <2>1. Head(supply) \in B /\ Tail(supply) \in Seq(B) /\ <<Head(supply)>> \o Tail(supply) = supply
    BY <1>0, <1>5, CatHead, Zenon
  <2>2. <<Head(supply)>> \in Seq(B)
    BY <2>1
  <2>3. rxq \o <<Head(supply)>> \o Tail(supply) = rxq \o supply
    <3> DEFINE h == <<Head(supply)>>
               t == Tail(supply)
    <3>1. h \in Seq(B) /\ t \in Seq(B) /\ rxq \in Seq(B)
      BY <2>1, <2>2, <1>0, Zenon
    <3> HIDE DEF h, t, B
    <3>2. (rxq \o h) \o t = rxq \o (h \o t)
      BY <3>1
    <3> QED BY <2>1, <3>2, Zenon DEF h, t
  <2>4. Stream' = rxq \o supply
    BY <2>3, <1>5, Zenon DEF Stream
  <2>5. InOrder(Stream, supplied, dropped)'
    BY <2>4, <1>2, Zenon
  <2> QED BY <2>1, <2>5, <1>0, <1>5, Zenon DEF StreamTyped, ReadsInOrder, InOrder
<1> QED BY <1>3, <1>4, <1>5, Zenon DEF Takes, NextSupplied

\* A step that leaves the bytes alone leaves their order alone.
LEMMA StreamSame ==
  ASSUME StreamTyped, ReadsInOrder, UNCHANGED <<op, rxq, supply, supplied, dropped>>
  PROVE  StreamTyped' /\ ReadsInOrder'
<1>1. Stream' = Stream
  BY Zenon DEF Stream
<1>2. ReadsInOrder'
  BY <1>1 DEF ReadsInOrder
<1>3. StreamTyped'
  BY Zenon DEF StreamTyped
<1> QED BY <1>2, <1>3, Zenon

\* The controller starts in step.
LEMMA I2cInitIInv == I2cInit => I2cIInv
<1> SUFFICES ASSUME I2cInit PROVE I2cIInv
  BY Zenon
<1> USE DEF I2cInit
<1>1. I2cTypeOK
  BY I2cConstants DEF I2cTypeOK, CmdSet, Slot
<1>2. Shape(op) /\ IdleIsReady
  BY DEF Shape, OpType, NoOp, IdleIsReady
<1>3. StreamTyped
  <2>1. supplied \in 0 .. MaxSupply /\ rxq \in Seq(0 .. supplied) /\ supply \in Seq(0 .. supplied)
        /\ ~(op.kind = "read")
    BY I2cConstants DEF NoOp
  <2>2. dropped \in BOOLEAN
    BY Zenon
  <2> QED BY <2>1, <2>2, Zenon DEF StreamTyped
<1>4. ReadsInOrder
  <2>1. Stream = <<>>
    BY CatEmpty DEF Stream, NoOp
  <2> QED BY <2>1 DEF ReadsInOrder
<1> QED BY <1>1, <1>2, <1>3, <1>4, Zenon DEF I2cIInv, Balance

\* FinishOp after a command with nothing left to send.
LEMMA FinishKeeps ==
  ASSUME I2cIInv, FinishOp, LeftOf(op) = 0, op.phase # "bits",
         UNCHANGED <<comd, txCnt, txPos, rxq, supplied, dropped, asked>>
  PROVE  I2cIInv'
<1>0. pending \in Seq(CmdSet) /\ txPos \in Nat /\ txCnt \in 0 .. I2cDepth
      /\ supplied \in Nat /\ supply \in Seq(0 .. supplied)
  BY I2cConstants DEF I2cIInv, I2cTypeOK, StreamTyped
<1>1. /\ pending' \in Seq(CmdSet) /\ Shape(op')
      /\ op' = NoOp => pending' = <<>>
      /\ Takes
      /\ \A a \in Nat : a <= txCnt /\ txPos + WriteBytes(pending) = a =>
           /\ txPos + LeftOf(op') + WriteBytes(pending') = a
           /\ op'.kind = "write" => op'.byte = txPos /\ op'.left > 0
  BY <1>0, RunQueueKeeps, Zenon DEF FinishOp
<1>2. StreamTyped' /\ ReadsInOrder'
  BY <1>1, TakesKeeps, Zenon DEF I2cIInv
<1>3. I2cTypeOK' /\ IdleIsReady'
  BY <1>1, Zenon DEF I2cIInv, I2cTypeOK, IdleIsReady
<1>4. WriteBytes(pending) \in Nat
  BY <1>0, WriteBytesNat, Zenon
<1>5. Balance'
  BY <1>0, <1>1, <1>4 DEF I2cIInv, Balance
<1> QED BY <1>1, <1>2, <1>3, <1>5, Zenon DEF I2cIInv

\* TRANS_START.
LEMMA TransStartKeeps == I2cIInv /\ TransStart => I2cIInv'
<1> SUFFICES ASSUME I2cIInv, TransStart PROVE I2cIInv'
  BY Zenon
<1>0. comd \in [1 .. Slots -> CmdSet] /\ txCnt \in 0 .. I2cDepth
      /\ supplied \in Nat /\ supply \in Seq(0 .. supplied) /\ Slots \in Nat \ {0}
  BY I2cConstants DEF I2cIInv, I2cTypeOK, StreamTyped, Slot
<1>1. Queued \in Seq(CmdSet)
  <2> DEFINE ends == {s \in Slot : comd[s][1] = "end"}
             n    == IF ends = {} THEN Slots ELSE Min(ends)
  <2>1. n \in 1 .. Slots
    <3>1. CASE ends = {}
      BY <3>1, <1>0
    <3>2. CASE ends # {}
      <4>1. ends \subseteq Nat
        BY <1>0 DEF Slot
      <4>2. PICK m \in ends : \A x \in ends : m <= x
        BY <4>1, <3>2, LeastNat, Zenon
      <4>3. Min(ends) \in ends
        BY <4>2, Zenon DEF Min
      <4> QED BY <4>3, <3>2, <1>0, Zenon DEF Slot
    <3> QED BY <3>1, <3>2, Zenon
  <2>2. Queued = SubSeq(comd, 1, n)
    BY Zenon DEF Queued
  <2> HIDE DEF n
  <2>3. comd \in Seq(CmdSet) /\ Len(comd) = Slots
    BY <1>0
  <2>4. SubSeq(comd, 1, n) \in Seq(CmdSet)
    BY <2>1, <2>3, <1>0
  <2> QED BY <2>2, <2>4, Zenon
<1>2. WriteBytes(Queued) \in Nat
  BY <1>1, WriteBytesNat, Zenon
<1>3. /\ pending' \in Seq(CmdSet) /\ Shape(op')
      /\ op' = NoOp => pending' = <<>>
      /\ Takes
      /\ \A a \in Nat : a <= txCnt /\ 0 + WriteBytes(Queued) = a =>
           /\ 0 + LeftOf(op') + WriteBytes(pending') = a
           /\ op'.kind = "write" => op'.byte = 0 /\ op'.left > 0
  BY <1>0, <1>1, RunQueueKeeps, Zenon DEF TransStart
<1>4. StreamTyped' /\ ReadsInOrder'
  BY <1>3, TakesKeeps, Zenon DEF I2cIInv, TransStart, NoOp
<1>5. I2cTypeOK' /\ IdleIsReady'
  BY <1>3, Zenon DEF I2cIInv, I2cTypeOK, IdleIsReady, TransStart
<1>6. asked' \in Nat \cup {Unknown} /\ Balance'
  BY <1>2, <1>3 DEF Balance, TransStart
<1> QED BY <1>3, <1>4, <1>5, <1>6, Zenon DEF I2cIInv

\* The eight bits of a byte.
LEMMA BitsKeeps ==
  I2cIInv /\ AdvanceBits /\ UNCHANGED <<comd, txCnt, supplied, asked>> => I2cIInv'
<1> SUFFICES ASSUME I2cIInv, AdvanceBits, UNCHANGED <<comd, txCnt, supplied, asked>>
             PROVE  I2cIInv'
  BY Zenon
<1> DEFINE B == 0 .. supplied
<1>0. /\ supplied \in Nat /\ supplied <= MaxSupply /\ MaxSupply \in Nat /\ dropped \in BOOLEAN
      /\ rxq \in Seq(B) /\ supply \in Seq(B) /\ I2cDepth \in Nat
      /\ op.left \in Nat /\ op \in OpType /\ Shape(op) /\ op.phase = "bits"
      /\ txPos \in Nat /\ pending \in Seq(CmdSet) /\ Len(rxq) <= I2cDepth
  BY I2cConstants DEF I2cIInv, I2cTypeOK, StreamTyped, Shape, OpType, AdvanceBits
<1>1. op' = [op EXCEPT !.phase = "ack", !.left = IF op.left = 0 THEN 0 ELSE op.left - 1]
  BY <1>0, MaxZero, Zenon DEF AdvanceBits
<1>2. /\ op'.kind = op.kind /\ op'.phase = "ack" /\ op' \in OpType
      /\ op'.left = IF op.left = 0 THEN 0 ELSE op.left - 1
  <2> DEFINE l == IF op.left = 0 THEN 0 ELSE op.left - 1
  <2>1. l \in Nat /\ op' = [op EXCEPT !.phase = "ack", !.left = l]
    BY <1>0, <1>1
  <2> HIDE DEF l
  <2>2. op'.kind = op.kind /\ op'.phase = "ack" /\ op'.left = l /\ op' \in OpType
    BY <2>1, <1>0, Zenon DEF OpType
  <2> QED BY <2>2, Zenon DEF l
<1>3. Shape(op')
  BY <1>0, <1>2, Zenon DEF Shape
<1>4. op.kind \in {"write", "read"} /\ op' # NoOp
  BY <1>0, <1>2 DEF Shape, NoOp
<1>5. IdleIsReady'
  BY <1>4, Zenon DEF IdleIsReady
<1>6. UNCHANGED <<pending, supply>>
  BY Zenon DEF AdvanceBits
<1>7. CASE op.kind = "write"
  <2>1. txPos' = txPos + 1 /\ UNCHANGED <<rxq, dropped>>
    BY <1>7, Zenon DEF AdvanceBits
  <2>2. I2cTypeOK'
    BY <2>1, <1>6, <1>0 DEF I2cIInv, I2cTypeOK
  <2>3. Stream' = Stream
    BY <2>1, <1>2, <1>6, <1>7, Zenon DEF Stream
  <2>4. StreamTyped' /\ ReadsInOrder'
    <3>1. StreamTyped'
      BY <2>1, <1>2, <1>6, <1>7, Zenon DEF I2cIInv, StreamTyped
    <3>2. ReadsInOrder'
      BY <2>1, <2>3 DEF I2cIInv, ReadsInOrder
    <3> QED BY <3>1, <3>2, Zenon
  <2>5. Balance'
    <3>1. WriteBytes(pending) \in Nat
      BY <1>0, WriteBytesNat, Zenon
    <3>2. ASSUME asked # Unknown
          PROVE  asked <= txCnt /\ txPos + op.left + WriteBytes(pending) = asked /\ op.left > 0
      BY <3>2, <1>0, <1>7, Zenon DEF I2cIInv, Balance, LeftOf
    <3>3. /\ LeftOf(op') = op'.left /\ ~(op'.phase = "bits")
          /\ WriteBytes(pending') = WriteBytes(pending)
      BY <1>2, <1>6, <1>7, Zenon DEF LeftOf
    <3>4. asked # Unknown => txPos + 1 + op'.left + WriteBytes(pending) = asked
      <4> SUFFICES ASSUME asked # Unknown PROVE txPos + 1 + op'.left + WriteBytes(pending) = asked
        BY Zenon
      <4> DEFINE w == WriteBytes(pending)
                 l == op.left
      <4>1. w \in Nat /\ l \in Nat /\ txPos \in Nat /\ l > 0 /\ txPos + l + w = asked
        BY <3>1, <3>2, <1>0, Zenon
      <4>2. op'.left = l - 1
        BY <4>1, <1>2
      <4> HIDE DEF w, l
      <4>3. txPos + 1 + (l - 1) + w = asked
        BY <4>1
      <4> QED BY <4>2, <4>3, Zenon DEF w
    <3> QED BY <3>2, <3>3, <3>4, <2>1, Zenon DEF Balance
  <2> QED BY <2>2, <2>4, <2>5, <1>3, <1>5, Zenon DEF I2cIInv
<1>8. CASE op.kind = "read"
  <2>0. op.byte \in B /\ <<op.byte>> \in Seq(B) /\ Stream = rxq \o <<op.byte>> \o supply
        /\ txPos' = txPos
    BY <1>0, <1>8 DEF I2cIInv, StreamTyped, Stream, AdvanceBits
  <2>1. Stream' = rxq' \o supply
    <3>1. rxq' \in Seq(B)
      <4>1. rxq' = rxq \/ rxq' = Append(rxq, op.byte)
        BY <1>8, Zenon DEF AdvanceBits
      <4>2. Append(rxq, op.byte) \in Seq(B)
        BY <2>0, <1>0
      <4> QED BY <4>1, <4>2, <1>0, Zenon
    <3> QED BY <3>1, <1>2, <1>6, CatEmpty, Zenon DEF Stream
  <2>2. Balance'
    BY <2>0, <1>2, <1>6, <1>8, Zenon DEF I2cIInv, Balance, LeftOf
  <2>3. InOrder(rxq \o <<op.byte>> \o supply, supplied, dropped)
    BY <2>0, ReadsAreInOrder, Zenon DEF I2cIInv
  <2>4. CASE Len(rxq) < I2cDepth
    <3>1. rxq' = Append(rxq, op.byte) /\ dropped' = dropped
      BY <2>4, <1>8, Zenon DEF AdvanceBits
    <3>2. rxq' \in Seq(B) /\ Len(rxq') <= I2cDepth
      BY <3>1, <2>0, <2>4, <1>0
    <3>3. rxq' = rxq \o <<op.byte>>
      BY <3>1, <2>0, <1>0, AppendIs, Zenon
    <3>4. InOrder(Stream, supplied, dropped)'
      BY <3>1, <3>3, <2>1, <2>3, Zenon
    <3>5. ReadsInOrder'
      BY <3>4, Zenon DEF ReadsInOrder, InOrder
    <3>6. rxq' \in Seq(0 .. MaxSupply)
      BY <3>2, <1>0, SeqWider, Zenon
    <3>7. I2cTypeOK'
      BY <3>2, <3>6, <2>0, <1>6, Zenon DEF I2cIInv, I2cTypeOK
    <3>8. StreamTyped'
      BY <3>1, <3>2, <1>2, <1>6, Zenon DEF I2cIInv, StreamTyped
    <3> QED BY <3>5, <3>7, <3>8, <2>2, <1>3, <1>5, Zenon DEF I2cIInv
  <2>5. CASE ~(Len(rxq) < I2cDepth)
    <3>1. rxq' = rxq /\ dropped' = (dropped \/ op.byte # NoByte)
      BY <2>5, <1>8, Zenon DEF AdvanceBits
    <3>2. dropped' \in BOOLEAN /\ (dropped => dropped') /\ (op.byte = NoByte \/ dropped')
      BY <3>1, Zenon
    <3>3. InOrder(rxq \o supply, supplied, dropped')
      BY <3>2, <2>0, <2>3, <1>0, OrderDrop
    <3>4. InOrder(Stream, supplied, dropped)'
      BY <3>1, <3>3, <2>1, Zenon
    <3>5. ReadsInOrder'
      BY <3>4, Zenon DEF ReadsInOrder, InOrder
    <3>7. I2cTypeOK'
      BY <3>1, <2>0, <1>6, Zenon DEF I2cIInv, I2cTypeOK
    <3>8. StreamTyped'
      BY <3>1, <3>2, <1>2, <1>6, Zenon DEF I2cIInv, StreamTyped
    <3> QED BY <3>5, <3>7, <3>8, <2>2, <1>3, <1>5, Zenon DEF I2cIInv
  <2> QED BY <2>4, <2>5, Zenon
<1> QED BY <1>4, <1>7, <1>8, Zenon

\* The acknowledge.
LEMMA AckKeeps ==
  I2cIInv /\ AdvanceAck /\ UNCHANGED <<comd, txCnt, supplied, asked>> => I2cIInv'
<1> SUFFICES ASSUME I2cIInv, AdvanceAck, UNCHANGED <<comd, txCnt, supplied, asked>>
             PROVE  I2cIInv'
  BY Zenon
<1>0. /\ op.left \in Nat /\ op \in OpType /\ Shape(op) /\ op.phase = "ack"
      /\ txPos \in Nat /\ pending \in Seq(CmdSet) /\ op.kind \in {"write", "read"}
      /\ supply \in Seq(0 .. supplied) /\ txCnt \in 0 .. I2cDepth /\ I2cDepth \in Nat
  BY I2cConstants, Zenon DEF I2cIInv, I2cTypeOK, StreamTyped, Shape, OpType, AdvanceAck
<1>1. UNCHANGED <<comd, txCnt, txPos, rxq, supplied, dropped, asked>>
  BY Zenon DEF AdvanceAck
<1>2. CASE op.left = 0
  <2>1. FinishOp /\ LeftOf(op) = 0
    BY <1>2, Zenon DEF AdvanceAck, LeftOf
  <2> QED BY <2>1, <1>0, <1>1, FinishKeeps, Zenon
<1>3. CASE op.left # 0 /\ op.kind = "write"
  <2>1. op' = [op EXCEPT !.phase = "bits", !.byte = TxByte(txPos)] /\ UNCHANGED <<supply, pending>>
    BY <1>3, Zenon DEF AdvanceAck
  <2>2. /\ op' \in OpType /\ op'.kind = "write" /\ op'.phase = "bits" /\ op'.left = op.left
        /\ op'.byte = TxByte(txPos)
    <3>1. TxByte(txPos) \in Int
      BY <1>0, TxByteInt, Zenon
    <3> QED BY <3>1, <2>1, <1>0, <1>3, Zenon DEF OpType
  <2>3. Shape(op') /\ IdleIsReady'
    BY <2>2 DEF Shape, IdleIsReady, NoOp
  <2>4. Takes
    BY <2>1, <2>2, Zenon DEF Takes
  <2>5. StreamTyped' /\ ReadsInOrder'
    BY <2>4, <1>0, <1>1, TakesKeeps, Zenon DEF I2cIInv
  <2>6. Balance'
    <3>1. WriteBytes(pending) \in Nat
      BY <1>0, WriteBytesNat, Zenon
    <3>2. ASSUME asked # Unknown PROVE TxByte(txPos) = txPos
      <4>1. txPos < txCnt
        BY <3>1, <3>2, <1>0, <1>3 DEF I2cIInv, Balance, LeftOf
      <4> QED BY <4>1, <1>0, TxByteIs, Zenon
    <3> QED BY <3>1, <3>2, <2>1, <2>2, <1>0, <1>1, <1>3 DEF I2cIInv, Balance, LeftOf
  <2>7. I2cTypeOK'
    BY <2>1, <1>1, Zenon DEF I2cIInv, I2cTypeOK
  <2> QED BY <2>3, <2>5, <2>6, <2>7, <1>1, Zenon DEF I2cIInv
<1>4. CASE op.left # 0 /\ op.kind = "read"
  <2>1. /\ op' = [op EXCEPT !.phase = "bits", !.byte = NextSupplied] /\ pending' = pending
        /\ supply' = IF supply = <<>> THEN supply ELSE Tail(supply)
    BY <1>4, Zenon DEF AdvanceAck
  <2>2. /\ op' \in OpType /\ op'.kind = "read" /\ op'.phase = "bits"
        /\ op'.byte = NextSupplied
    <3>1. NextSupplied \in Int
      BY <1>0 DEF NextSupplied, NoByte, I2cIInv, StreamTyped
    <3> QED BY <3>1, <2>1, <1>0, <1>4, Zenon DEF OpType
  <2>3. Shape(op') /\ IdleIsReady'
    BY <2>2 DEF Shape, IdleIsReady, NoOp
  <2>4. Takes
    BY <2>1, <2>2, Zenon DEF Takes
  <2>5. StreamTyped' /\ ReadsInOrder'
    BY <2>4, <1>0, <1>1, TakesKeeps, Zenon DEF I2cIInv
  <2>6. Balance'
    BY <2>1, <2>2, <1>1, <1>4, Zenon DEF I2cIInv, Balance, LeftOf
  <2>7. I2cTypeOK'
    BY <2>1, <1>1, Zenon DEF I2cIInv, I2cTypeOK
  <2> QED BY <2>3, <2>5, <2>6, <2>7, <1>1, Zenon DEF I2cIInv
<1> QED BY <1>0, <1>2, <1>3, <1>4, Zenon

\* A phase of the bus.
LEMMA I2cTickKeeps == I2cIInv /\ I2cTick => I2cIInv'
<1> SUFFICES ASSUME I2cIInv, I2cTick PROVE I2cIInv'
  BY Zenon
<1>1. CASE AdvanceHold
  <2>1. LeftOf(op) = 0 /\ op.phase # "bits" /\ FinishOp
        /\ UNCHANGED <<comd, txCnt, txPos, rxq, supplied, dropped, asked>>
    BY <1>1, Zenon DEF AdvanceHold, I2cTick, I2cIInv, Shape, LeftOf
  <2> QED BY <2>1, FinishKeeps, Zenon
<1> QED BY <1>1, BitsKeeps, AckKeeps, Zenon DEF I2cTick

\* Firmware and device.
LEMMA OthersKeep ==
  I2cIInv /\ (WriteComd \/ PushTx \/ ResetTx \/ ResetRx \/ PopRx \/ I2cIntClr \/ Supply)
    => I2cIInv'
<1> SUFFICES ASSUME I2cIInv,
                    WriteComd \/ PushTx \/ ResetTx \/ ResetRx \/ PopRx \/ I2cIntClr \/ Supply
             PROVE  I2cIInv'
  BY Zenon
<1> DEFINE B == 0 .. supplied
<1>0. /\ supplied \in Nat /\ supplied \in 0 .. MaxSupply /\ MaxSupply \in Nat
      /\ dropped \in BOOLEAN /\ I2cDepth \in Nat
      /\ rxq \in Seq(B) /\ supply \in Seq(B) /\ Len(rxq) <= I2cDepth
      /\ txCnt \in 0 .. I2cDepth /\ txPos \in Nat
  BY I2cConstants DEF I2cIInv, I2cTypeOK, StreamTyped
<1> DEFINE m == IF op.kind = "read" /\ op.phase = "bits" THEN <<op.byte>> ELSE <<>>
<1>m. m \in Seq(B) /\ Stream = rxq \o m \o supply
  <2>1. CASE op.kind = "read" /\ op.phase = "bits"
    <3>1. op.byte \in B
      BY <2>1, Zenon DEF I2cIInv, StreamTyped
    <3> QED BY <3>1, <2>1 DEF Stream
  <2>2. CASE ~(op.kind = "read" /\ op.phase = "bits")
    <3>1. m = <<>> /\ Stream = rxq \o <<>> \o supply
      BY <2>2, Zenon DEF Stream
    <3>2. <<>> \in Seq(B)
      OBVIOUS
    <3> HIDE DEF m
    <3> QED BY <3>1, <3>2, Zenon
  <2> QED BY <2>1, <2>2, Zenon
<1> HIDE DEF m
<1>o. InOrder(Stream, supplied, dropped)
  BY ReadsAreInOrder, Zenon DEF I2cIInv
<1>1. CASE WriteComd
  <2>1. comd' \in [Slot -> CmdSet]
    BY <1>1, Zenon DEF WriteComd, I2cIInv, I2cTypeOK
  <2>2. asked' = Unknown /\ UNCHANGED <<pending, op, txCnt, txPos, rxq, supply, supplied, dropped>>
    BY <1>1, Zenon DEF WriteComd
  <2>3. StreamTyped' /\ ReadsInOrder'
    BY <2>2, StreamSame, Zenon DEF I2cIInv
  <2> QED BY <2>1, <2>2, <2>3, Zenon DEF I2cIInv, I2cTypeOK, IdleIsReady, Balance
<1>2. CASE PushTx
  <2>1. txCnt' = txCnt + 1 /\ txCnt < I2cDepth
        /\ UNCHANGED <<comd, pending, op, txPos, rxq, supply, supplied, dropped, asked>>
    BY <1>2, Zenon DEF PushTx
  <2>2. I2cTypeOK'
    BY <2>1, <1>0 DEF I2cIInv, I2cTypeOK
  <2>3. Balance'
    BY <2>1, <1>0 DEF I2cIInv, Balance, LeftOf, Unknown
  <2>4. StreamTyped' /\ ReadsInOrder'
    BY <2>1, StreamSame, Zenon DEF I2cIInv
  <2> QED BY <2>1, <2>2, <2>3, <2>4, Zenon DEF I2cIInv, IdleIsReady
<1>3. CASE ResetTx
  <2>1. txCnt' = 0 /\ asked' = Unknown
        /\ UNCHANGED <<comd, pending, op, txPos, rxq, supply, supplied, dropped>>
    BY <1>3, Zenon DEF ResetTx
  <2>2. I2cTypeOK'
    BY <2>1, <1>0 DEF I2cIInv, I2cTypeOK
  <2>3. StreamTyped' /\ ReadsInOrder'
    BY <2>1, StreamSame, Zenon DEF I2cIInv
  <2> QED BY <2>1, <2>2, <2>3, Zenon DEF I2cIInv, IdleIsReady, Balance
<1>4. CASE ResetRx \/ PopRx
  <2>1. UNCHANGED <<comd, pending, op, txCnt, txPos, supply, supplied, dropped, asked>>
    BY <1>4, Zenon DEF ResetRx, PopRx
  <2>2. \E u \in Seq(B) : rxq = u \o rxq' /\ rxq' \in Seq(B) /\ Len(rxq') <= Len(rxq)
    <3>1. CASE ResetRx
      <4>1. rxq' = <<>> /\ rxq' \in Seq(B) /\ Len(rxq') <= Len(rxq)
        BY <3>1, <1>0 DEF ResetRx
      <4>2. rxq = rxq \o <<>>
        BY <1>0, CatEmpty, Zenon
      <4> QED BY <4>1, <4>2, <1>0, Zenon
    <3>2. CASE PopRx
      <4>1. rxq # <<>> /\ rxq' = Tail(rxq)
        BY <3>2, Zenon DEF PopRx
      <4>2. Head(rxq) \in B /\ Tail(rxq) \in Seq(B) /\ <<Head(rxq)>> \o Tail(rxq) = rxq
        BY <4>1, <1>0, CatHead, Zenon
      <4>3. <<Head(rxq)>> \in Seq(B)
        BY <4>2
      <4>4. Len(Tail(rxq)) <= Len(rxq)
        BY <4>1, <1>0
      <4> QED BY <4>1, <4>2, <4>3, <4>4, Zenon
    <3> QED BY <3>1, <3>2, <1>4, Zenon
  <2>3. PICK u \in Seq(B) : rxq = u \o rxq' /\ rxq' \in Seq(B) /\ Len(rxq') <= Len(rxq)
    BY <2>2, Zenon
  <2>4. Stream' = rxq' \o m \o supply
    BY <2>1, Zenon DEF Stream, m
  <2>5. Stream = u \o Stream' /\ Stream' \in Seq(B)
    <3>1. 0 \in B
      BY <1>0
    <3> HIDE DEF B
    <3> DEFINE r == rxq'
               w == r \o m
    <3>2. r \in Seq(B) /\ m \in Seq(B) /\ u \in Seq(B) /\ supply \in Seq(B)
      BY <2>3, <1>0, <1>m, Zenon
    <3> HIDE DEF r
    <3>3. (u \o r) \o m = u \o w /\ w \in Seq(B)
      BY <3>2, SMTT(60)
    <3> HIDE DEF w
    <3>4. (u \o w) \o supply = u \o (w \o supply) /\ w \o supply \in Seq(B)
      BY <3>2, <3>3, SMTT(60)
    <3> QED BY <3>3, <3>4, <2>3, <2>4, <1>m, Zenon DEF w, r
  <2>6. InOrder(Stream', supplied, dropped)
    BY <2>5, <1>0, <1>o, OrderSuffix
  <2>7. ReadsInOrder'
    BY <2>1, <2>6, Zenon DEF ReadsInOrder, InOrder
  <2>8. rxq' \in Seq(0 .. MaxSupply)
    BY <2>3, <1>0, SeqWider
  <2>9. I2cTypeOK'
    BY <2>1, <2>3, <2>8, <1>0 DEF I2cIInv, I2cTypeOK
  <2>10. StreamTyped'
    BY <2>1, <2>3, Zenon DEF I2cIInv, StreamTyped
  <2> QED BY <2>1, <2>7, <2>9, <2>10, Zenon DEF I2cIInv, IdleIsReady, Balance
<1>5. CASE I2cIntClr
  <2>1. UNCHANGED <<comd, pending, op, txCnt, txPos, rxq, supply, supplied, dropped, asked>>
    BY <1>5, Zenon DEF I2cIntClr
  <2>2. StreamTyped' /\ ReadsInOrder'
    BY <2>1, StreamSame, Zenon DEF I2cIInv
  <2> QED BY <2>1, <2>2, Zenon DEF I2cIInv, I2cTypeOK, IdleIsReady, Balance
<1>6. CASE Supply
  <2>1. /\ supplied' = supplied + 1 /\ supplied < MaxSupply
        /\ supply' = Append(supply, supplied + 1)
        /\ UNCHANGED <<comd, pending, op, txCnt, txPos, rxq, dropped, asked>>
    BY <1>6, Zenon DEF Supply
  <2> DEFINE C == 0 .. supplied + 1
  <2>2. rxq \in Seq(C) /\ supply \in Seq(C) /\ m \in Seq(C) /\ supplied + 1 \in C
    <3>1. supplied + 1 \in Nat /\ supplied <= supplied + 1
      BY <1>0
    <3> QED BY <3>1, <1>0, <1>m, SeqWider
  <2>3. Stream \in Seq(B)
    BY <1>0, <1>m
  <2>4. InOrder(Append(Stream, supplied + 1), supplied + 1, dropped)
    BY <2>3, <1>0, <1>o, OrderAppend, Zenon
  <2>5. Stream' = Append(Stream, supplied + 1)
    <3>1. Stream' = rxq \o m \o Append(supply, supplied + 1)
      BY <2>1, Zenon DEF Stream, m
    <3> HIDE DEF C
    <3>2. rxq \o m \o Append(supply, supplied + 1) = Append(rxq \o m \o supply, supplied + 1)
      BY <2>2
    <3> QED BY <3>1, <3>2, <1>m, Zenon
  <2>6. ReadsInOrder'
    BY <2>1, <2>4, <2>5 DEF ReadsInOrder, InOrder
  <2>7. StreamTyped'
    <3>1. supplied + 1 \in 0 .. MaxSupply /\ Append(supply, supplied + 1) \in Seq(C)
      BY <2>1, <2>2, <1>0
    <3>2. op.kind = "read" /\ op.phase = "bits" => op.byte \in C
      BY <1>0 DEF I2cIInv, StreamTyped
    <3> QED BY <3>1, <3>2, <2>1, <2>2, <1>0, Zenon DEF StreamTyped
  <2>8. I2cTypeOK'
    BY <2>1, Zenon DEF I2cIInv, I2cTypeOK
  <2> QED BY <2>1, <2>6, <2>7, <2>8, Zenon DEF I2cIInv, IdleIsReady, Balance
<1> QED BY <1>1, <1>2, <1>3, <1>4, <1>5, <1>6, Zenon

\* Every step keeps the invariant.
LEMMA I2cNextIInv == I2cIInv /\ [I2cNext]_i2cVars => I2cIInv'
<1> SUFFICES ASSUME I2cIInv, [I2cNext]_i2cVars PROVE I2cIInv'
  BY Zenon
<1>1. CASE UNCHANGED i2cVars
  <2>1. UNCHANGED <<comd, pending, op, txCnt, txPos, rxq, supply, supplied, dropped, asked>>
    BY <1>1, Zenon DEF i2cVars
  <2>2. StreamTyped' /\ ReadsInOrder'
    BY <2>1, StreamSame, Zenon DEF I2cIInv
  <2> QED BY <2>1, <2>2, Zenon DEF I2cIInv, I2cTypeOK, IdleIsReady, Balance
<1> QED BY <1>1, TransStartKeeps, I2cTickKeeps, OthersKeep, Zenon DEF I2cNext

\* The invariant is strong enough.
LEMMA I2cIInvSound == I2cIInv => I2cSound
<1> SUFFICES ASSUME I2cIInv PROVE SendsInOrder
  BY Zenon DEF I2cIInv, I2cSound
<1> SUFFICES ASSUME asked # Unknown
             PROVE  /\ txPos <= asked
                    /\ op.kind = "write" /\ op.phase = "bits" => op.byte = txPos
                    /\ op = NoOp => txPos = asked
  BY Zenon DEF SendsInOrder
<1>1. pending \in Seq(CmdSet) /\ txPos \in Nat /\ LeftOf(op) \in Nat
  BY Zenon DEF I2cIInv, I2cTypeOK, Shape, OpType, LeftOf
<1>2. WriteBytes(pending) \in Nat
  BY <1>1, WriteBytesNat, Zenon
<1>3. ASSUME op = NoOp PROVE txPos = asked
  <2>1. pending = <<>> /\ LeftOf(op) = 0
    BY <1>3, Zenon DEF I2cIInv, IdleIsReady, LeftOf, NoOp
  <2>2. WriteBytes(pending) = 0
    <3>1. Len(pending) = 0
      BY <2>1, Zenon
    <3> QED BY <3>1, <1>1, BytesToStep, Zenon DEF WriteBytes
  <2> QED BY <2>1, <2>2, <1>1 DEF I2cIInv, Balance
<1> QED BY <1>1, <1>2, <1>3 DEF I2cIInv, Balance

\* For any FIFO depth, number of command registers and lengths: an idle bus has
\* no command waiting, a list whose bytes are all in the FIFO sends each of them
\* once and in order, and supplied bytes reach the RX FIFO in order, none lost
\* before that FIFO has met its depth.
THEOREM I2cIsSound == I2cSpec => []I2cSound
<1>1. I2cSpec => []I2cIInv
  BY I2cInitIInv, I2cNextIInv, PTL DEF I2cSpec
<1> QED BY <1>1, I2cIInvSound, PTL

=============================================================================
