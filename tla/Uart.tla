-------------------------------- MODULE Uart --------------------------------
(***************************************************************************)
(* One UART (uart.rs) as the SoC drives it.  Bytes are counted, not        *)
(* stored: hold is the length of tx_hold, rx.n that of the RX FIFO.  The   *)
(* EMPTY, DONE and CTS_CHG latches, RXD_CNT and the RX-edge flag are left  *)
(* out: no guard of this machine reads them.                               *)
(***************************************************************************)
EXTENDS Integers, FiniteSetsExt

CONSTANTS
  FifoDepth,  \* the depth of both FIFOs (FIFO_DEPTH)
  Threshold,  \* the RXFIFO_FULL thresholds firmware programs
  ToutTicks   \* RX-idle ticks of a timeout: threshold times bit time

ASSUME UartAssumption ==
  /\ FifoDepth \in Nat \ {0} /\ ToutTicks \in Nat \ {0}
  /\ Threshold \subseteq Nat /\ Max(Threshold) \in Threshold

VARIABLES
  flow, brk, loop,  \* CONF0: TX_FLOW_EN, TXD_BRK, LOOPBACK
  echo,             \* RS485_CONF: both bits of the echo
  conf1,            \* [thr, tout]: full threshold, timeout enable
  cts,              \* the CTSn level, 1 stops a flow-controlled transmitter
  hold,             \* bytes waiting in tx_hold
  rx,               \* [n, count, idle, full, tout]: FIFO, STATUS count,
                    \* tout_idle and the two RX bits of INT_RAW
  uartClk,          \* the SYSTEM clock of this UART is on
  uartQuiet,        \* firmware leaves the UART alone from now on
  fullAck           \* history: FULL was cleared by INT_CLR since it was raised

uartConf == <<flow, brk, loop, echo, conf1, uartClk, uartQuiet>>
uartVars == <<uartConf, cts, hold, rx, fullAck>>

UartInit ==
  /\ flow = FALSE /\ brk = FALSE /\ loop = FALSE /\ echo = FALSE
  /\ conf1 = [thr |-> Max(Threshold), tout |-> FALSE]
  /\ cts = 1 /\ hold = 0
  /\ rx = [n |-> 0, count |-> 0, idle |-> 0, full |-> FALSE, tout |-> FALSE]
  /\ uartClk = TRUE /\ uartQuiet = FALSE /\ fullAck = FALSE

CanTx(level) == ~flow \/ level = 0

AtLeastOne(t) == IF t = 0 THEN 1 ELSE t

\* How often the receiver hears a transmitted byte.
Heard(e) == (IF e THEN 1 ELSE 0) + (IF loop THEN 1 ELSE 0)

-----------------------------------------------------------------------------
(* The receiver                                                            *)

\* Mutant: an arrival restarts the idle count even when it is dropped.
InjectDropRestarts(k) ==
  LET n == Min({rx.n + k, FifoDepth})
  IN  [rx EXCEPT !.n = n, !.count = n, !.idle = IF k > 0 THEN 0 ELSE @,
                 !.full = @ \/ n >= AtLeastOne(conf1.thr)]

\* k calls of inject_rx: what does not fit is dropped and leaves no trace.
InjectRx(k) ==
  LET n == Min({rx.n + k, FifoDepth})
  IN  IF n = rx.n THEN rx
      ELSE [rx EXCEPT !.n = n, !.count = n, !.idle = 0,
                      !.full = @ \/ n >= AtLeastOne(conf1.thr)]

\* FULL keeps its acknowledgement until it is raised again.
Ack == fullAck' = (fullAck /\ rx'.full = rx.full)

HostInject ==
  /\ rx' = InjectRx(1) /\ Ack
  /\ UNCHANGED <<uartConf, cts, hold>>

\* A read of the FIFO register; the FULL line drops once it is empty.
ReadFifo ==
  /\ ~uartQuiet /\ rx.n > 0
  /\ rx' = [rx EXCEPT !.n = @ - 1, !.count = rx.n - 1, !.full = @ /\ rx.n > 1]
  /\ fullAck' = (fullAck /\ rx.n > 1)
  /\ UNCHANGED <<uartConf, cts, hold>>

\* The DMA path pops several bytes; it does not touch FULL.
TakeRx ==
  /\ ~uartQuiet
  /\ \E k \in 1 .. rx.n : rx' = [rx EXCEPT !.n = @ - k, !.count = rx.n - k]
  /\ UNCHANGED <<uartConf, cts, hold, fullAck>>

-----------------------------------------------------------------------------
(* The transmitter and the registers                                       *)

WriteFifo ==
  /\ ~uartQuiet /\ ~brk
  /\ IF CanTx(cts)
     THEN rx' = InjectRx(Heard(echo)) /\ Ack /\ UNCHANGED hold
     ELSE hold' = Min({hold + 1, FifoDepth}) /\ UNCHANGED <<rx, fullAck>>
  /\ UNCHANGED <<uartConf, cts>>

WriteConf0 ==
  /\ ~uartQuiet
  /\ flow' \in BOOLEAN /\ brk' \in BOOLEAN /\ loop' \in BOOLEAN
  /\ UNCHANGED <<echo, conf1, uartClk, uartQuiet, cts, hold, rx, fullAck>>

WriteRs485 ==
  /\ ~uartQuiet
  /\ echo' = ~echo
  /\ UNCHANGED <<flow, brk, loop, conf1, uartClk, uartQuiet, cts, hold, rx, fullAck>>

WriteConf1 ==
  /\ ~uartQuiet
  /\ conf1' \in [thr : Threshold, tout : BOOLEAN]
  /\ LET reached == rx.n >= AtLeastOne(conf1'.thr)
     IN  /\ rx' = [rx EXCEPT !.full = @ \/ reached]
         /\ fullAck' = (fullAck /\ ~reached)
  /\ UNCHANGED <<flow, brk, loop, echo, uartClk, uartQuiet, cts, hold>>

UartIntClr ==
  /\ ~uartQuiet
  /\ \E f, t \in BOOLEAN :
       /\ rx' = [rx EXCEPT !.full = @ /\ ~f, !.tout = @ /\ ~t]
       /\ fullAck' = (fullAck \/ (f /\ rx.full))
  /\ UNCHANGED <<uartConf, cts, hold>>

UartClockGate ==
  /\ ~uartQuiet
  /\ uartClk' = ~uartClk
  /\ UNCHANGED <<flow, brk, loop, echo, conf1, uartQuiet, cts, hold, rx, fullAck>>

UartLeave ==
  /\ ~uartQuiet /\ uartQuiet' = TRUE
  /\ UNCHANGED <<flow, brk, loop, echo, conf1, uartClk, cts, hold, rx, fullAck>>

-----------------------------------------------------------------------------
(* Time                                                                    *)

\* Mutant: a CTS edge is only recorded, and flushed by the tick.
FlushesOnTick(level) == hold > 0 /\ uartClk /\ CanTx(level)

\* set_cts flushes on a falling edge, tick whenever the transmitter may run.
Flushes(level) ==
  hold > 0 /\ ((cts = 1 /\ level = 0) \/ (uartClk /\ CanTx(level)))

\* The SoC samples CTS of every UART, then ticks those whose clock runs.
UartTick ==
  \E level \in {0, 1} :
    LET flush == Flushes(level)
        r     == IF flush THEN InjectRx(hold * Heard(echo /\ ~brk)) ELSE rx
        count == uartClk /\ r.n > 0 /\ conf1.tout
        late  == count /\ r.idle + 1 >= ToutTicks
    IN  /\ cts' = level
        /\ hold' = IF flush THEN 0 ELSE hold
        /\ rx' = [r EXCEPT !.tout = @ \/ late,
                           !.idle = IF late THEN 0 ELSE IF count THEN @ + 1 ELSE @]
        /\ Ack
        /\ UNCHANGED uartConf

UartNext ==
  \/ HostInject \/ ReadFifo \/ TakeRx \/ WriteFifo \/ WriteConf0 \/ WriteRs485
  \/ WriteConf1 \/ UartIntClr \/ UartClockGate \/ UartLeave \/ UartTick

-----------------------------------------------------------------------------
(* Properties                                                              *)

\* Both FIFOs stay within their depth, the registers within their fields.
UartTypeOK ==
  /\ {flow, brk, loop, echo, uartClk, uartQuiet, fullAck} \subseteq BOOLEAN
  /\ conf1 \in [thr : Threshold, tout : BOOLEAN]
  /\ cts \in {0, 1} /\ hold \in 0 .. FifoDepth
  /\ rx \in [n : 0 .. FifoDepth, count : 0 .. FifoDepth, idle : 0 .. ToutTicks - 1,
             full : BOOLEAN, tout : BOOLEAN]

\* While flow control is on, a byte that may go straight to the line finds no
\* held byte before it (write32 does not look at tx_hold).
HeldGoesFirst == flow /\ CanTx(cts) => hold = 0

\* The count firmware sizes its reads with is the length of the FIFO, whether
\* host, echo, loop-back or a flush fills it and whether the CPU or DMA reads.
CountIsLength == rx.count = rx.n

\* A FIFO at its threshold has raised FULL, unless firmware cleared it since.
FullSeen == rx.n >= AtLeastOne(conf1.thr) => rx.full \/ fullAck

\* Unread input is reported by the timeout, even when the host never pauses.
InputReported == (uartQuiet /\ uartClk /\ conf1.tout /\ rx.n > 0) ~> rx.tout

\* Bytes held when flow control is turned off reach the line.
HeldLeaves == (uartQuiet /\ uartClk /\ ~flow /\ hold > 0) ~> (hold = 0)

\* The safety of the port: bytes wait in order, and what firmware reads of the
\* FIFO, its count and its interrupt, is true of it.
UartSound == UartTypeOK /\ HeldGoesFirst /\ CountIsLength /\ FullSeen

\* Neither direction stalls: input is reported and held output leaves.
UartProgress == InputReported /\ HeldLeaves
=============================================================================
