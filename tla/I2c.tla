-------------------------------- MODULE I2c ---------------------------------
(***************************************************************************)
(* The master side of an I2C controller (i2c.rs).  TRANS_START queues the  *)
(* command list up to END and runs it, one bus phase at a time; bytes come *)
(* from the TX FIFO, which a master never drains, and from what a virtual  *)
(* device supplied.  A TX byte is told apart by its place in the FIFO, a   *)
(* supplied byte by its turn.                                              *)
(***************************************************************************)
EXTENDS Integers, Sequences, FiniteSetsExt

CONSTANTS
  I2cDepth,    \* FIFO_DEPTH
  Slots,       \* the command registers, 8
  ByteNum,     \* the lengths of a WRITE or READ
  MaxSupply    \* bound: bytes the device supplies

ASSUME I2cAssumption ==
  /\ {I2cDepth, Slots} \subseteq Nat \ {0} /\ MaxSupply \in Nat
  /\ ByteNum \subseteq Nat \ {0}

VARIABLES
  comd,        \* the command registers, without their COMD_DONE bits
  pending,     \* the queued commands
  op,          \* the running one, NoOp when the bus is idle
  txCnt,       \* bytes in the TX FIFO
  txPos,       \* tx_pos, the bytes sent in this transaction
  rxq,         \* the RX FIFO
  supply,      \* pending_rx
  compl,       \* END_DETECT and TRANS_COMPLETE of INT_RAW, raised together
  supplied,    \* history: bytes the device has supplied
  dropped,     \* history: a supplied byte met a full RX FIFO
  asked        \* history: bytes the list sends, Unknown if not all in the FIFO

i2cVars == <<comd, pending, op, txCnt, txPos, rxq, supply, compl, supplied,
             dropped, asked>>

Slot == 1 .. Slots

\* The commands, <<opcode, byte_num>>.  "cond" stands for RSTART and STOP, which
\* only hold the lines for a while, "none" for an undefined opcode, which the
\* registers hold after reset.
CmdSet ==
  ({"write", "read"} \X ByteNum) \cup ({"cond", "end", "none"} \X {0})

Unknown == -1
Stale == -1           \* a FIFO cell beyond the bytes written
NoByte == 0           \* a read byte nobody supplied, 0xFF on the bus

NoOp == [kind |-> "none", left |-> 0, byte |-> 0, phase |-> "none"]

I2cInit ==
  /\ comd = [s \in Slot |-> <<"none", 0>>]
  /\ pending = <<>> /\ op = NoOp
  /\ txCnt = 0 /\ txPos = 0 /\ rxq = <<>> /\ supply = <<>> /\ compl = FALSE
  /\ supplied = 0 /\ dropped = FALSE /\ asked = Unknown

-----------------------------------------------------------------------------
(* The command list                                                        *)

\* tx_byte at place pos: empty, the FIFO reads as ones.
TxByte(pos) == IF pos % I2cDepth < txCnt THEN pos % I2cDepth ELSE Stale

NextSupplied == IF supply = <<>> THEN NoByte ELSE Head(supply)

\* run_command for a command that uses the bus; pos is tx_pos.  A WRITE of an
\* empty FIFO sends a dummy byte and is not acknowledged.
Begin(q, pos) ==
  LET o == [NoOp EXCEPT !.kind = q[1]]
  IN  CASE q[1] = "write" ->
             [o EXCEPT !.phase = "bits", !.left = Min({q[2], txCnt}), !.byte = TxByte(pos)]
        [] q[1] = "read" ->
             [o EXCEPT !.phase = "bits", !.left = q[2], !.byte = NextSupplied]
        [] OTHER -> [o EXCEPT !.phase = "hold"]

\* END and the undefined opcodes complete without the bus.
Instant(q) == q[1] \in {"end", "none"}

\* finish_op and run_command: the queue q goes on with its
\* first command that uses the bus, completing the instant ones before it.
RunQueue(q, pos) ==
  LET k == CHOOSE n \in 0 .. Len(q) :
             /\ \A i \in 1 .. n : Instant(q[i])
             /\ n = Len(q) \/ ~Instant(q[n + 1])
  IN  /\ compl' = (compl \/ k > 0)
      /\ IF k = Len(q) THEN op' = NoOp /\ pending' = <<>> /\ supply' = supply
         ELSE /\ op' = Begin(q[k + 1], pos)
              /\ pending' = SubSeq(q, k + 2, Len(q))
              /\ supply' = IF q[k + 1][1] = "read" /\ supply # <<>> THEN Tail(supply) ELSE supply

FinishOp == RunQueue(pending, txPos)

\* The commands TRANS_START queues: up to the first END.
Queued ==
  LET ends == {s \in Slot : comd[s][1] = "end"}
      n    == IF ends = {} THEN Slots ELSE Min(ends)
  IN  SubSeq(comd, 1, n)

\* The bytes that WRITEs among the first i commands of q send.
BytesTo(q) ==
  LET sum[i \in 0 .. Len(q)] ==
        IF i = 0 THEN 0 ELSE sum[i - 1] + (IF q[i][1] = "write" THEN q[i][2] ELSE 0)
  IN  sum

WriteBytes(q) == BytesTo(q)[Len(q)]

\* TRANS_START; while a list runs it does nothing.
TransStart ==
  /\ op = NoOp /\ pending = <<>>
  /\ txPos' = 0
  /\ RunQueue(Queued, 0)
  /\ asked' = IF WriteBytes(Queued) <= txCnt THEN WriteBytes(Queued) ELSE Unknown
  /\ UNCHANGED <<comd, txCnt, rxq, supplied, dropped>>

-----------------------------------------------------------------------------
(* The bus, one phase per tick                                             *)

\* The hold of RSTART, or the last one of STOP.
AdvanceHold == op.phase = "hold" /\ FinishOp /\ UNCHANGED <<txPos, rxq, dropped>>

\* The last of the eight bits.
AdvanceBits ==
  /\ op.phase = "bits"
  /\ op' = [op EXCEPT !.phase = "ack", !.left = Max({op.left - 1, 0})]
  /\ IF op.kind = "write" THEN txPos' = txPos + 1 /\ UNCHANGED <<rxq, dropped>>
     ELSE IF Len(rxq) < I2cDepth THEN rxq' = Append(rxq, op.byte) /\ UNCHANGED <<txPos, dropped>>
     ELSE dropped' = (dropped \/ op.byte # NoByte) /\ UNCHANGED <<txPos, rxq>>
  /\ UNCHANGED <<pending, supply, compl>>

\* Mutant: the next byte of a READ is looked at, not taken.
AdvanceAckPeeks ==
  /\ op.phase = "ack"
  /\ IF op.left = 0 THEN FinishOp
     ELSE /\ op' = [op EXCEPT !.phase = "bits",
                    !.byte = IF op.kind = "write" THEN TxByte(txPos) ELSE NextSupplied]
          /\ UNCHANGED <<supply, pending, compl>>
  /\ UNCHANGED <<txPos, rxq, dropped>>

\* The acknowledge: the next byte, or the end of the command.
AdvanceAck ==
  /\ op.phase = "ack"
  /\ IF op.left = 0 THEN FinishOp
     ELSE /\ IF op.kind = "write"
             THEN op' = [op EXCEPT !.phase = "bits", !.byte = TxByte(txPos)] /\ supply' = supply
             ELSE /\ op' = [op EXCEPT !.phase = "bits", !.byte = NextSupplied]
                  /\ supply' = IF supply = <<>> THEN supply ELSE Tail(supply)
          /\ UNCHANGED <<pending, compl>>
  /\ UNCHANGED <<txPos, rxq, dropped>>

I2cTick ==
  /\ AdvanceHold \/ AdvanceBits \/ AdvanceAck
  /\ UNCHANGED <<comd, txCnt, supplied, asked>>

-----------------------------------------------------------------------------
(* Firmware and device                                                     *)

\* The driver programs a command register while no list runs.
WriteComd ==
  /\ op = NoOp
  /\ \E s \in Slot, c \in CmdSet : comd' = [comd EXCEPT ![s] = c]
  /\ asked' = Unknown
  /\ UNCHANGED <<pending, op, txCnt, txPos, rxq, supply, compl, supplied, dropped>>

PushTx ==
  /\ txCnt < I2cDepth /\ txCnt' = txCnt + 1
  /\ UNCHANGED <<comd, pending, op, txPos, rxq, supply, compl, supplied, dropped, asked>>

\* FIFO_CONF: either reset, also under a running list.
ResetTx ==
  /\ txCnt' = 0 /\ asked' = Unknown
  /\ UNCHANGED <<comd, pending, op, txPos, rxq, supply, compl, supplied, dropped>>

ResetRx ==
  /\ rxq' = <<>>
  /\ UNCHANGED <<comd, pending, op, txCnt, txPos, supply, compl, supplied, dropped, asked>>

PopRx ==
  /\ rxq # <<>> /\ rxq' = Tail(rxq)
  /\ UNCHANGED <<comd, pending, op, txCnt, txPos, supply, compl, supplied, dropped, asked>>

I2cIntClr ==
  /\ compl' = FALSE
  /\ UNCHANGED <<comd, pending, op, txCnt, txPos, rxq, supply, supplied, dropped, asked>>

\* inject_rx, before or during a READ.
Supply ==
  /\ supplied < MaxSupply /\ supplied' = supplied + 1
  /\ supply' = Append(supply, supplied')
  /\ UNCHANGED <<comd, pending, op, txCnt, txPos, rxq, compl, dropped, asked>>

I2cNext ==
  \/ WriteComd \/ TransStart \/ I2cTick
  \/ PushTx \/ ResetTx \/ ResetRx \/ PopRx \/ I2cIntClr \/ Supply

-----------------------------------------------------------------------------
(* Properties                                                              *)

\* FIFOs stay within their depth.
I2cTypeOK ==
  /\ comd \in [Slot -> CmdSet]
  /\ txCnt \in 0 .. I2cDepth /\ txPos \in Nat
  /\ rxq \in Seq(0 .. MaxSupply) /\ Len(rxq) <= I2cDepth
  /\ pending \in Seq(CmdSet)

\* An idle bus has no command waiting: the next TRANS_START is obeyed
\* (finish_op: "otherwise pending_len stays > 0 and the next trans_start()
\* bails forever").
IdleIsReady == op = NoOp => pending = <<>>

\* A list whose bytes are all in the FIFO sends them in order, each once, over
\* all its WRITEs; when repeated it starts again with the first.
SendsInOrder ==
  asked # Unknown =>
    /\ txPos <= asked
    /\ op.kind = "write" /\ op.phase = "bits" => op.byte = txPos
    /\ op = NoOp => txPos = asked

\* What has been received and not read, the byte on the bus, and what the
\* device has yet to send.
Stream ==
  rxq \o (IF op.kind = "read" /\ op.phase = "bits" THEN <<op.byte>> ELSE <<>>) \o supply

\* Supplied bytes pass through the bus into the RX FIFO in their order, and
\* before the FIFO has met its depth none is lost: those that the device
\* supplied after a byte are all behind it.
ReadsInOrder ==
  \A i \in 1 .. Len(Stream) : Stream[i] # NoByte =>
    /\ \A j \in 1 .. i - 1 : Stream[j] < Stream[i]
    /\ ~dropped => \A b \in Stream[i] + 1 .. supplied :
                     \E j \in i + 1 .. Len(Stream) : Stream[j] = b

\* A list that was started comes to its end, whatever firmware does to the
\* FIFOs meanwhile.
ListEnds == op # NoOp ~> op = NoOp

\* The safety of the master: a list leaves nothing behind that would block the
\* next, and bytes keep their order in both directions.
I2cSound == I2cTypeOK /\ IdleIsReady /\ SendsInOrder /\ ReadsInOrder
=============================================================================
