--------------------------- MODULE MCPeripherals ---------------------------
(* The peripherals UART, USB-Serial-JTAG, SYSTIMER, TWAI, PCNT, I2C and    *)
(* the RMT capture, and the choice of the app to boot.  They share no      *)
(* variable, so a behaviour drives one of them, named by part, and the     *)
(* others rest.                                                            *)
(*                                                                         *)
(* FIFOs of two bytes overflow and drain; counters modulo five and eight   *)
(* wrap within a few ticks, and a period of two does not divide five.      *)
(* Six updates of three slots use both otadata sectors three times.  Two   *)
(* commands of up to two bytes fill and overrun the I2C FIFOs; four half   *)
(* items are less than the pulses a line makes in six samples.             *)
EXTENDS Uart, UsbSerialJtag, Systimer, Twai, Pcnt, OtaBoot, I2c, RmtCapture

VARIABLE part

all == <<part, uartVars, usjVars, systimerVars, twaiVars, pcntVars, otaVars, i2cVars,
         captureVars>>

Init ==
  /\ part \in {"uart", "usj", "systimer", "twai", "pcnt", "ota", "i2c", "rmt"}
  /\ UartInit /\ UsjInit /\ SystimerInit /\ TwaiInit /\ PcntInit /\ OtaInit
  /\ I2cInit /\ CaptureInit

UartPart ==
  /\ part = "uart" /\ UartNext
  /\ UNCHANGED <<part, usjVars, systimerVars, twaiVars, pcntVars, otaVars, i2cVars, captureVars>>
UsjPart ==
  /\ part = "usj" /\ UsjNext
  /\ UNCHANGED <<part, uartVars, systimerVars, twaiVars, pcntVars, otaVars, i2cVars, captureVars>>
SystimerPart ==
  /\ part = "systimer" /\ SystimerNext
  /\ UNCHANGED <<part, uartVars, usjVars, twaiVars, pcntVars, otaVars, i2cVars, captureVars>>
TwaiPart ==
  /\ part = "twai" /\ TwaiNext
  /\ UNCHANGED <<part, uartVars, usjVars, systimerVars, pcntVars, otaVars, i2cVars, captureVars>>
PcntPart ==
  /\ part = "pcnt" /\ PcntNext
  /\ UNCHANGED <<part, uartVars, usjVars, systimerVars, twaiVars, otaVars, i2cVars, captureVars>>
OtaPart ==
  /\ part = "ota" /\ OtaNext
  /\ UNCHANGED <<part, uartVars, usjVars, systimerVars, twaiVars, pcntVars, i2cVars, captureVars>>
I2cPart ==
  /\ part = "i2c" /\ I2cNext
  /\ UNCHANGED <<part, uartVars, usjVars, systimerVars, twaiVars, pcntVars, otaVars, captureVars>>
RmtPart ==
  /\ part = "rmt" /\ CaptureNext
  /\ UNCHANGED <<part, uartVars, usjVars, systimerVars, twaiVars, pcntVars, otaVars, i2cVars>>

Next ==
  \/ UartPart \/ UsjPart \/ SystimerPart \/ TwaiPart
  \/ PcntPart \/ OtaPart \/ I2cPart \/ RmtPart

\* Every step of the machine ticks the peripherals whose clock is on.
Fairness ==
  /\ WF_uartVars(part = "uart" /\ UartTick)
  /\ WF_usjVars(part = "usj" /\ UsjTick)
  /\ WF_systimerVars(part = "systimer" /\ stQuiet /\ unit.on /\ SystimerTick)
  /\ WF_i2cVars(part = "i2c" /\ I2cTick)
  /\ WF_captureVars(part = "rmt" /\ rmtQuiet /\ RmtTick)

Spec == Init /\ [][Next]_all /\ Fairness

\* A started transfer ends: the command list of the I2C master whatever
\* firmware does to its FIFOs, a capture whatever the line does.
TransfersEnd == ListEnds /\ CaptureEnds
=============================================================================
