--------------------------- MODULE GatewayBridge ---------------------------
(***************************************************************************)
(* Bridge mode of the network gateway (tools/gateway/bridge.go and the     *)
(* bridge branch of the request handler in main.go). One TAP interface is  *)
(* shared by all clients of the mode. It is created by the first request   *)
(* after the mode is enabled and destroyed by the last client to leave or  *)
(* by the operator's "bridge disable". Goroutines: one per client, one     *)
(* read loop per TAP, the operator's command loop.                         *)
(*                                                                         *)
(* bt.ifce is set to nil under bt.mutex, and used without it by the read   *)
(* loop, by the clients and by the status command. A use of nil in a       *)
(* client's goroutine is a panic net/http recovers, with the deferred      *)
(* function run; in the other two goroutines it ends the process.          *)
(***************************************************************************)

CONSTANTS BridgeClients, Tap, NoTap

ASSUME BridgeAssumption == NoTap \notin Tap

VARIABLES
  bridgeEnabled,
  bridgeTAP,  \* the current TAP
  ifce,       \* TAP -> "up" from creation to cleanup, "nil" after it
  tapClients, \* TAP -> the clients in bt.clients
  bpc,        \* client -> where its goroutine is
  bt,         \* client -> its local variable bt
  connOpen,   \* client -> its connection has not been closed by the gateway
  loop,       \* TAP -> its read loop: about to call Read, in it, or "ended"
  op,         \* the operator's command loop
  opTap,      \* its local variable bt
  crashed     \* the process has panicked

bridgeVars == <<bridgeEnabled, bridgeTAP, ifce, tapClients, bpc, bt, connOpen,
                loop, op, opTap, crashed>>
tapState == <<ifce, tapClients, loop>>
clientState == <<bpc, bt, connOpen>>
operator == <<op, opTap>>

BridgeInit ==
  /\ bridgeEnabled = FALSE /\ bridgeTAP = NoTap
  /\ ifce = [t \in Tap |-> "nil"] /\ tapClients = [t \in Tap |-> {}]
  /\ loop = [t \in Tap |-> "ended"]
  /\ bpc = [c \in BridgeClients |-> "idle"] /\ bt = [c \in BridgeClients |-> NoTap]
  /\ connOpen = [c \in BridgeClients |-> FALSE]
  /\ op = "idle" /\ opTap = NoTap /\ crashed = FALSE

UnusedTap(t) ==
  /\ ifce[t] = "nil" /\ loop[t] = "ended" /\ bridgeTAP # t /\ opTap # t
  /\ \A c \in BridgeClients : bt[c] # t

-----------------------------------------------------------------------------
(* Clients                                                                 *)

\* Under bridgeMutex: use the current TAP or create it. Creation may fail;
\* the request is then answered with an error and nothing has changed.
TakeTap(c) ==
  /\ bpc[c] = "idle" /\ bridgeEnabled
  /\ \E t \in Tap :
       /\ IF bridgeTAP = NoTap
          THEN /\ UnusedTap(t)
               /\ bridgeTAP' = t
               /\ ifce' = [ifce EXCEPT ![t] = "up"]
               /\ loop' = [loop EXCEPT ![t] = "calling"]
          ELSE t = bridgeTAP /\ UNCHANGED <<bridgeTAP, ifce, loop>>
       /\ bt' = [bt EXCEPT ![c] = t]
  /\ bpc' = [bpc EXCEPT ![c] = "joining"]
  /\ UNCHANGED <<bridgeEnabled, tapClients, connOpen, operator, crashed>>

BridgeUpgradeFails(c) ==
  /\ bpc[c] = "joining"
  /\ bpc' = [bpc EXCEPT ![c] = "idle"] /\ bt' = [bt EXCEPT ![c] = NoTap]
  /\ UNCHANGED <<bridgeEnabled, bridgeTAP, tapState, connOpen, operator, crashed>>

JoinTap(c) ==
  /\ bpc[c] = "joining"
  /\ bpc' = [bpc EXCEPT ![c] = "in"]
  /\ tapClients' = [tapClients EXCEPT ![bt[c]] = @ \cup {c}]
  /\ connOpen' = [connOpen EXCEPT ![c] = TRUE]
  /\ UNCHANGED <<bridgeEnabled, bridgeTAP, ifce, loop, bt, operator, crashed>>

\* The first half of the deferred function of handleBridgeClient. It runs
\* when reading from the client fails, when the TAP refuses its frame, and
\* when bt.ifce.Write panics on a destroyed TAP.
LeaveTap(c) ==
  /\ bpc[c] = "in"
  /\ connOpen' = [connOpen EXCEPT ![c] = FALSE]
  /\ tapClients' = [tapClients EXCEPT ![bt[c]] = @ \ {c}]
  /\ IF tapClients'[bt[c]] = {}
     THEN bpc' = [bpc EXCEPT ![c] = "cleaning"] /\ UNCHANGED bt
     ELSE bpc' = [bpc EXCEPT ![c] = "idle"] /\ bt' = [bt EXCEPT ![c] = NoTap]
  /\ UNCHANGED <<bridgeEnabled, bridgeTAP, ifce, loop, operator, crashed>>

\* Mutant: the ping goroutine does not watch the context of the TAP.
CloseStaleNever(c) ==
  /\ bpc[c] = "in" /\ connOpen[c] /\ FALSE
  /\ UNCHANGED bridgeVars

\* The ping goroutine of a client sees the context of the TAP done and
\* closes the connection.
CloseStale(c) ==
  /\ bpc[c] = "in" /\ connOpen[c] /\ ifce[bt[c]] = "nil"
  /\ connOpen' = [connOpen EXCEPT ![c] = FALSE]
  /\ UNCHANGED <<bridgeEnabled, bridgeTAP, tapState, bpc, bt, operator, crashed>>

\* Reading from a connection the gateway has closed fails.
ReadFails(c) == bpc[c] = "in" /\ ~connOpen[c] /\ LeaveTap(c)

\* bt.cleanup: cancel, close the interface, forget it. A second call finds
\* nil and does nothing.
Destroy(t) == ifce' = [ifce EXCEPT ![t] = "nil"]

CleanupTap(c) ==
  /\ bpc[c] = "cleaning"
  /\ Destroy(bt[c])
  /\ bpc' = [bpc EXCEPT ![c] = "clearing"]
  /\ UNCHANGED <<bridgeEnabled, bridgeTAP, tapClients, loop, bt, connOpen, operator, crashed>>

\* Mutant: the current TAP is forgotten without comparing it.
ClearTapAny(c) ==
  /\ bpc[c] = "clearing"
  /\ bridgeTAP' = NoTap
  /\ bpc' = [bpc EXCEPT ![c] = "idle"] /\ bt' = [bt EXCEPT ![c] = NoTap]
  /\ UNCHANGED <<bridgeEnabled, tapState, connOpen, operator, crashed>>

\* Under bridgeMutex: the TAP is forgotten if it is still the current one.
ClearTap(c) ==
  /\ bpc[c] = "clearing"
  /\ bridgeTAP' = (IF bridgeTAP = bt[c] THEN NoTap ELSE bridgeTAP)
  /\ bpc' = [bpc EXCEPT ![c] = "idle"] /\ bt' = [bt EXCEPT ![c] = NoTap]
  /\ UNCHANGED <<bridgeEnabled, tapState, connOpen, operator, crashed>>

-----------------------------------------------------------------------------
(* The read loop of a TAP                                                  *)

\* A frame has been read; it goes to the clients there are, and the loop
\* turns.
TapFrame(t) ==
  /\ loop[t] = "reading" /\ ifce[t] = "up"
  /\ loop' = [loop EXCEPT ![t] = "calling"]
  /\ UNCHANGED <<bridgeEnabled, bridgeTAP, ifce, tapClients, clientState, operator, crashed>>

\* The pending read fails when the interface is closed: the loop ends.
TapReadFails(t) ==
  /\ loop[t] = "reading" /\ ifce[t] = "nil"
  /\ loop' = [loop EXCEPT ![t] = "ended"]
  /\ UNCHANGED <<bridgeEnabled, bridgeTAP, ifce, tapClients, clientState, operator, crashed>>

\* The loop evaluates bt.ifce.Read: on a destroyed TAP the pointer is nil.
TapRead(t) ==
  /\ loop[t] = "calling"
  /\ loop' = [loop EXCEPT ![t] = IF ifce[t] = "up" THEN "reading" ELSE "ended"]
  /\ crashed' = (ifce[t] = "nil")
  /\ UNCHANGED <<bridgeEnabled, bridgeTAP, ifce, tapClients, clientState, operator>>

-----------------------------------------------------------------------------
(* The operator                                                            *)

EnableBridge ==
  /\ op = "idle" /\ ~bridgeEnabled
  /\ bridgeEnabled' = TRUE
  /\ UNCHANGED <<bridgeTAP, tapState, clientState, operator, crashed>>

\* disableBridge, under bridgeMutex.
DisableBridge ==
  /\ op = "idle"
  /\ bridgeEnabled' = FALSE /\ bridgeTAP' = NoTap
  /\ IF bridgeTAP = NoTap THEN UNCHANGED operator
     ELSE op' = "closing" /\ opTap' = bridgeTAP
  /\ UNCHANGED <<tapState, clientState, crashed>>

\* It closes the connections of the clients there are, under bt.mutex.
DisableCloses ==
  /\ op = "closing"
  /\ connOpen' = [c \in BridgeClients |-> connOpen[c] /\ c \notin tapClients[opTap]]
  /\ op' = "cleaning"
  /\ UNCHANGED <<bridgeEnabled, bridgeTAP, tapState, bpc, bt, opTap, crashed>>

\* And calls cleanup.
DisableCleans ==
  /\ op = "cleaning"
  /\ Destroy(opTap)
  /\ op' = "idle" /\ opTap' = NoTap
  /\ UNCHANGED <<bridgeEnabled, bridgeTAP, tapClients, loop, clientState, crashed>>

\* printStatus asks the current TAP for its name.
PrintStatus ==
  /\ op = "idle" /\ bridgeTAP # NoTap /\ ifce[bridgeTAP] = "nil"
  /\ crashed' = TRUE
  /\ UNCHANGED <<bridgeEnabled, bridgeTAP, tapState, clientState, operator>>

-----------------------------------------------------------------------------

ClientNext(c) ==
  \/ TakeTap(c) \/ BridgeUpgradeFails(c) \/ JoinTap(c) \/ LeaveTap(c)
  \/ CloseStale(c) \/ ReadFails(c) \/ CleanupTap(c) \/ ClearTap(c)

LoopNext(t) == TapFrame(t) \/ TapReadFails(t) \/ TapRead(t)

OperatorNext ==
  EnableBridge \/ DisableBridge \/ DisableCloses \/ DisableCleans \/ PrintStatus

\* A panicked process takes no more steps.
BridgeNext ==
  /\ ~crashed
  /\ \/ \E c \in BridgeClients : ClientNext(c)
     \/ \E t \in Tap : LoopNext(t)
     \/ OperatorNext

BridgeSpec == BridgeInit /\ [][BridgeNext]_bridgeVars

\* Goroutines with something left to do go on; the operator's command runs
\* to its end once started.
BridgeFairness ==
  /\ \A c \in BridgeClients :
       WF_bridgeVars(~crashed /\ (CloseStale(c) \/ ReadFails(c) \/ CleanupTap(c) \/ ClearTap(c)))
  /\ WF_bridgeVars(~crashed /\ (DisableCloses \/ DisableCleans))

-----------------------------------------------------------------------------
(* Properties                                                              *)

\* Every variable has its type.
BridgeTypeOK ==
  /\ bridgeEnabled \in BOOLEAN /\ bridgeTAP \in Tap \cup {NoTap}
  /\ ifce \in [Tap -> {"up", "nil"}]
  /\ tapClients \in [Tap -> SUBSET BridgeClients]
  /\ bpc \in [BridgeClients -> {"idle", "joining", "in", "cleaning", "clearing"}]
  /\ bt \in [BridgeClients -> Tap \cup {NoTap}]
  /\ connOpen \in [BridgeClients -> BOOLEAN]
  /\ loop \in [Tap -> {"reading", "calling", "ended"}]
  /\ op \in {"idle", "closing", "cleaning"} /\ opTap \in Tap \cup {NoTap}
  /\ crashed \in BOOLEAN

\* An interface that is up is the current one or about to be destroyed by
\* the operator's command: no TAP of the host is left behind, whichever of
\* the last client and the operator comes first.
NoLostTap ==
  \A t \in Tap : ifce[t] = "up" => bridgeTAP = t \/ opTap = t

\* The current TAP is up, or a client that destroyed it is about to forget
\* it.
CurrentTapLives ==
  bridgeTAP # NoTap /\ ifce[bridgeTAP] = "nil" =>
    \E c \in BridgeClients : bpc[c] = "clearing" /\ bt[c] = bridgeTAP

\* A client served by a destroyed TAP, having taken it before it went, is
\* disconnected.
StaleTapLeaves ==
  \A c \in BridgeClients :
    (bpc[c] = "in" /\ ifce[bt[c]] = "nil") ~> (bpc[c] # "in" \/ crashed)

\* Ending a TAP ends its read loop, not the gateway.
NeverPanics == ~crashed

\* The safety of the bridge: no TAP of the host is left behind, and the one in
\* use is there.
TapSound == BridgeTypeOK /\ NoLostTap /\ CurrentTapLives
=============================================================================
