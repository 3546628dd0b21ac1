----------------------------- MODULE MCGateway -----------------------------
(* The gateway's state machines side by side. They share no variable, so a *)
(* behaviour drives one of them, named by part, and the others rest.       *)
EXTENDS GatewayRooms, GatewayBridge, ThreadRooms, GatewayForward

VARIABLE part

all == <<part, roomVars, bridgeVars, thVars, fwdVars>>

Init ==
  /\ part \in {"rooms", "bridge", "thread", "forward"}
  /\ RoomsInit /\ BridgeInit /\ ThreadInit /\ ForwardInit

RoomsStep ==
  part = "rooms" /\ RoomsNext /\ UNCHANGED <<part, bridgeVars, thVars, fwdVars>>
BridgeStep ==
  part = "bridge" /\ BridgeNext /\ UNCHANGED <<part, roomVars, thVars, fwdVars>>
ThreadStep ==
  part = "thread" /\ ThreadNext /\ UNCHANGED <<part, roomVars, bridgeVars, fwdVars>>
ForwardStep ==
  part = "forward" /\ ForwardNext /\ UNCHANGED <<part, roomVars, bridgeVars, thVars>>

Next == RoomsStep \/ BridgeStep \/ ThreadStep \/ ForwardStep

Spec == Init /\ [][Next]_all /\ RoomsFairness /\ BridgeFairness

\* A client whose room or TAP was closed under it is disconnected, and can
\* come back to a live one.
ClosedIsLeft == StrandedLeaves /\ StaleTapLeaves
=============================================================================
