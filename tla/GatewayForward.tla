--------------------------- MODULE GatewayForward ---------------------------
(***************************************************************************)
(* Addresses and UDP forwarding of the gateway (tools/gateway/             *)
(* handleDHCP.go). Boards get an address from a counter that wraps; leases *)
(* are never taken back. Datagrams of host programs are injected towards a *)
(* board from a source port taken from a second wrapping counter, and the  *)
(* answer of the board is relayed by looking that port up.                 *)
(*                                                                         *)
(* The two counters are byte and uint16 in the code; here they run over    *)
(* FirstIP .. LastIP (2 .. 250) and FirstSport .. LastSport (40000 ..      *)
(* 65535), increments past LastSport wrapping to 0.                        *)
(***************************************************************************)
EXTENDS Integers, FiniteSets

CONSTANTS Mac, FirstIP, LastIP, NoIP, Host, NoHost, FirstSport, LastSport, MaxInFlight

ASSUME ForwardAssumption ==
  /\ FirstIP \in Nat /\ LastIP \in Nat /\ FirstIP <= LastIP /\ NoIP \notin Nat
  /\ FirstSport \in Nat \ {0} /\ LastSport \in Nat /\ FirstSport <= LastSport
  /\ MaxInFlight \in Nat /\ IsFiniteSet(Mac)

VARIABLES
  nextIP, macToIP,  \* globalNextIP, globalMacToIP
  nextSport,        \* udpFwdNextSport
  bySport,          \* udpFwdBySport: the host program a port stands for
  datagrams         \* being injected or at the board: the port, the real
                    \* sender and, up to all, the ports given out since

fwdVars == <<nextIP, macToIP, nextSport, bySport, datagrams>>

IP == FirstIP .. LastIP
Sport == FirstSport .. LastSport
Ports == LastSport - FirstSport + 1

ForwardInit ==
  /\ nextIP = FirstIP /\ macToIP = [m \in Mac |-> NoIP]
  /\ nextSport = FirstSport
  /\ bySport = [p \in Sport |-> NoHost] /\ datagrams = {}

-----------------------------------------------------------------------------

\* Mutant: the last address is never given out.
AfterIPShort(i) == IF i + 1 > LastIP - 1 THEN FirstIP ELSE i + 1

\* The increment with its wrap.
AfterIP(i) == IF i + 1 > LastIP THEN FirstIP ELSE i + 1

\* handleDHCP, under dhcpMutex: a known board keeps its address.
Lease(m) ==
  /\ macToIP[m] = NoIP
  /\ macToIP' = [macToIP EXCEPT ![m] = nextIP]
  /\ nextIP' = AfterIP(nextIP)
  /\ UNCHANGED <<nextSport, bySport, datagrams>>

\* Mutant: the wrap restarts one port too far.
AfterSportShort(p) ==
  LET q == (p + 1) % (LastSport + 1) IN IF q < FirstSport THEN FirstSport + 1 ELSE q

\* The increment of a counter of LastSport + 1 values, lifted to the range.
AfterSport(p) ==
  LET q == (p + 1) % (LastSport + 1) IN IF q < FirstSport THEN FirstSport ELSE q

Older(d) == [d EXCEPT !.age = IF @ < Ports THEN @ + 1 ELSE Ports]

\* handleUDPProxy, under udpFwdMu: a datagram of host program h gets its
\* port. Injections take turns at the pipe, so none is still waiting when
\* all ports have been given out once more (the second conjunct).
Datagram(h) ==
  /\ Cardinality(datagrams) < MaxInFlight
  /\ \A d \in datagrams : d.stage = "injecting" => d.age < Ports - 1
  /\ LET p == AfterSport(nextSport)
     IN  /\ nextSport' = p
         /\ bySport' = [bySport EXCEPT ![p] = h]
         /\ datagrams' = {Older(d) : d \in datagrams}
              \cup {[port |-> p, from |-> h, age |-> 0, stage |-> "injecting"]}
  /\ UNCHANGED <<nextIP, macToIP>>

\* injectToVN, after the unlock: the frame is on its way to the board.
Inject(d) ==
  /\ d.stage = "injecting"
  /\ datagrams' = (datagrams \ {d}) \cup {[d EXCEPT !.stage = "sent"]}
  /\ UNCHANGED <<nextIP, macToIP, nextSport, bySport>>

\* Or the pipe is gone, and the port is taken out again.
InjectFails(d) ==
  /\ d.stage = "injecting"
  /\ datagrams' = datagrams \ {d}
  /\ bySport' = [bySport EXCEPT ![d.port] = NoHost]
  /\ UNCHANGED <<nextIP, macToIP, nextSport>>

\* The board is done with a datagram. It may have answered it any number of
\* times: divertUDPForward looks the port up and keeps the entry.
Finish(d) ==
  /\ d.stage = "sent"
  /\ datagrams' = datagrams \ {d}
  /\ UNCHANGED <<nextIP, macToIP, nextSport, bySport>>

ForwardNext ==
  \/ \E m \in Mac : Lease(m)
  \/ \E h \in Host : Datagram(h)
  \/ \E d \in datagrams : Inject(d) \/ InjectFails(d) \/ Finish(d)

ForwardSpec == ForwardInit /\ [][ForwardNext]_fwdVars

-----------------------------------------------------------------------------

\* Boards have addresses of their own as long as there are no more boards
\* than addresses.
DistinctLeases ==
  LET known == {m \in Mac : macToIP[m] # NoIP}
  IN  Cardinality(known) <= Cardinality(IP) =>
        \A m, n \in known : m # n => macToIP[m] # macToIP[n]

\* An answer is relayed to the program whose datagram it answers, unless
\* every port has been given out again since.
RelayedToSender ==
  \A d \in datagrams : d.stage = "sent" /\ d.age < Ports => bySport[d.port] = d.from
=============================================================================
