CONSTANTS
  WsClients = {w1, w2, w3}
  TcpClients = {t1}
  Sessions = {s1, s2}
  TcpSession = s1
  Room = {r1, r2}
  NoRoom = NoRoom
  BridgeClients = {b1, b2}
  Tap = {k1, k2}
  NoTap = NoTap
  ThClients = {c1, c2, c3}
  ThSessions = {u1, u2}
  ThRoom = {q1, q2, q3}
  NoThRoom = NoThRoom
  Mac = {m1, m2, m3, m4}
  FirstIP = 2
  LastIP = 4
  NoIP = NoIP
  Host = {h1, h2}
  NoHost = NoHost
  FirstSport = 2
  LastSport = 4
  MaxInFlight = 2
SPECIFICATION Spec
INVARIANTS RoomsSound TapSound DistinctLeases RelayedToSender
PROPERTIES ClosedIsLeft 
CHECK_DEADLOCK FALSE
