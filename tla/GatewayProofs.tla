--------------------------- MODULE GatewayProofs ---------------------------
(***************************************************************************)
(* The rooms of the gateway for every number of clients, sessions and      *)
(* rooms: the map names no dead room, no open room is lost, and rooms of   *)
(* finished 802.15.4 sessions do not stay in the map. No TAP is lost in    *)
(* bridge mode. Leases are distinct and answers reach their sender for     *)
(* every range of addresses and ports.                                     *)
(***************************************************************************)
EXTENDS GatewayRooms, GatewayBridge, ThreadRooms, GatewayForward,
        FiniteSetTheorems, TLAPS

-----------------------------------------------------------------------------
(* Network rooms                                                           *)

\* The map names a room only under the session it was created for.
EntryIsOwn == \A s \in Sessions : rooms[s] # NoRoom => session[rooms[s]] = s

\* Who is in the client set of a room is at that room.
MemberIsIn == \A r \in Room : \A c \in members[r] : pc[c] = "in" /\ at[c] = r

\* A client past the emptiness test is a WebSocket client.
OnlyWsCloses == \A c \in Clients : pc[c] \in {"closing", "deleting"} => c \in WsClients

\* An open room has a client, about to join, in it or about to close it,
\* whether or not the map still names it: a late handler may have deleted
\* the entry. This is what makes NoLostRoom inductive.
OpenIsCared ==
  \A r \in Room : pipe[r] = "open" =>
    \/ \E c \in Clients : at[c] = r /\ pc[c] \in {"joining", "in", "closing"}
    \/ r \in abandoned

RInv ==
  /\ RoomsTypeOK /\ EntryIsOwn /\ MemberIsIn /\ OnlyWsCloses
  /\ NoDeadEntry /\ OpenIsCared

LEMMA RoomsInitRInv == RoomsInit => RInv
  BY RoomsAssumption
     DEF RoomsInit, RInv, RoomsTypeOK, EntryIsOwn, MemberIsIn, OnlyWsCloses,
         NoDeadEntry, OpenIsCared

\* Looking a room up only gives the client a room.
LEMMA FoundRInv ==
  ASSUME RInv, NEW c \in Clients, pc[c] = "idle", NEW s \in Sessions, Found(c, s),
         pc' = [pc EXCEPT ![c] = "joining"]
  PROVE  RInv'
<1> USE RoomsAssumption DEF RInv
<1>1. RoomsTypeOK'
  BY Zenon DEF RoomsTypeOK, Found
<1>2. EntryIsOwn' /\ OnlyWsCloses'
  BY Zenon DEF RoomsTypeOK, Found, EntryIsOwn, OnlyWsCloses
<1>3. MemberIsIn'
  BY DEF RoomsTypeOK, Found, MemberIsIn
<1>4. NoDeadEntry'
  BY Zenon DEF RoomsTypeOK, Found, NoDeadEntry, Clients
<1>5. OpenIsCared'
  BY Zenon DEF RoomsTypeOK, Found, OpenIsCared
<1> QED BY <1>1, <1>2, <1>3, <1>4, <1>5, Zenon

\* Nobody is at the room an allocation returns, so opening it revives nothing.
LEMMA CreatedRInv ==
  ASSUME RInv, NEW c \in Clients, pc[c] = "idle", NEW s \in Sessions, Created(c, s),
         pc' = [pc EXCEPT ![c] = "joining"]
  PROVE  RInv'
<1> USE RoomsAssumption DEF RInv
<1>0. PICK r \in Room :
        /\ Unused(r)
        /\ rooms' = [rooms EXCEPT ![s] = r]
        /\ session' = [session EXCEPT ![r] = s]
        /\ pipe' = [pipe EXCEPT ![r] = "open"]
        /\ at' = [at EXCEPT ![c] = r]
        /\ abandoned' = abandoned \ {r}
  BY Zenon DEF Created
<1> members' = members
  BY Zenon DEF Created
<1>1. RoomsTypeOK'
  BY <1>0, Zenon DEF RoomsTypeOK
<1>2. EntryIsOwn'
  BY <1>0 DEF RoomsTypeOK, EntryIsOwn, Unused
<1>3. MemberIsIn' /\ OnlyWsCloses'
  BY <1>0 DEF RoomsTypeOK, MemberIsIn, OnlyWsCloses
<1>4. NoDeadEntry'
  BY <1>0 DEF RoomsTypeOK, NoDeadEntry, Unused, Clients
<1>5. OpenIsCared'
  BY <1>0, Zenon DEF RoomsTypeOK, OpenIsCared, Unused
<1> QED BY <1>1, <1>2, <1>3, <1>4, <1>5, Zenon

\* The last to leave stays at the room to close it; if somebody remains in
\* the client set, the room is cared for.
LEMMA LeaveRInv ==
  ASSUME RInv, NEW c \in Clients, Leave(c)
  PROVE  RInv'
<1> USE RoomsAssumption DEF RInv
<1>0. at[c] \in Room /\ c \in WsClients /\ pc[c] = "in"
  BY Zenon DEF RoomsTypeOK, Leave
<1>1. RoomsTypeOK'
  BY <1>0 DEF RoomsTypeOK, Leave
<1>2. EntryIsOwn' /\ OnlyWsCloses'
  BY <1>0 DEF RoomsTypeOK, Leave, EntryIsOwn, OnlyWsCloses
<1>3. MemberIsIn'
  BY <1>0 DEF RoomsTypeOK, Leave, MemberIsIn
<1>4. NoDeadEntry'
  BY <1>0 DEF RoomsTypeOK, Leave, NoDeadEntry, Clients
<1>5. OpenIsCared'
  <2> SUFFICES ASSUME NEW r \in Room, pipe[r] = "open", r \notin abandoned
               PROVE  \E d \in Clients : at'[d] = r /\ pc'[d] \in {"joining", "in", "closing"}
    BY Zenon DEF OpenIsCared, Leave
  <2>1. PICK d \in Clients : at[d] = r /\ pc[d] \in {"joining", "in", "closing"}
    BY Zenon DEF OpenIsCared
  <2>2. CASE d # c
    BY <2>1, <2>2 DEF RoomsTypeOK, Leave
  <2>3. CASE d = c /\ members'[r] = {}
    BY <2>1, <2>3 DEF RoomsTypeOK, Leave
  <2>4. CASE d = c /\ members'[r] # {}
    <3>1. PICK e \in members'[r] : TRUE
      BY <2>4, Zenon
    <3>2. e # c /\ e \in members[r] /\ e \in Clients
      BY <2>1, <2>4, <3>1, Zenon DEF RoomsTypeOK, Leave
    <3>3. at[e] = r /\ pc[e] = "in"
      BY <3>2, Zenon DEF MemberIsIn
    <3> QED BY <3>2, <3>3 DEF RoomsTypeOK, Leave
  <2> QED BY <2>2, <2>3, <2>4, Zenon
<1> QED BY <1>1, <1>2, <1>3, <1>4, <1>5, Zenon

LEMMA OtherRInv ==
  ASSUME RInv, NEW c \in Clients,
         UpgradeFails(c) \/ Join(c) \/ TcpLeave(c) \/ CloseRoom(c)
  PROVE  RInv'
<1> USE RoomsAssumption DEF RInv
<1>0. at[c] \in Room
  BY Zenon DEF RoomsTypeOK, UpgradeFails, Join, TcpLeave, CloseRoom
<1>1. CASE UpgradeFails(c)
  <2>1. RoomsTypeOK' /\ EntryIsOwn' /\ OnlyWsCloses'
    BY <1>0, <1>1, Zenon DEF RoomsTypeOK, UpgradeFails, EntryIsOwn, OnlyWsCloses
  <2>2. MemberIsIn' /\ NoDeadEntry'
    BY <1>0, <1>1 DEF RoomsTypeOK, UpgradeFails, MemberIsIn, NoDeadEntry, Clients
  <2>3. OpenIsCared'
    BY <1>0, <1>1, Zenon DEF RoomsTypeOK, UpgradeFails, OpenIsCared
  <2> QED BY <2>1, <2>2, <2>3, Zenon
<1>2. CASE Join(c)
  <2>1. RoomsTypeOK' /\ EntryIsOwn' /\ OnlyWsCloses'
    BY <1>0, <1>2 DEF RoomsTypeOK, Join, EntryIsOwn, OnlyWsCloses
  <2>2. MemberIsIn' /\ NoDeadEntry'
    BY <1>0, <1>2 DEF RoomsTypeOK, Join, MemberIsIn, NoDeadEntry, Clients
  <2>3. OpenIsCared'
    BY <1>0, <1>2, Zenon DEF RoomsTypeOK, Join, OpenIsCared
  <2> QED BY <2>1, <2>2, <2>3, Zenon
<1>3. CASE TcpLeave(c)
  <2>1. RoomsTypeOK' /\ EntryIsOwn' /\ OnlyWsCloses'
    BY <1>0, <1>3 DEF RoomsTypeOK, TcpLeave, EntryIsOwn, OnlyWsCloses
  <2>2. MemberIsIn' /\ NoDeadEntry'
    BY <1>0, <1>3 DEF RoomsTypeOK, TcpLeave, MemberIsIn, NoDeadEntry, Clients
  <2>3. OpenIsCared'
    BY <1>0, <1>3, Zenon DEF RoomsTypeOK, TcpLeave, OpenIsCared
  <2> QED BY <2>1, <2>2, <2>3, Zenon
<1>4. CASE CloseRoom(c)
  <2>1. RoomsTypeOK' /\ EntryIsOwn' /\ OnlyWsCloses'
    BY <1>0, <1>4 DEF RoomsTypeOK, CloseRoom, EntryIsOwn, OnlyWsCloses
  <2>2. MemberIsIn'
    BY <1>0, <1>4 DEF RoomsTypeOK, CloseRoom, MemberIsIn
  <2>3. NoDeadEntry'
    BY <1>0, <1>4 DEF RoomsTypeOK, CloseRoom, NoDeadEntry, OnlyWsCloses, Clients
  <2>4. OpenIsCared'
    BY <1>0, <1>4, Zenon DEF RoomsTypeOK, CloseRoom, OpenIsCared
  <2> QED BY <2>1, <2>2, <2>3, <2>4, Zenon
<1> QED BY <1>1, <1>2, <1>3, <1>4, Zenon

\* The entry that goes is the one its room was created under, so a closed
\* room leaves the map with its last handler; an open one that loses its
\* entry this way still has clients.
LEMMA DeleteEntryRInv ==
  ASSUME RInv, NEW c \in Clients, DeleteEntry(c)
  PROVE  RInv'
<1> USE RoomsAssumption DEF RInv
<1>0. at[c] \in Room /\ pc[c] = "deleting" /\ session[at[c]] \in Sessions
  BY Zenon DEF RoomsTypeOK, DeleteEntry
<1>1. RoomsTypeOK' /\ EntryIsOwn' /\ OnlyWsCloses'
  BY <1>0 DEF RoomsTypeOK, DeleteEntry, EntryIsOwn, OnlyWsCloses
<1>2. MemberIsIn'
  BY <1>0 DEF RoomsTypeOK, DeleteEntry, MemberIsIn
<1>3. NoDeadEntry'
  BY <1>0 DEF RoomsTypeOK, DeleteEntry, NoDeadEntry, EntryIsOwn, Clients
<1>4. OpenIsCared'
  BY <1>0, Zenon DEF RoomsTypeOK, DeleteEntry, OpenIsCared
<1> QED BY <1>1, <1>2, <1>3, <1>4, Zenon

LEMMA RoomsNextRInv == RInv /\ [RoomsNext]_roomVars => RInv'
<1> SUFFICES ASSUME RInv, [RoomsNext]_roomVars PROVE RInv'
  BY Zenon
<1>1. CASE UNCHANGED roomVars
  BY <1>1 DEF roomVars, RInv, RoomsTypeOK, EntryIsOwn, MemberIsIn, OnlyWsCloses,
              NoDeadEntry, OpenIsCared
<1>2. ASSUME NEW c \in Clients, Request(c) PROVE RInv'
  <2>1. PICK s \in Sessions : Found(c, s) \/ Created(c, s)
    BY <1>2, RoomsAssumption, Zenon DEF Request
  <2> QED BY <1>2, <2>1, FoundRInv, CreatedRInv, Zenon DEF Request
<1>3. ASSUME NEW c \in Clients, Disconnect(c) \/ Expire(c) PROVE RInv'
  BY <1>3, LeaveRInv, Zenon DEF Disconnect, Expire
<1>4. ASSUME NEW c \in Clients,
             UpgradeFails(c) \/ Join(c) \/ TcpLeave(c) \/ CloseRoom(c)
      PROVE  RInv'
  BY <1>4, OtherRInv, Zenon
<1> QED BY <1>1, <1>2, <1>3, <1>4, DeleteEntryRInv, Zenon DEF RoomsNext

\* RInv holds in every reachable state of the rooms.
THEOREM RoomsInvariant == RoomsSpec => []RInv
  BY RoomsInitRInv, RoomsNextRInv, PTL DEF RoomsSpec

\* The variables of main.go's rooms keep their types, and a goroutine has a
\* room exactly while it runs.
THEOREM RoomsTypes == RoomsSpec => []RoomsTypeOK
<1> RInv => RoomsTypeOK
  BY Zenon DEF RInv
<1> QED BY RoomsInvariant, PTL

\* The map names a closed room only while a handler that closed it is about
\* to delete the entry (handleClient, main.go).
THEOREM RoomsNoDeadEntry == RoomsSpec => []NoDeadEntry
<1> RInv => NoDeadEntry
  BY Zenon DEF RInv
<1> QED BY RoomsInvariant, PTL

\* An open room is in the map, has a client, or was left behind by a handler
\* that gave up without cleaning up (main.go).
THEOREM RoomsNoLostRoom == RoomsSpec => []NoLostRoom
<1> RInv => NoLostRoom
  BY Zenon DEF RInv, OpenIsCared, NoLostRoom
<1> QED BY RoomsInvariant, PTL

\* The map of rooms is safe for any number of clients, sessions and rooms.
THEOREM RoomsAreSound == RoomsSpec => []RoomsSound
<1> RoomsTypeOK /\ NoDeadEntry /\ NoLostRoom => RoomsSound
  BY Zenon DEF RoomsSound
<1> QED BY RoomsTypes, RoomsNoDeadEntry, RoomsNoLostRoom, PTL

-----------------------------------------------------------------------------
(* 802.15.4 rooms                                                          *)

ThTypes ==
  /\ thRooms \in [ThSessions -> ThRoom \cup {NoThRoom}]
  /\ thMembers \in [ThRoom -> SUBSET ThClients]
  /\ thPc \in [ThClients -> {"idle", "in", "deleting"}]
  /\ thAt \in [ThClients -> ThRoom \cup {NoThRoom}]
  /\ thSession \in [ThClients -> ThSessions]
  /\ \A c \in ThClients : thPc[c] = "in" <=> thAt[c] # NoThRoom

\* Two sessions never share a room.
OneSession ==
  \A s, t \in ThSessions : thRooms[s] # NoThRoom /\ thRooms[s] = thRooms[t] => s = t

\* A client that is in a room the map names joined it under that session.
JoinedUnder ==
  \A c \in ThClients, s \in ThSessions :
    thPc[c] = "in" /\ thRooms[s] = thAt[c] => thSession[c] = s

ThInv == ThTypes /\ OneSession /\ JoinedUnder /\ ThreadEntryUsed

LEMMA ThreadInitThInv == ThreadInit => ThInv
  BY ThreadAssumption
     DEF ThreadInit, ThInv, ThTypes, OneSession, JoinedUnder, ThreadEntryUsed

LEMMA ThreadJoinThInv ==
  ASSUME ThInv, NEW c \in ThClients, ThreadJoin(c)
  PROVE  ThInv'
<1> USE ThreadAssumption DEF ThInv
<1>0. PICK s \in ThSessions, r \in ThRoom :
        /\ IF thRooms[s] = NoThRoom THEN UnusedThRoom(r) ELSE r = thRooms[s]
        /\ thRooms' = [thRooms EXCEPT ![s] = r]
        /\ thMembers' = [thMembers EXCEPT ![r] = @ \cup {c}]
        /\ thAt' = [thAt EXCEPT ![c] = r]
        /\ thSession' = [thSession EXCEPT ![c] = s]
  BY Zenon DEF ThreadJoin
<1>1. thPc[c] = "idle" /\ thPc' = [thPc EXCEPT ![c] = "in"]
  BY Zenon DEF ThreadJoin
<1>2. ThTypes'
  BY <1>0, <1>1, Zenon DEF ThTypes
<1>3. OneSession'
  BY <1>0, Zenon DEF ThTypes, OneSession, UnusedThRoom
<1>4. JoinedUnder'
  BY <1>0, <1>1 DEF ThTypes, OneSession, JoinedUnder, UnusedThRoom
<1>5. ThreadEntryUsed'
  <2> SUFFICES ASSUME NEW t \in ThSessions, thRooms'[t] # NoThRoom,
                      thMembers'[thRooms'[t]] = {}
               PROVE  \E d \in ThClients : thPc'[d] = "deleting" /\ thSession'[d] = t
    BY Zenon DEF ThreadEntryUsed
  <2>1. c \in thMembers'[r]
    BY <1>0, Zenon DEF ThTypes
  <2>2. t # s /\ thRooms[t] = thRooms'[t] /\ thRooms[t] # r
    BY <1>0, <2>1, Zenon DEF ThTypes
  <2>3. thMembers[thRooms[t]] = {} /\ thRooms[t] # NoThRoom
    BY <1>0, <2>2, Zenon DEF ThTypes
  <2>4. PICK d \in ThClients : thPc[d] = "deleting" /\ thSession[d] = t
    BY <2>3, Zenon DEF ThreadEntryUsed
  <2>5. d # c
    BY <1>1, <2>4, Zenon
  <2> QED BY <1>0, <1>1, <2>4, <2>5, Zenon DEF ThTypes
<1> QED BY <1>2, <1>3, <1>4, <1>5, Zenon

\* The client that empties a room the map names is the one to delete its entry.
LEMMA ThreadLeaveThInv ==
  ASSUME ThInv, NEW c \in ThClients, ThreadLeave(c)
  PROVE  ThInv'
<1> USE ThreadAssumption DEF ThInv
<1>1. ThTypes'
  BY Zenon DEF ThTypes, ThreadLeave
<1>2. OneSession' /\ JoinedUnder'
  BY Zenon DEF ThTypes, ThreadLeave, OneSession, JoinedUnder
<1>3. ThreadEntryUsed'
  BY DEF ThTypes, ThreadLeave, JoinedUnder, ThreadEntryUsed
<1> QED BY <1>1, <1>2, <1>3, Zenon

LEMMA ThreadDeleteThInv ==
  ASSUME ThInv, NEW c \in ThClients, ThreadDelete(c)
  PROVE  ThInv'
<1> USE ThreadAssumption DEF ThInv
<1>1. ThTypes'
  BY Zenon DEF ThTypes, ThreadDelete
<1>2. OneSession' /\ JoinedUnder'
  BY DEF ThTypes, ThreadDelete, OneSession, JoinedUnder
<1>3. ThreadEntryUsed'
  BY DEF ThTypes, ThreadDelete, ThreadEntryUsed
<1> QED BY <1>1, <1>2, <1>3, Zenon

LEMMA ThreadNextThInv == ThInv /\ [ThreadNext]_thVars => ThInv'
<1>1. ThInv /\ UNCHANGED thVars => ThInv'
  BY DEF thVars, ThInv, ThTypes, OneSession, JoinedUnder, ThreadEntryUsed
<1> QED BY <1>1, ThreadJoinThInv, ThreadLeaveThInv, ThreadDeleteThInv, Zenon DEF ThreadNext

\* ThInv holds in every reachable state of the 802.15.4 rooms.
THEOREM ThreadInvariant == ThreadSpec => []ThInv
  BY ThreadInitThInv, ThreadNextThInv, PTL DEF ThreadSpec

\* An empty room is in the map only while a client that emptied a room of the
\* session is about to delete the entry (handleThreadGateway).
THEOREM ThreadRoomsEntryUsed == ThreadSpec => []ThreadEntryUsed
<1> ThInv => ThreadEntryUsed
  BY Zenon DEF ThInv
<1> QED BY ThreadInvariant, PTL

\* The room of a connected client leaves the map only by the deletion of a
\* client that emptied a room of the same session (handleThreadGateway).
THEOREM ThreadRoomsReachable == ThreadSpec => ThreadReachable
<1> DEFINE Cut(c) ==
      /\ thPc[c] = "in" /\ thRooms[thSession[c]] = thAt[c]
      /\ thPc'[c] = "in" /\ thRooms'[thSession[c]] # thAt[c]
    Deleted(c) == \E d \in ThClients \ {c} :
      thPc[d] = "deleting" /\ thPc'[d] = "idle" /\ thSession[d] = thSession[c]
    Step == \A c \in ThClients : Cut(c) => Deleted(c)
<1>1. ThInv /\ ThreadNext => Step
  <2> SUFFICES ASSUME ThInv, ThreadNext, NEW c \in ThClients, Cut(c) PROVE Deleted(c)
    BY Zenon
  <2>1. thAt[c] # NoThRoom /\ thRooms' # thRooms
    BY Zenon DEF ThInv, ThTypes
  <2>2. PICK d \in ThClients : ThreadJoin(d) \/ ThreadLeave(d) \/ ThreadDelete(d)
    BY Zenon DEF ThreadNext
  <2>3. CASE ThreadJoin(d)
    BY <2>1, <2>3 DEF ThreadJoin, ThInv, ThTypes
  <2>4. CASE ThreadDelete(d)
    <3>1. d # c /\ thPc[d] = "deleting" /\ thPc'[d] = "idle"
      BY <2>4, Zenon DEF ThreadDelete, ThInv, ThTypes
    <3>2. thSession[d] = thSession[c]
      BY <2>4, Zenon DEF ThreadDelete, ThInv, ThTypes
    <3> QED BY <3>1, <3>2, Zenon
  <2> QED BY <2>1, <2>2, <2>3, <2>4, Zenon DEF ThreadLeave
<1>2. ThInv /\ [ThreadNext]_thVars => [Step]_thVars
  BY <1>1, Zenon
<1> QED BY ThreadInvariant, <1>2, PTL DEF ThreadSpec, ThreadReachable

-----------------------------------------------------------------------------
(* Bridge mode                                                             *)

\* A client has a TAP exactly while it runs, the operator while it disables.
HasTap ==
  /\ \A c \in BridgeClients : bpc[c] = "idle" <=> bt[c] = NoTap
  /\ op = "idle" <=> opTap = NoTap

\* Who is about to forget a TAP has destroyed it, and it stays destroyed: an
\* interface a client refers to is not created anew.
ClearingIsNil == \A c \in BridgeClients : bpc[c] = "clearing" => ifce[bt[c]] = "nil"

\* The TAP the operator destroys is no longer the current one.
OperatorApart == opTap # NoTap => bridgeTAP # opTap

BInv ==
  /\ BridgeTypeOK /\ HasTap /\ ClearingIsNil /\ OperatorApart
  /\ NoLostTap /\ CurrentTapLives

LEMMA BridgeInitBInv == BridgeInit => BInv
<1> SUFFICES ASSUME BridgeInit PROVE BInv
  BY Zenon
<1> USE BridgeAssumption DEF BridgeInit
<1>1. connOpen \in [BridgeClients -> BOOLEAN] /\ bridgeEnabled \in BOOLEAN /\ crashed \in BOOLEAN
  BY Zenon
<1>2. BridgeTypeOK
  BY <1>1, Zenon DEF BridgeTypeOK
<1>3. HasTap /\ ClearingIsNil /\ OperatorApart /\ NoLostTap /\ CurrentTapLives
  BY Zenon DEF HasTap, ClearingIsNil, OperatorApart, NoLostTap, CurrentTapLives
<1> QED BY <1>2, <1>3, Zenon DEF BInv

LEMMA TakeTapBInv ==
  ASSUME BInv, NEW c \in BridgeClients, TakeTap(c)
  PROVE  BInv'
<1> USE BridgeAssumption DEF BInv
<1>0. PICK t \in Tap :
        /\ IF bridgeTAP = NoTap
           THEN /\ UnusedTap(t)
                /\ bridgeTAP' = t
                /\ ifce' = [ifce EXCEPT ![t] = "up"]
                /\ loop' = [loop EXCEPT ![t] = "calling"]
           ELSE t = bridgeTAP /\ UNCHANGED <<bridgeTAP, ifce, loop>>
        /\ bt' = [bt EXCEPT ![c] = t]
  BY Zenon DEF TakeTap
<1>1. /\ bpc[c] = "idle" /\ bpc' = [bpc EXCEPT ![c] = "joining"]
      /\ UNCHANGED <<bridgeEnabled, tapClients, connOpen, op, opTap, crashed>>
  BY Zenon DEF TakeTap, operator
<1>2. BridgeTypeOK' /\ HasTap'
  BY <1>0, <1>1 DEF BridgeTypeOK, HasTap
<1>3. ClearingIsNil' /\ OperatorApart'
  BY <1>0, <1>1 DEF BridgeTypeOK, HasTap, ClearingIsNil, OperatorApart, UnusedTap
<1>4. NoLostTap' /\ CurrentTapLives'
  BY <1>0, <1>1 DEF BridgeTypeOK, NoLostTap, CurrentTapLives
<1> QED BY <1>2, <1>3, <1>4, Zenon

\* Every client step that neither takes, destroys nor forgets a TAP.
LEMMA ServeBInv ==
  ASSUME BInv, NEW c \in BridgeClients,
         BridgeUpgradeFails(c) \/ JoinTap(c) \/ LeaveTap(c) \/ CloseStale(c)
  PROVE  BInv'
<1> USE BridgeAssumption DEF BInv
<1>0. connOpen' \in [BridgeClients -> BOOLEAN]
  BY Zenon DEF BridgeTypeOK, BridgeUpgradeFails, JoinTap, LeaveTap, CloseStale
<1>1. BridgeTypeOK'
  <2>1. CASE BridgeUpgradeFails(c)
    BY <1>0, <2>1, Zenon DEF BridgeTypeOK, BridgeUpgradeFails, tapState, operator
  <2>2. CASE JoinTap(c)
    BY <1>0, <2>2, ZenonT(60) DEF BridgeTypeOK, JoinTap, operator
  <2>3. CASE LeaveTap(c)
    BY <1>0, <2>3, ZenonT(60) DEF BridgeTypeOK, LeaveTap, operator
  <2>4. CASE CloseStale(c)
    BY <1>0, <2>4, Zenon DEF BridgeTypeOK, CloseStale, tapState, operator
  <2> QED BY <2>1, <2>2, <2>3, <2>4, Zenon
<1>2. UNCHANGED <<bridgeTAP, ifce, op, opTap>>
  BY Zenon DEF BridgeUpgradeFails, JoinTap, LeaveTap, CloseStale, tapState, operator
<1>3. HasTap'
  BY <1>2 DEF BridgeTypeOK, HasTap, BridgeUpgradeFails, JoinTap, LeaveTap, CloseStale
<1>4. \A d \in BridgeClients :
        (bpc[d] = "clearing" <=> bpc'[d] = "clearing") /\ (bpc[d] = "clearing" => bt'[d] = bt[d])
  BY DEF BridgeTypeOK, BridgeUpgradeFails, JoinTap, LeaveTap, CloseStale
<1>5. ClearingIsNil' /\ OperatorApart' /\ NoLostTap' /\ CurrentTapLives'
  BY <1>2, <1>4 DEF ClearingIsNil, OperatorApart, NoLostTap, CurrentTapLives
<1> QED BY <1>1, <1>3, <1>5, Zenon

LEMMA CleanupTapBInv ==
  ASSUME BInv, NEW c \in BridgeClients, CleanupTap(c)
  PROVE  BInv'
<1> USE BridgeAssumption DEF BInv, CleanupTap, Destroy
<1>0. bt[c] \in Tap
  BY Zenon DEF BridgeTypeOK, HasTap
<1>1. BridgeTypeOK' /\ HasTap'
  BY <1>0, Zenon DEF BridgeTypeOK, HasTap, operator
<1>2. ClearingIsNil' /\ OperatorApart'
  BY <1>0 DEF BridgeTypeOK, HasTap, ClearingIsNil, OperatorApart, operator
<1>3. NoLostTap' /\ CurrentTapLives'
  BY <1>0, Zenon DEF BridgeTypeOK, NoLostTap, CurrentTapLives, operator
<1> QED BY <1>1, <1>2, <1>3, Zenon

LEMMA ClearTapBInv ==
  ASSUME BInv, NEW c \in BridgeClients, ClearTap(c)
  PROVE  BInv'
<1> USE BridgeAssumption DEF BInv, ClearTap
<1>1. BridgeTypeOK' /\ HasTap'
  BY Zenon DEF BridgeTypeOK, HasTap, tapState, operator
<1>2. ClearingIsNil' /\ OperatorApart'
  BY Zenon DEF BridgeTypeOK, ClearingIsNil, OperatorApart, tapState, operator
<1>3. NoLostTap' /\ CurrentTapLives'
  BY DEF BridgeTypeOK, ClearingIsNil, NoLostTap, CurrentTapLives, tapState, operator
<1> QED BY <1>1, <1>2, <1>3, Zenon

LEMMA LoopBInv ==
  ASSUME BInv, NEW t \in Tap, LoopNext(t)
  PROVE  BInv'
<1> USE DEF BInv, LoopNext, TapFrame, TapReadFails, TapRead, clientState, operator
<1>1. BridgeTypeOK' /\ UNCHANGED <<bridgeTAP, ifce, bpc, bt, op, opTap>>
  BY ZenonT(60) DEF BridgeTypeOK
<1> QED BY <1>1, Zenon DEF HasTap, ClearingIsNil, OperatorApart, NoLostTap, CurrentTapLives

LEMMA OperatorBInv ==
  ASSUME BInv, OperatorNext
  PROVE  BInv'
<1> USE BridgeAssumption DEF BInv
<1>1. CASE EnableBridge \/ PrintStatus
  BY <1>1, ZenonT(60) DEF EnableBridge, PrintStatus, tapState, clientState, operator, BridgeTypeOK,
              HasTap, ClearingIsNil, OperatorApart, NoLostTap, CurrentTapLives
<1>2. CASE DisableBridge
  <2> USE <1>2 DEF DisableBridge, tapState, clientState, operator
  <2>1. BridgeTypeOK' /\ HasTap' /\ ClearingIsNil'
    BY Zenon DEF BridgeTypeOK, HasTap, ClearingIsNil
  <2>2. OperatorApart' /\ NoLostTap' /\ CurrentTapLives'
    BY Zenon DEF BridgeTypeOK, HasTap, OperatorApart, NoLostTap, CurrentTapLives
  <2> QED BY <2>1, <2>2, Zenon
<1>3. CASE DisableCloses
  BY <1>3, Zenon DEF DisableCloses, tapState, BridgeTypeOK,
              HasTap, ClearingIsNil, OperatorApart, NoLostTap, CurrentTapLives
<1>4. CASE DisableCleans
  <2> USE <1>4 DEF DisableCleans, Destroy, clientState
  <2>0. opTap \in Tap
    BY Zenon DEF BridgeTypeOK, HasTap
  <2>1. BridgeTypeOK' /\ HasTap' /\ ClearingIsNil'
    BY <2>0 DEF BridgeTypeOK, HasTap, ClearingIsNil
  <2>2. OperatorApart' /\ NoLostTap' /\ CurrentTapLives'
    BY <2>0, Zenon DEF BridgeTypeOK, HasTap, OperatorApart, NoLostTap, CurrentTapLives
  <2> QED BY <2>1, <2>2, Zenon
<1> QED BY <1>1, <1>2, <1>3, <1>4, Zenon DEF OperatorNext

LEMMA BridgeNextBInv == BInv /\ [BridgeNext]_bridgeVars => BInv'
<1>1. BInv /\ UNCHANGED bridgeVars => BInv'
  BY DEF bridgeVars, BInv, BridgeTypeOK, HasTap, ClearingIsNil, OperatorApart,
         NoLostTap, CurrentTapLives
<1>2. ASSUME BInv, NEW c \in BridgeClients, ClientNext(c) PROVE BInv'
  BY <1>2, TakeTapBInv, ServeBInv, CleanupTapBInv, ClearTapBInv, Zenon DEF ClientNext, ReadFails
<1> QED BY <1>1, <1>2, LoopBInv, OperatorBInv, Zenon DEF BridgeNext

\* BInv holds in every reachable state of bridge mode.
THEOREM BridgeInvariant == BridgeSpec => []BInv
  BY BridgeInitBInv, BridgeNextBInv, PTL DEF BridgeSpec

\* An interface that is up is the current one or about to be destroyed by the
\* operator's command (bridge.go), for any number of clients.
THEOREM BridgeNoLostTap == BridgeSpec => []NoLostTap
<1> BInv => NoLostTap
  BY Zenon DEF BInv
<1> QED BY BridgeInvariant, PTL

\* The current TAP is up, or a client that destroyed it is about to forget it
\* (handleBridgeClient).
THEOREM BridgeCurrentTapLives == BridgeSpec => []CurrentTapLives
<1> BInv => CurrentTapLives
  BY Zenon DEF BInv
<1> QED BY BridgeInvariant, PTL

\* The bridge keeps its TAPs for any number of clients and of TAPs.
THEOREM BridgeIsSound == BridgeSpec => []TapSound
<1> BInv => TapSound
  BY Zenon DEF BInv, TapSound
<1> QED BY BridgeInvariant, PTL

-----------------------------------------------------------------------------
(* Leases                                                                  *)

Known == {m \in Mac : macToIP[m] # NoIP}
Addresses == LastIP - FirstIP + 1

\* Until they run out, the addresses given out are those below the counter,
\* as many as there are leases.
LeasesBelow ==
  /\ macToIP \in [Mac -> IP \cup {NoIP}] /\ nextIP \in IP
  /\ Cardinality(Known) < Addresses =>
       nextIP = FirstIP + Cardinality(Known) /\ \A m \in Known : macToIP[m] < nextIP
  /\ Cardinality(Known) <= Addresses =>
       \A m, n \in Known : m # n => macToIP[m] # macToIP[n]

LEMMA IPCount == Cardinality(IP) = Addresses
  BY ForwardAssumption, FS_Interval DEF IP, Addresses

LEMMA KnownFinite == IsFiniteSet(Known) /\ Cardinality(Known) \in Nat
  BY ForwardAssumption, FS_Subset, FS_CardinalityType, Zenon DEF Known

LEMMA ForwardInitLeases == ForwardInit => LeasesBelow
<1> SUFFICES ASSUME ForwardInit PROVE LeasesBelow
  BY Zenon
<1>1. Known = {}
  BY Zenon DEF ForwardInit, Known
<1>2. Cardinality(Known) = 0
  BY <1>1, FS_EmptySet, Zenon
<1> QED BY <1>1, <1>2, ForwardAssumption DEF ForwardInit, LeasesBelow, IP, Addresses

LEMMA LeaseKeepsLeases ==
  ASSUME LeasesBelow, NEW m \in Mac, Lease(m)
  PROVE  LeasesBelow'
<1> USE ForwardAssumption
<1>1. nextIP \in IP /\ nextIP \in Nat /\ nextIP # NoIP
  BY DEF LeasesBelow, IP
<1>2. macToIP' \in [Mac -> IP \cup {NoIP}] /\ nextIP' \in IP
  BY <1>1 DEF LeasesBelow, Lease, AfterIP, IP
<1>3. Known' = Known \cup {m} /\ m \notin Known
  BY <1>1, Zenon DEF LeasesBelow, Lease, Known
<1>4. PICK k \in Nat : k = Cardinality(Known)
  BY KnownFinite, Zenon
<1>5. Cardinality(Known') = k + 1
  BY <1>3, <1>4, KnownFinite, FS_AddElement, Zenon
<1>5a. Cardinality(Known)' = k + 1
  BY <1>5, Zenon
<1>6. k + 1 <= Addresses =>
        nextIP = FirstIP + k /\ \A n \in Known : macToIP[n] < nextIP
  BY <1>4 DEF LeasesBelow, Addresses
<1>7. k + 1 <= Addresses =>
        \A n, o \in Known : n # o => macToIP[n] # macToIP[o]
  BY <1>4 DEF LeasesBelow, Addresses
<1>8. \A n \in Known : macToIP'[n] = macToIP[n] /\ macToIP[n] \in IP
  BY <1>3, Zenon DEF LeasesBelow, Lease, Known
<1>9. macToIP'[m] = nextIP
  BY Zenon DEF LeasesBelow, Lease
<1>10. k + 1 < Addresses => nextIP' = FirstIP + (k + 1)
  BY <1>6 DEF Lease, AfterIP, Addresses
<1>11. k + 1 < Addresses => \A n \in Known' : macToIP'[n] < nextIP'
  <2> SUFFICES ASSUME k + 1 < Addresses, NEW n \in Known'
               PROVE  macToIP'[n] < nextIP'
    BY Zenon
  <2>1. Addresses \in Int /\ k + 1 <= Addresses
    BY DEF Addresses
  <2>2. nextIP = FirstIP + k /\ nextIP' = FirstIP + (k + 1) /\ nextIP < nextIP'
    BY <1>6, <1>10, <2>1
  <2>3. CASE n = m
    BY <1>9, <2>2, <2>3, Zenon
  <2>4. CASE n \in Known
    <3>1. macToIP'[n] = macToIP[n] /\ macToIP[n] \in Nat /\ macToIP[n] < nextIP
      BY <1>6, <1>8, <2>1, <2>4 DEF IP
    <3> QED BY <1>1, <2>2, <3>1
  <2> QED BY <1>3, <2>3, <2>4, Zenon
<1>12. k + 1 <= Addresses => \A n, o \in Known' : n # o => macToIP'[n] # macToIP'[o]
  BY <1>3, <1>6, <1>7, <1>8, <1>9 DEF IP
<1>13. Addresses' = Addresses /\ IP' = IP
  BY Zenon DEF Addresses, IP
<1> QED BY <1>2, <1>5a, <1>10, <1>11, <1>12, <1>13, Zenon DEF LeasesBelow

LEMMA ForwardNextLeases == LeasesBelow /\ [ForwardNext]_fwdVars => LeasesBelow'
<1>1. ASSUME LeasesBelow, UNCHANGED <<nextIP, macToIP>> PROVE LeasesBelow'
  <2>1. Known' = Known
    BY <1>1, Zenon DEF Known
  <2>2. Cardinality(Known)' = Cardinality(Known) /\ Addresses' = Addresses /\ IP' = IP
    BY <2>1, Zenon DEF Addresses, IP
  <2> QED BY <1>1, <2>1, <2>2, Zenon DEF LeasesBelow
<1>2. ASSUME [ForwardNext]_fwdVars PROVE (\E m \in Mac : Lease(m)) \/ UNCHANGED <<nextIP, macToIP>>
  BY <1>2, Zenon DEF ForwardNext, fwdVars, Datagram, Inject, InjectFails, Finish
<1> QED BY <1>1, <1>2, LeaseKeepsLeases, Zenon

\* No two boards hold one address while there are no more boards than
\* addresses (handleDHCP), for every range of addresses.
THEOREM ForwardDistinctLeases == ForwardSpec => []DistinctLeases
<1>1. LeasesBelow => DistinctLeases
  BY IPCount, Zenon DEF LeasesBelow, DistinctLeases, Known
<1> QED BY <1>1, ForwardInitLeases, ForwardNextLeases, PTL DEF ForwardSpec

-----------------------------------------------------------------------------
(* UDP forwarding                                                          *)

\* The port given out a datagrams before port n.
Back(n, a) == IF n - a >= FirstSport THEN n - a ELSE n - a + Ports

InFlight ==
  [port : Sport, from : Host, age : 0 .. Ports, stage : {"injecting", "sent"}]

\* A datagram's port is as far behind the counter as its age says, until all
\* ports have been given out since; so no two datagrams of that age share a
\* port, and the table still names the sender of each.
PortsBehind ==
  /\ nextSport \in Sport /\ datagrams \subseteq InFlight
  /\ DOMAIN bySport = Sport
  /\ \A d \in datagrams : d.age < Ports =>
       d.port = Back(nextSport, d.age) /\ bySport[d.port] = d.from
  /\ \A d, e \in datagrams : d.age < Ports /\ d.age = e.age => d = e
  /\ \A d \in datagrams : d.stage = "injecting" => d.age < Ports

LEMMA PortsNat == Ports \in Nat \ {0} /\ FirstSport \in Sport /\ Sport \subseteq Nat
  BY ForwardAssumption DEF Ports, Sport

LEMMA AfterSportIs ==
  ASSUME NEW n \in Sport
  PROVE  /\ AfterSport(n) \in Sport
         /\ AfterSport(n) = IF n = LastSport THEN FirstSport ELSE n + 1
<1> USE ForwardAssumption
<1>1. CASE n = LastSport
  <2>1. (n + 1) % (LastSport + 1) = 0
    BY <1>1
  <2> QED BY <1>1, <2>1 DEF AfterSport, Sport
<1>2. CASE n # LastSport
  <2>1. n + 1 \in 0 .. LastSport
    BY <1>2 DEF Sport
  <2>2. (n + 1) % (LastSport + 1) = n + 1
    BY <2>1
  <2> QED BY <1>2, <2>1, <2>2 DEF AfterSport, Sport
<1> QED BY <1>1, <1>2, Zenon

\* The next port was given out Ports - 1 datagrams ago, no later.
LEMMA BackStep ==
  ASSUME NEW n \in Sport, NEW a \in 0 .. Ports, a + 1 < Ports
  PROVE  /\ Back(AfterSport(n), a + 1) = Back(n, a)
         /\ Back(n, a) # AfterSport(n)
  BY AfterSportIs, ForwardAssumption DEF Back, Sport, Ports

LEMMA BackDistinct ==
  ASSUME NEW n \in Sport, NEW a \in 0 .. Ports, NEW b \in 0 .. Ports,
         a < Ports, b < Ports, Back(n, a) = Back(n, b)
  PROVE  a = b
  BY ForwardAssumption DEF Back, Sport, Ports

LEMMA OlderFacts ==
  ASSUME NEW d \in InFlight
  PROVE  /\ Older(d) \in InFlight
         /\ Older(d).port = d.port /\ Older(d).from = d.from /\ Older(d).stage = d.stage
         /\ Older(d).age = IF d.age < Ports THEN d.age + 1 ELSE Ports
  BY PortsNat DEF Older, InFlight

LEMMA ForwardInitPorts == ForwardInit => PortsBehind
  BY PortsNat, Zenon DEF ForwardInit, PortsBehind

LEMMA DatagramPorts ==
  ASSUME PortsBehind, NEW h \in Host, Datagram(h)
  PROVE  PortsBehind'
<1> DEFINE p == AfterSport(nextSport)
           new == [port |-> p, from |-> h, age |-> 0, stage |-> "injecting"]
<1>0. nextSport \in Sport /\ datagrams \subseteq InFlight /\ p \in Sport /\ p \in Nat
  BY AfterSportIs, PortsNat, Zenon DEF PortsBehind
<1>1. new \in InFlight
  BY <1>0, PortsNat DEF InFlight
<1>2. /\ nextSport' = p /\ bySport' = [bySport EXCEPT ![p] = h]
      /\ datagrams' = {Older(d) : d \in datagrams} \cup {new}
  BY Zenon DEF Datagram
<1> HIDE DEF new
<1>3. datagrams' \subseteq InFlight
  BY <1>0, <1>1, <1>2, OlderFacts, Zenon
<1>4. \A d \in datagrams : d \in InFlight /\ d.age \in 0 .. Ports /\ d.port \in Sport
  BY <1>0, Zenon DEF InFlight
<1>5. DOMAIN bySport' = Sport /\ bySport'[p] = h
      /\ \A q \in Sport : q # p => bySport'[q] = bySport[q]
  BY <1>0, <1>2, Zenon DEF PortsBehind
<1>6. new.age = 0 /\ new.port = p /\ new.from = h /\ new.stage = "injecting"
  BY Zenon DEF new
<1> HIDE DEF p
<1>7. ASSUME NEW d \in datagrams, Older(d).age < Ports
      PROVE  /\ d.age < Ports /\ Older(d).age = d.age + 1
             /\ Older(d).port = Back(p, Older(d).age)
             /\ bySport'[Older(d).port] = Older(d).from
  <2>1. d.age < Ports /\ d.age + 1 < Ports /\ Older(d).age = d.age + 1
    BY <1>4, <1>7, OlderFacts, PortsNat
  <2>2. Back(p, d.age + 1) = Back(nextSport, d.age) /\ Back(nextSport, d.age) # p
    BY <1>0, <1>4, <2>1, BackStep, Zenon DEF p
  <2>3. d.port = Back(nextSport, d.age) /\ bySport[d.port] = d.from
    BY <2>1, Zenon DEF PortsBehind
  <2> QED BY <1>4, <1>5, <2>1, <2>2, <2>3, OlderFacts
<1>8. Back(p, 0) = p
  BY <1>0, PortsNat DEF Back, Sport
<1>9. \A d \in datagrams' : d.age < Ports =>
        d.port = Back(nextSport', d.age) /\ bySport'[d.port] = d.from
  BY <1>2, <1>5, <1>6, <1>7, <1>8
<1>10. \A d, e \in datagrams' : d.age < Ports /\ d.age = e.age => d = e
  <2>1. ASSUME NEW d \in datagrams, NEW e \in datagrams,
               Older(d).age < Ports, Older(d).age = Older(e).age
        PROVE  Older(d) = Older(e)
    <3>1. d.age < Ports /\ d.age + 1 = e.age + 1
      BY <1>7, <2>1, Zenon
    <3>2. d.age = e.age
      BY <1>4, <3>1
    <3> QED BY <3>1, <3>2, Zenon DEF PortsBehind
  <2>2. ASSUME NEW d \in datagrams PROVE Older(d).age # 0
    BY <1>4, OlderFacts, PortsNat
  <2> QED BY <1>2, <1>6, <2>1, <2>2
<1>11. \A d \in datagrams' : d.stage = "injecting" => d.age < Ports
  <2>1. ASSUME NEW d \in datagrams, Older(d).stage = "injecting"
        PROVE  Older(d).age < Ports
    <3>1. d.stage = "injecting" /\ d.age < Ports - 1
      BY <1>4, <2>1, OlderFacts, Zenon DEF Datagram
    <3> QED BY <1>4, <3>1, OlderFacts, PortsNat
  <2> QED BY <1>2, <1>6, <2>1, PortsNat
<1>12. nextSport' \in Sport
  BY <1>0, <1>2, Zenon
<1> QED BY <1>3, <1>5, <1>9, <1>10, <1>11, <1>12, Zenon DEF PortsBehind, Ports, Sport, InFlight, Back

LEMMA InjectPorts ==
  ASSUME PortsBehind, NEW d \in datagrams, Inject(d)
  PROVE  PortsBehind'
<1> DEFINE sent == [d EXCEPT !.stage = "sent"]
<1>1. d \in InFlight /\ sent \in InFlight
  BY Zenon DEF PortsBehind, InFlight
<1>2. sent.port = d.port /\ sent.from = d.from /\ sent.age = d.age /\ sent.stage = "sent"
  BY <1>1, Zenon DEF InFlight
<1>3. datagrams' = (datagrams \ {d}) \cup {sent} /\ UNCHANGED <<nextSport, bySport>>
  BY Zenon DEF Inject
<1> HIDE DEF sent
<1>4. \A e \in datagrams' : e.age < Ports =>
        e.port = Back(nextSport, e.age) /\ bySport[e.port] = e.from
  BY <1>2, <1>3 DEF PortsBehind
<1>5. \A e, f \in datagrams' : e.age < Ports /\ e.age = f.age => e = f
  BY <1>2, <1>3 DEF PortsBehind
<1>6. \A e \in datagrams' : e.stage = "injecting" => e.age < Ports
  BY <1>2, <1>3, Zenon DEF PortsBehind
<1>7. datagrams' \subseteq InFlight
  BY <1>1, <1>3, Zenon DEF PortsBehind
<1> QED BY <1>3, <1>4, <1>5, <1>6, <1>7, Zenon DEF PortsBehind, Ports, Sport, InFlight, Back

LEMMA InjectFailsPorts ==
  ASSUME PortsBehind, NEW d \in datagrams, InjectFails(d)
  PROVE  PortsBehind'
<1>1. /\ datagrams' = datagrams \ {d} /\ nextSport' = nextSport
      /\ bySport' = [bySport EXCEPT ![d.port] = NoHost]
  BY Zenon DEF InjectFails
<1>2. d.age < Ports /\ d.port = Back(nextSport, d.age)
  BY Zenon DEF PortsBehind, InjectFails
<1>3. \A e \in datagrams : e.age \in 0 .. Ports /\ e.port \in Sport
  BY Zenon DEF PortsBehind, InFlight
<1>4. ASSUME NEW e \in datagrams', e.age < Ports PROVE e.port # d.port
  <2>1. e \in datagrams /\ e # d /\ e.port = Back(nextSport, e.age)
    BY <1>1, <1>4, Zenon DEF PortsBehind
  <2>2. e.age # d.age
    BY <1>2, <2>1, Zenon DEF PortsBehind
  <2> QED BY <1>2, <1>3, <1>4, <2>1, <2>2, BackDistinct DEF PortsBehind
<1>5. \A e \in datagrams' : e.age < Ports =>
        e.port = Back(nextSport, e.age) /\ bySport'[e.port] = e.from
  BY <1>1, <1>3, <1>4, Zenon DEF PortsBehind
<1>6. DOMAIN bySport' = Sport /\ datagrams' \subseteq datagrams
  BY <1>1, Zenon DEF PortsBehind
<1> QED BY <1>1, <1>5, <1>6, Zenon DEF PortsBehind, Ports, Sport, InFlight, Back

LEMMA ForwardNextPorts == PortsBehind /\ [ForwardNext]_fwdVars => PortsBehind'
<1>1. ASSUME PortsBehind, datagrams' \subseteq datagrams, UNCHANGED <<nextSport, bySport>>
      PROVE  PortsBehind'
  BY <1>1, Zenon DEF PortsBehind, Ports, Sport, InFlight, Back
<1>2. ASSUME [ForwardNext]_fwdVars
      PROVE  \/ \E h \in Host : Datagram(h)
             \/ \E d \in datagrams : Inject(d) \/ InjectFails(d)
             \/ datagrams' \subseteq datagrams /\ UNCHANGED <<nextSport, bySport>>
  BY <1>2, Zenon DEF ForwardNext, fwdVars, Lease, Finish
<1> QED BY <1>1, <1>2, DatagramPorts, InjectPorts, InjectFailsPorts, Zenon

\* An answer is relayed to the program whose datagram it answers until every
\* port has been given out again (handleUDPProxy, divertUDPForward), for
\* every range of ports.
THEOREM ForwardRelayedToSender == ForwardSpec => []RelayedToSender
<1>1. PortsBehind => RelayedToSender
  BY Zenon DEF PortsBehind, RelayedToSender
<1> QED BY <1>1, ForwardInitPorts, ForwardNextPorts, PTL DEF ForwardSpec

=============================================================================
