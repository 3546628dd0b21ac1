--------------------------- MODULE GatewayRooms ---------------------------
(***************************************************************************)
(* The rooms of the network gateway (tools/gateway/main.go). Every client  *)
(* is served by a goroutine of its own. It looks the room of its session   *)
(* up, or creates it, under roomsMutex; it joins under the lock of the     *)
(* room; the last one to leave closes the room and deletes the entry of    *)
(* the session. Between any two of these steps the locks are free and      *)
(* other goroutines run.                                                   *)
(*                                                                         *)
(* A WebSocket client has an upgrade, which may fail, between lookup and   *)
(* join. A TCP client always uses the room of TcpSession and leaves it     *)
(* without looking whether it was the last. Cancelling the context of a    *)
(* room and closing its pipe are one step: no goroutine tells them apart.  *)
(*                                                                         *)
(* A room is a heap object. Its identity may be used again once nothing    *)
(* refers to it and its pipe is closed; one whose pipe stays open is kept  *)
(* alive by the goroutines reading the pipe.                               *)
(***************************************************************************)

CONSTANTS WsClients, TcpClients, Sessions, TcpSession, Room, NoRoom

Clients == WsClients \cup TcpClients

ASSUME RoomsAssumption ==
  /\ NoRoom \notin Room
  /\ WsClients \cap TcpClients = {}
  /\ TcpSession \in Sessions

VARIABLES
  rooms,     \* the map from sessions to rooms
  session,   \* Room.SessionId
  pipe,      \* "open" from creation until the room is cleaned up
  members,   \* Room.Clients
  pc,        \* where the goroutine of a client is
  at,        \* its local variable room
  abandoned  \* history: rooms some handler left without cleaning up

roomVars == <<rooms, session, pipe, members, pc, at, abandoned>>

RoomsInit ==
  /\ rooms = [s \in Sessions |-> NoRoom]
  /\ session \in [Room -> {TcpSession}]
  /\ pipe = [r \in Room |-> "closed"]
  /\ members = [r \in Room |-> {}]
  /\ pc = [c \in Clients |-> "idle"]
  /\ at = [c \in Clients |-> NoRoom]
  /\ abandoned = {}

\* A room nothing refers to: what the next allocation may return.
Unused(r) ==
  /\ pipe[r] = "closed"
  /\ \A s \in Sessions : rooms[s] # r
  /\ \A c \in Clients : at[c] # r

-----------------------------------------------------------------------------
(* Coming in                                                               *)

Found(c, s) ==
  /\ rooms[s] # NoRoom
  /\ at' = [at EXCEPT ![c] = rooms[s]]
  /\ UNCHANGED <<rooms, session, pipe, members, abandoned>>

\* A new room with an open pipe, its reader and its acceptor running.
Created(c, s) ==
  /\ rooms[s] = NoRoom
  /\ \E r \in Room :
       /\ Unused(r)
       /\ rooms' = [rooms EXCEPT ![s] = r]
       /\ session' = [session EXCEPT ![r] = s]
       /\ pipe' = [pipe EXCEPT ![r] = "open"]
       /\ at' = [at EXCEPT ![c] = r]
       /\ abandoned' = abandoned \ {r}
  /\ UNCHANGED members

Request(c) ==
  /\ pc[c] = "idle"
  /\ \E s \in IF c \in TcpClients THEN {TcpSession} ELSE Sessions :
       Found(c, s) \/ Created(c, s)
  /\ pc' = [pc EXCEPT ![c] = "joining"]

\* The WebSocket upgrade fails: the handler returns and leaves the room as
\* it is.
UpgradeFails(c) ==
  /\ c \in WsClients /\ pc[c] = "joining"
  /\ pc' = [pc EXCEPT ![c] = "idle"]
  /\ at' = [at EXCEPT ![c] = NoRoom]
  /\ abandoned' = abandoned \cup {at[c]}
  /\ UNCHANGED <<rooms, session, pipe, members>>

Join(c) ==
  /\ pc[c] = "joining"
  /\ pc' = [pc EXCEPT ![c] = "in"]
  /\ members' = [members EXCEPT ![at[c]] = @ \cup {c}]
  /\ UNCHANGED <<rooms, session, pipe, at, abandoned>>

-----------------------------------------------------------------------------
(* Leaving                                                                 *)

\* The first half of the deferred function of handleClient, under the lock
\* of the room. The answer to "is it empty" is used after the unlock.
Leave(c) ==
  /\ pc[c] = "in" /\ c \in WsClients
  /\ members' = [members EXCEPT ![at[c]] = @ \ {c}]
  /\ IF members'[at[c]] = {}
     THEN pc' = [pc EXCEPT ![c] = "closing"] /\ UNCHANGED at
     ELSE pc' = [pc EXCEPT ![c] = "idle"] /\ at' = [at EXCEPT ![c] = NoRoom]
  /\ UNCHANGED <<rooms, session, pipe, abandoned>>

\* Reading from the client fails, or writing its frame to the pipe does.
Disconnect(c) == Leave(c)

\* The ping goroutine stops with the context of the room; no pong moves the
\* read deadline any more and ReadMessage fails when it is reached.
Expire(c) == pc[c] = "in" /\ pipe[at[c]] = "closed" /\ Leave(c)

\* Cancel and PipeToVN.Close.
CloseRoom(c) ==
  /\ pc[c] = "closing"
  /\ pipe' = [pipe EXCEPT ![at[c]] = "closed"]
  /\ pc' = [pc EXCEPT ![c] = "deleting"]
  /\ UNCHANGED <<rooms, session, members, at, abandoned>>

\* Mutant: the entry is deleted only if somebody else has replaced it.
DeleteEntryOther(c) ==
  /\ pc[c] = "deleting"
  /\ rooms' = [rooms EXCEPT ![session[at[c]]] = IF @ = at[c] THEN @ ELSE NoRoom]
  /\ pc' = [pc EXCEPT ![c] = "idle"]
  /\ at' = [at EXCEPT ![c] = NoRoom]
  /\ UNCHANGED <<session, pipe, members, abandoned>>

\* The entry of the session goes, whichever room it names by now.
DeleteEntry(c) ==
  /\ pc[c] = "deleting"
  /\ rooms' = [rooms EXCEPT ![session[at[c]]] = NoRoom]
  /\ pc' = [pc EXCEPT ![c] = "idle"]
  /\ at' = [at EXCEPT ![c] = NoRoom]
  /\ UNCHANGED <<session, pipe, members, abandoned>>

\* The deferred function of handleTCPConn.
TcpLeave(c) ==
  /\ pc[c] = "in" /\ c \in TcpClients
  /\ members' = [members EXCEPT ![at[c]] = @ \ {c}]
  /\ abandoned' = abandoned \cup {at[c]}
  /\ pc' = [pc EXCEPT ![c] = "idle"]
  /\ at' = [at EXCEPT ![c] = NoRoom]
  /\ UNCHANGED <<rooms, session, pipe>>

-----------------------------------------------------------------------------

RoomsNext ==
  \E c \in Clients :
    \/ Request(c) \/ UpgradeFails(c) \/ Join(c)
    \/ Disconnect(c) \/ Expire(c) \/ TcpLeave(c)
    \/ CloseRoom(c) \/ DeleteEntry(c)

RoomsSpec == RoomsInit /\ [][RoomsNext]_roomVars

\* A goroutine past its last wait runs to its end, and a read deadline that
\* nothing moves is reached. When clients come and go is up to them.
RoomsFairness ==
  \A c \in WsClients :
    /\ WF_roomVars(CloseRoom(c))
    /\ WF_roomVars(DeleteEntry(c))
    /\ WF_roomVars(Expire(c))

-----------------------------------------------------------------------------
(* Properties                                                              *)

\* Every variable has its type, and a goroutine has a room while it runs.
RoomsTypeOK ==
  /\ rooms \in [Sessions -> Room \cup {NoRoom}]
  /\ session \in [Room -> Sessions]
  /\ pipe \in [Room -> {"open", "closed"}]
  /\ members \in [Room -> SUBSET Clients]
  /\ pc \in [Clients -> {"idle", "joining", "in", "closing", "deleting"}]
  /\ at \in [Clients -> Room \cup {NoRoom}]
  /\ abandoned \subseteq Room
  /\ \A c \in Clients : pc[c] = "idle" <=> at[c] = NoRoom

\* The map names a closed room only while a handler that closed it is about
\* to delete the entry, so a session is never stuck with a dead network.
NoDeadEntry ==
  \A s \in Sessions :
    rooms[s] # NoRoom /\ pipe[rooms[s]] = "closed" =>
      \E c \in WsClients : pc[c] = "deleting" /\ at[c] = rooms[s]

\* An open room is reachable through the map, has a client, is about to get
\* one or is about to be closed: its pipe, its reader and its acceptor are
\* lost only through a handler that gave up without cleaning up, as one
\* whose upgrade fails does.
NoLostRoom ==
  \A r \in Room : pipe[r] = "open" =>
    \/ \E s \in Sessions : rooms[s] = r
    \/ \E c \in Clients : at[c] = r /\ pc[c] \in {"joining", "in", "closing"}
    \/ r \in abandoned

\* A client that joined a room after it was closed is disconnected, and can
\* come back to a live one.
StrandedLeaves ==
  \A c \in WsClients :
    (pc[c] = "in" /\ pipe[at[c]] = "closed") ~> (pc[c] # "in")

\* Clients of one session whose rooms are open share one room.
SameRoom ==
  \A c, d \in Clients :
    /\ pc[c] = "in" /\ pipe[at[c]] = "open"
    /\ pc[d] = "in" /\ pipe[at[d]] = "open"
    /\ session[at[c]] = session[at[d]]
    => at[c] = at[d]

\* The safety of the map of rooms: no entry leads to a dead room for good, and
\* no live room is out of everybody's reach.
RoomsSound == RoomsTypeOK /\ NoDeadEntry /\ NoLostRoom
=============================================================================
