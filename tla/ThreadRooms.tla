---------------------------- MODULE ThreadRooms ----------------------------
(***************************************************************************)
(* The 802.15.4 rooms of the gateway (handleThreadGateway in main.go).     *)
(* Unlike the network rooms, a client is upgraded first and then looks its *)
(* room up and joins it under one lock. The last to leave deletes the      *)
(* entry of the session after having released the lock of the room.        *)
(***************************************************************************)

CONSTANTS ThClients, ThSessions, ThRoom, NoThRoom

ASSUME ThreadAssumption == NoThRoom \notin ThRoom /\ ThSessions # {}

VARIABLES
  thRooms,   \* the map from sessions to rooms
  thMembers, \* ThreadRoom.Clients
  thPc,      \* where the goroutine of a client is
  thAt,      \* its local variable room
  thSession  \* its local variable sessionId

thVars == <<thRooms, thMembers, thPc, thAt, thSession>>

ThreadInit ==
  /\ thRooms = [s \in ThSessions |-> NoThRoom]
  /\ thMembers = [r \in ThRoom |-> {}]
  /\ thPc = [c \in ThClients |-> "idle"]
  /\ thAt = [c \in ThClients |-> NoThRoom]
  /\ thSession \in [ThClients -> {CHOOSE s \in ThSessions : TRUE}]

UnusedThRoom(r) ==
  /\ \A s \in ThSessions : thRooms[s] # r
  /\ \A c \in ThClients : thAt[c] # r

\* Mutant: the map is not consulted.
ThreadJoinFresh(c) ==
  /\ thPc[c] = "idle"
  /\ \E s \in ThSessions, r \in ThRoom :
       /\ UnusedThRoom(r)
       /\ thRooms' = [thRooms EXCEPT ![s] = r]
       /\ thMembers' = [thMembers EXCEPT ![r] = @ \cup {c}]
       /\ thAt' = [thAt EXCEPT ![c] = r]
       /\ thSession' = [thSession EXCEPT ![c] = s]
  /\ thPc' = [thPc EXCEPT ![c] = "in"]

\* Under threadRoomsMutex: find or create the room, and join it.
ThreadJoin(c) ==
  /\ thPc[c] = "idle"
  /\ \E s \in ThSessions, r \in ThRoom :
       /\ IF thRooms[s] = NoThRoom THEN UnusedThRoom(r) ELSE r = thRooms[s]
       /\ thRooms' = [thRooms EXCEPT ![s] = r]
       /\ thMembers' = [thMembers EXCEPT ![r] = @ \cup {c}]
       /\ thAt' = [thAt EXCEPT ![c] = r]
       /\ thSession' = [thSession EXCEPT ![c] = s]
  /\ thPc' = [thPc EXCEPT ![c] = "in"]

\* The deferred function, under the lock of the room.
ThreadLeave(c) ==
  /\ thPc[c] = "in"
  /\ thMembers' = [thMembers EXCEPT ![thAt[c]] = @ \ {c}]
  /\ thPc' = [thPc EXCEPT ![c] = IF thMembers'[thAt[c]] = {} THEN "deleting" ELSE "idle"]
  /\ thAt' = [thAt EXCEPT ![c] = NoThRoom]
  /\ UNCHANGED <<thRooms, thSession>>

\* Under threadRoomsMutex: the entry of the session goes.
ThreadDelete(c) ==
  /\ thPc[c] = "deleting"
  /\ thRooms' = [thRooms EXCEPT ![thSession[c]] = NoThRoom]
  /\ thPc' = [thPc EXCEPT ![c] = "idle"]
  /\ UNCHANGED <<thMembers, thAt, thSession>>

ThreadNext == \E c \in ThClients : ThreadJoin(c) \/ ThreadLeave(c) \/ ThreadDelete(c)

ThreadSpec == ThreadInit /\ [][ThreadNext]_thVars

-----------------------------------------------------------------------------

\* An empty room is in the map only while the client that emptied it, or a
\* later one that emptied it again, is about to delete its entry: rooms of
\* finished sessions do not pile up.
ThreadEntryUsed ==
  \A s \in ThSessions :
    thRooms[s] # NoThRoom /\ thMembers[thRooms[s]] = {} =>
      \E c \in ThClients : thPc[c] = "deleting" /\ thSession[c] = s

\* A client that is connected shares its room with whoever joins its session
\* next, unless a client that emptied a room of the session has deleted, or is
\* about to delete, the entry: a frame is never sent into a room of its own
\* for another reason.
ThreadReachable ==
  [][\A c \in ThClients :
       /\ thPc[c] = "in" /\ thRooms[thSession[c]] = thAt[c]
       /\ thPc'[c] = "in" /\ thRooms'[thSession[c]] # thAt[c]
       => \E d \in ThClients \ {c} :
            thPc[d] = "deleting" /\ thPc'[d] = "idle" /\ thSession[d] = thSession[c]]_thVars
=============================================================================
