---------------------------- MODULE MapSessions ----------------------------
(***************************************************************************)
(* One WorldSession among the threads that update it: the world thread     *)
(* (World::UpdateSessions) while its player is on no map, and the thread   *)
(* of a map (MapMgr::Do) while it is on that map.  Each has a set of       *)
(* sessions and updates those whose instanceId names it.  A packet or an   *)
(* event moves the player, and the session is handed over: to a map by its *)
(* insert pool, to the world thread by AddGlobalSession.  instanceId and   *)
(* the player's fields have no lock; SessionsMutex (recursive) is held by  *)
(* the world thread for its whole loop.                                    *)
(*                                                                         *)
(* A thread's place is a stack of labels, the procedure it is in first; it *)
(* is empty between two visits of the session.  The instance id 0 is the   *)
(* world thread.  Maps do not end here, and only the thread of the         *)
(* player's map, or the one that updates the session, moves the player.    *)
(***************************************************************************)
EXTENDS Naturals, Sequences

CONSTANTS Map, World, None,
          MaxPackets   \* bound of the packets in _recvQueue

ASSUME MapSessionsAssumption ==
  /\ World \notin Map /\ None \notin Map \cup {World} /\ MaxPackets \in Nat \ {0}

Thread == Map \cup {World}

VARIABLES
  instanceId,   \* of the session: the thread that is to update it
  Sessions,     \* the threads that have it in their set
  SessionsMutex,
  socket,       \* its _socket is not NULL
  packets,      \* how many _recvQueue holds
  logoutTime,   \* "unset"; "set"; "due" when it has come
  loggingOut,   \* _loggingOut
  bDeleted,
  freed,        \* delete has been called
  player,       \* _player is not NULL
  mapMgr,       \* the player's m_mapMgr
  pushed,       \* its m_beingPushed
  pool,         \* the maps whose m_objectinsertpool has the player
  newWorld,     \* SMSG_NEW_WORLD was sent, and its answer has not been handled
  pc,           \* the stack of each thread
  local,        \* the m_mapMgr it has read in AddToWorld
  overtaken,    \* history: while a thread moved the player, another "moved" it on,
                \* or "deleted" it or decided to delete the session; else "no"
  handed        \* history: the threads that have handed the session over and
                \* not compared its instanceId with their own since

session == <<instanceId, Sessions, SessionsMutex, handed>>
timers == <<socket, packets, logoutTime>>
ending == <<loggingOut, bDeleted, freed, overtaken>>
character == <<player, mapMgr, pushed, pool, newWorld>>
control == <<pc, local>>
vars == <<session, timers, ending, character, control>>

Init ==
  /\ instanceId = World /\ Sessions = {World} /\ SessionsMutex = None
  /\ handed = {}
  /\ socket = TRUE /\ packets = 0 /\ logoutTime = "unset"
  /\ loggingOut = FALSE /\ bDeleted = FALSE /\ freed = FALSE
  /\ player = FALSE /\ mapMgr = None /\ pushed = FALSE /\ pool = {}
  /\ newWorld = FALSE /\ overtaken = "no"
  /\ pc = [t \in Thread |-> <<>>]
  /\ local = [t \in Thread |-> None]

-----------------------------------------------------------------------------
(* Control of a thread. *)

At(t, label) == pc[t] # <<>> /\ Head(pc[t]) = label
Goto(t, label) == pc' = [pc EXCEPT ![t] = <<label>> \o Tail(@)]
Call(t, callee, back) == pc' = [pc EXCEPT ![t] = <<callee, back>> \o Tail(@)]
Return(t) == pc' = [pc EXCEPT ![t] = Tail(@)]

\* another thread is in a procedure that puts the player on a map or takes it away
MovedByOther(t) == \E u \in Thread \ {t}, i \in 1 .. 3 :
  i <= Len(pc[u]) /\ pc[u][i] \in {"added", "setInstance", "remove", "release",
                                   "addGlobal", "sendNewWorld", "pushed", "loggedOut"}

\* A plausible mistake: the context is not compared.
AnyContext(t) == TRUE

\* the test "InstanceID != instanceId" of Update
SameContext(t) == instanceId = t
Moving == player /\ pushed

\* A plausible mistake: a deleted session is erased from the set later.
FinishKeeps(t, result) ==
  /\ Sessions' = IF result = "changed" THEN Sessions \ {t} ELSE Sessions
  /\ pc' = [pc EXCEPT ![t] = (IF t = World THEN <<"unlock">> ELSE <<>>) \o
                             (IF result = "deleted" THEN <<"delete">> ELSE <<>>)]

\* Update returns to its loop: the set keeps the session if the result is
\* "ok", and a "deleted" one is deleted (by World after it has unlocked).
Finish(t, result) ==
  /\ Sessions' = IF result = "ok" THEN Sessions ELSE Sessions \ {t}
  /\ pc' = [pc EXCEPT ![t] = (IF t = World THEN <<"unlock">> ELSE <<>>) \o
                             (IF result = "deleted" THEN <<"delete">> ELSE <<>>)]

(***************************************************************************)
(* The loops over the sets.                                                *)
(***************************************************************************)
EraseForeign(t) ==
  /\ ~SameContext(t)
  /\ Sessions' = Sessions \ {t} /\ handed' = handed \ {t}
  /\ UNCHANGED <<instanceId, SessionsMutex, control>>

StartUpdate(t) ==
  /\ SameContext(t)
  /\ t \in Map => ~player \/ mapMgr \in {t, None}
  /\ pc' = [pc EXCEPT ![t] = <<"socket">>]
  /\ handed' = handed \ {t}
  /\ SessionsMutex' = IF t = World THEN World ELSE SessionsMutex
  /\ UNCHANGED <<instanceId, Sessions, local>>

Visit(t) ==
  /\ pc[t] = <<>> /\ t \in Sessions
  /\ t = World => SessionsMutex = None
  /\ EraseForeign(t) \/ StartUpdate(t)
  /\ UNCHANGED <<timers, ending, character>>

\* A plausible mistake: the lock is not released on this path.
StaysLocked ==
  /\ At(World, "unlock")
  /\ Return(World)
  /\ UNCHANGED <<session, timers, ending, character, local>>

Unlock ==
  /\ At(World, "unlock")
  /\ SessionsMutex' = None
  /\ Return(World)
  /\ UNCHANGED <<instanceId, Sessions, handed, timers, ending, character, local>>

\* The destructor finds no player, or one whose LogoutPlayer another thread
\* has begun: then its own call returns at once.
DeleteSession(t) ==
  /\ At(t, "delete")
  /\ freed' = TRUE
  /\ Return(t)
  /\ UNCHANGED <<session, timers, loggingOut, bDeleted, overtaken, character, local>>

(***************************************************************************)
(* WorldSession::Update.                                                   *)
(***************************************************************************)
\* A plausible mistake: the logout timer is not started.
NoTimer(t) ==
  /\ At(t, "socket")
  /\ IF ~socket /\ Moving THEN Finish(t, "ok")
                         ELSE Goto(t, "packets") /\ UNCHANGED Sessions
  /\ UNCHANGED <<instanceId, SessionsMutex, handed, timers, ending, character, local>>

TestSocket(t) ==
  /\ At(t, "socket")
  /\ IF ~socket /\ Moving
       THEN Finish(t, "ok") /\ UNCHANGED logoutTime
       ELSE /\ Goto(t, "packets")
            /\ logoutTime' = IF ~socket /\ logoutTime = "unset" THEN "set"
                             ELSE logoutTime
            /\ UNCHANGED Sessions
  /\ UNCHANGED <<instanceId, SessionsMutex, handed, socket, packets, ending, character,
                 local>>

NoMorePackets(t) ==
  /\ At(t, "packets") /\ packets = 0
  /\ Goto(t, "timer")
  /\ UNCHANGED <<session, timers, ending, character, local>>

Pop(t) == At(t, "packets") /\ packets > 0 /\ packets' = packets - 1

\* A plausible mistake: only bDeleted is tested after a packet.
GoesOn(t) ==
  /\ At(t, "compare")
  /\ IF bDeleted THEN Finish(t, "deleted") ELSE Goto(t, "packets") /\ UNCHANGED Sessions
  /\ UNCHANGED <<instanceId, SessionsMutex, handed, timers, ending, character, local>>

\* after each packet
Compare(t) ==
  /\ At(t, "compare")
  /\ handed' = IF SameContext(t) /\ bDeleted THEN handed ELSE handed \ {t}
  /\ CASE ~SameContext(t) -> Finish(t, "changed")
       [] SameContext(t) /\ bDeleted -> Finish(t, "deleted")
       [] OTHER -> Goto(t, "packets") /\ UNCHANGED Sessions
  /\ UNCHANGED <<instanceId, SessionsMutex, timers, ending, character, local>>

TestTimer(t) ==
  /\ At(t, "timer")
  /\ LET dooms == SameContext(t) /\ logoutTime = "due" /\ ~Moving /\ ~socket
     IN /\ bDeleted' = (bDeleted \/ dooms)
        /\ overtaken' = IF dooms /\ MovedByOther(t) THEN "deleted" ELSE "no"
  /\ handed' = IF SameContext(t) THEN handed ELSE handed \ {t}
  /\ CASE ~SameContext(t) -> Finish(t, "changed")
       [] SameContext(t) /\ logoutTime # "due" -> Goto(t, "ping") /\ UNCHANGED Sessions
       [] SameContext(t) /\ logoutTime = "due" /\ Moving -> Finish(t, "ok")
       [] OTHER -> /\ Call(t, "logout", IF socket THEN "ping" ELSE "deleted")
                   /\ UNCHANGED Sessions
  /\ UNCHANGED <<instanceId, SessionsMutex, timers, loggingOut, freed, character, local>>

Deleted(t) ==
  /\ At(t, "deleted")
  /\ Finish(t, "deleted")
  /\ UNCHANGED <<instanceId, SessionsMutex, handed, timers, ending, character, local>>

PingInTime(t) ==
  /\ At(t, "ping")
  /\ Finish(t, "ok")
  /\ UNCHANGED <<instanceId, SessionsMutex, handed, timers, ending, character, local>>

PingTimeout(t) ==
  /\ At(t, "ping") /\ ~Moving
  /\ socket' = FALSE
  /\ logoutTime' = IF logoutTime = "unset" THEN "set" ELSE logoutTime
  /\ Finish(t, "ok")
  /\ UNCHANGED <<instanceId, SessionsMutex, handed, packets, ending, character, local>>

(***************************************************************************)
(* Handlers of packets.                                                    *)
(***************************************************************************)
\* Player::AddToWorld as far as MapMgr::AddObject: some map; or none will have the
\* player, and EjectFromInstance sends it elsewhere
Enter(t) ==
  /\ overtaken' = IF MovedByOther(t) THEN "moved" ELSE "no"
  /\ \/ \E m \in Map : /\ mapMgr' = m /\ pushed' = TRUE /\ pool' = pool \cup {m}
                       /\ handed' = handed \cup {t} /\ newWorld' = FALSE
                       /\ Goto(t, "added")
     \/ /\ mapMgr' = None /\ pushed' = FALSE /\ newWorld' = TRUE
        /\ Goto(t, "compare")
        /\ UNCHANGED <<pool, handed>>

Login(t) ==
  /\ Pop(t) /\ ~player
  /\ player' = TRUE
  /\ Enter(t)
  /\ UNCHANGED <<instanceId, Sessions, SessionsMutex, socket, logoutTime, loggingOut,
                 bDeleted, freed, local>>

WorldportAck(t) ==
  /\ Pop(t) /\ player /\ mapMgr = None /\ newWorld
  /\ Enter(t)
  /\ UNCHANGED <<instanceId, Sessions, SessionsMutex, socket, logoutTime, loggingOut,
                 bDeleted, freed, player, local>>

\* the rest of Player::AddToWorld: if(m_mapMgr == NULL) EjectFromInstance() ...
Added(t) ==
  /\ At(t, "added")
  /\ IF mapMgr = None
       THEN pushed' = FALSE /\ newWorld' = TRUE /\ Goto(t, "compare") /\ UNCHANGED local
       ELSE /\ Goto(t, "setInstance") /\ local' = [local EXCEPT ![t] = mapMgr]
            /\ UNCHANGED <<pushed, newWorld>>
  /\ UNCHANGED <<session, timers, ending, player, mapMgr, pool>>

\* ... else m_session->SetInstance(m_mapMgr->GetInstanceID())
SetInstance(t) ==
  /\ At(t, "setInstance")
  /\ instanceId' = local[t]
  /\ overtaken' = IF mapMgr # local[t] THEN "moved" ELSE "no"
  /\ local' = [local EXCEPT ![t] = None]
  /\ Goto(t, "compare")
  /\ UNCHANGED <<Sessions, SessionsMutex, handed, timers, loggingOut, bDeleted, freed,
                 character>>

\* Player::_Relocate to another map
Teleport(t) ==
  /\ Pop(t) /\ player /\ mapMgr # None
  /\ pc' = [pc EXCEPT ![t] = <<"remove", "sendNewWorld">> \o <<"compare">>]
  /\ UNCHANGED <<session, socket, logoutTime, ending, character, local>>

LogoutRequest(t) ==
  /\ Pop(t) /\ player
  /\ logoutTime' \in {"set", "due"}
  /\ Goto(t, "compare")
  /\ UNCHANGED <<session, socket, ending, character, local>>

LogoutCancel(t) ==
  /\ Pop(t) /\ player /\ mapMgr # None
  /\ logoutTime' = "unset"
  /\ Goto(t, "compare")
  /\ UNCHANGED <<session, socket, ending, character, local>>

PlayerLogout(t) ==
  /\ Pop(t) /\ player /\ mapMgr # None
  /\ Call(t, "logout", "compare")
  /\ UNCHANGED <<session, socket, logoutTime, ending, character, local>>

OtherPacket(t) ==
  /\ Pop(t)
  /\ Goto(t, "compare")
  /\ UNCHANGED <<session, socket, logoutTime, ending, character, local>>

\* the client may answer MSG_MOVE_WORLDPORT_ACK
SendNewWorld(t) ==
  /\ At(t, "sendNewWorld")
  /\ newWorld' = TRUE
  /\ Return(t)
  /\ UNCHANGED <<session, timers, ending, player, mapMgr, pushed, pool, local>>

(***************************************************************************)
(* WorldSession::LogoutPlayer and Object::RemoveFromWorld.                 *)
(***************************************************************************)
LogoutPlayer(t) ==
  /\ At(t, "logout")
  /\ IF loggingOut
       THEN Return(t)
       ELSE IF player /\ mapMgr # None
              THEN Call(t, "remove", "loggedOut")
              ELSE Goto(t, "loggedOut")
  /\ loggingOut' = TRUE
  /\ UNCHANGED <<session, timers, bDeleted, freed, overtaken, character, local>>

LoggedOut(t) ==
  /\ At(t, "loggedOut")
  /\ player' = FALSE /\ mapMgr' = None /\ pushed' = FALSE /\ newWorld' = FALSE
  /\ overtaken' = IF player /\ (mapMgr # None \/ MovedByOther(t)) THEN "deleted"
                  ELSE "no"
  /\ loggingOut' = FALSE /\ logoutTime' = "unset"
  /\ Return(t)
  /\ UNCHANGED <<session, socket, packets, bDeleted, freed, pool, local>>

\* A plausible mistake: RemoveObject leaves the insert pool alone.
KeepsPool(t) ==
  /\ At(t, "remove") /\ mapMgr # None
  /\ mapMgr' = None
  /\ Goto(t, "release")
  /\ UNCHANGED <<session, timers, ending, player, pushed, newWorld, pool, local>>

\* m_mapMgr = NULL and MapMgr::RemoveObject as far as the insert pool
Remove(t) ==
  /\ At(t, "remove") /\ mapMgr # None
  /\ mapMgr' = None
  /\ pool' = pool \ {mapMgr}
  /\ Goto(t, "release")
  /\ UNCHANGED <<session, timers, ending, player, pushed, newWorld, local>>

Release(t) ==
  /\ At(t, "release")
  /\ instanceId' = World
  /\ handed' = handed \cup {t}
  /\ IF bDeleted THEN Return(t) ELSE Goto(t, "addGlobal")
  /\ UNCHANGED <<Sessions, SessionsMutex, timers, ending, character, local>>

\* A plausible mistake: a try-lock that gives up.
TriesToAdd(t) ==
  /\ At(t, "addGlobal")
  /\ Sessions' = IF SessionsMutex \in {None, t} THEN Sessions \cup {World} ELSE Sessions
  /\ Return(t)
  /\ UNCHANGED <<instanceId, SessionsMutex, handed, timers, ending, character, local>>

AddGlobalSession(t) ==
  /\ At(t, "addGlobal") /\ SessionsMutex \in {None, t}
  /\ Sessions' = Sessions \cup {World}
  /\ Return(t)
  /\ UNCHANGED <<instanceId, SessionsMutex, handed, timers, ending, character, local>>

(***************************************************************************)
(* What a map does besides: it pushes the players of its insert pool, and  *)
(* spells, scripts and the player's events teleport or kick a player.      *)
(***************************************************************************)
PushObject(m) ==
  /\ pc[m] = <<>> /\ m \in pool
  /\ mapMgr' = m
  /\ Sessions' = Sessions \cup {m}
  /\ instanceId' = m
  /\ pc' = [pc EXCEPT ![m] = <<"pushed">>]
  /\ UNCHANGED <<SessionsMutex, handed, timers, ending, player, pushed, pool, newWorld, local>>

OnPushToWorld(m) ==
  /\ At(m, "pushed")
  /\ pushed' = FALSE
  /\ pool' = pool \ {m}
  /\ Return(m)
  /\ UNCHANGED <<session, timers, ending, player, mapMgr, newWorld, local>>

Happens(m, calls) ==
  /\ pc[m] = <<>> /\ player /\ mapMgr = m /\ m \notin pool
  /\ pc' = [pc EXCEPT ![m] = calls]
  /\ UNCHANGED <<session, timers, ending, character, local>>

EventTeleport(m) == Happens(m, <<"remove", "sendNewWorld">>)
EventKick(m) == Happens(m, <<"logout">>)

(***************************************************************************)
(* The client, the socket's worker and time.                               *)
(***************************************************************************)
QueuePacket ==
  /\ socket /\ packets < MaxPackets
  /\ packets' = packets + 1
  /\ UNCHANGED <<session, socket, logoutTime, ending, character, control>>

OnDisconnect ==
  /\ socket
  /\ socket' = FALSE
  /\ UNCHANGED <<session, packets, logoutTime, ending, character, control>>

\* another session of the account calls SetLogoutTimer(1), or the time comes
LogoutTimeComes(from) ==
  /\ logoutTime \in from
  /\ logoutTime' = "due"
  /\ UNCHANGED <<session, socket, packets, ending, character, control>>

Kick == LogoutTimeComes({"unset", "set"})
Tick == LogoutTimeComes({"set"})

-----------------------------------------------------------------------------
Packet(t) ==
  \/ Login(t) \/ WorldportAck(t) \/ Teleport(t) \/ LogoutRequest(t)
  \/ LogoutCancel(t) \/ PlayerLogout(t) \/ OtherPacket(t)

Update(t) ==
  \/ TestSocket(t) \/ NoMorePackets(t) \/ Packet(t) \/ Compare(t) \/ TestTimer(t)
  \/ Deleted(t) \/ PingInTime(t) \/ PingTimeout(t)
  \/ Added(t) \/ SetInstance(t) \/ SendNewWorld(t)
  \/ LogoutPlayer(t) \/ LoggedOut(t) \/ Remove(t) \/ Release(t)

\* what a thread does as long as it is scheduled
Step(t) ==
  \/ Visit(t) \/ Update(t) \/ DeleteSession(t)
  \/ t = World /\ Unlock
  \/ t \in Map /\ (PushObject(t) \/ OnPushToWorld(t))

\* A behaviour ends with delete, and where a thread that moves the player is
\* overtaken: what follows is undefined (the use of deleted objects and of NULL).
Running == ~freed /\ overtaken = "no"

Next ==
  /\ Running
  /\ \/ \E t \in Thread : Step(t) \/ AddGlobalSession(t)
     \/ \E m \in Map : EventTeleport(m) \/ EventKick(m)
     \/ QueuePacket \/ OnDisconnect \/ Kick \/ Tick

Spec == Init /\ [][Next]_vars

\* Every thread goes on, a mutex that is free again and again is obtained, each
\* round of MapMgr::Do begins with the insert pool, and time passes.
Fairness ==
  /\ \A t \in Thread : /\ WF_vars(Running /\ Step(t))
                       /\ SF_vars(Running /\ AddGlobalSession(t))
  /\ \A m \in Map : SF_vars(Running /\ PushObject(m))
  /\ WF_vars(Running /\ Tick)

FairSpec == Spec /\ Fairness

-----------------------------------------------------------------------------
Label == {"unlock", "delete", "socket", "packets", "compare", "timer", "deleted", "ping",
          "added", "setInstance", "sendNewWorld", "logout", "loggedOut", "remove", "release",
          "addGlobal", "pushed"}

\* The variables have their types; the stacks stay as deep as the calls are;
\* the world thread has SessionsMutex whenever it is in Update.
TypeOK ==
  /\ instanceId \in Thread /\ Sessions \subseteq Thread /\ handed \subseteq Thread
  /\ SessionsMutex \in {None, World}
  /\ SessionsMutex = World <=> pc[World] # <<>> /\ pc[World] # <<"delete">>
  /\ socket \in BOOLEAN /\ packets \in 0 .. MaxPackets
  /\ logoutTime \in {"unset", "set", "due"}
  /\ {loggingOut, bDeleted, freed, player, pushed, newWorld} \subseteq BOOLEAN
  /\ overtaken \in {"no", "moved", "deleted"}
  /\ mapMgr \in Map \cup {None} /\ pool \subseteq Map
  /\ \A t \in Thread : /\ Len(pc[t]) <= 3
                       /\ \A i \in 1 .. Len(pc[t]) : pc[t][i] \in Label
                       /\ local[t] \in Map \cup {None}

\* in WorldSession::Update, past its first test
InUpdate(t) == pc[t] # <<>> /\ pc[t][Len(pc[t])] \in
  {"socket", "packets", "compare", "timer", "ping", "added", "setInstance", "deleted"}

\* Only the thread that instanceId names updates the session: a second one may
\* do so only from where it has handed the session over to its next comparison
\* of the instance ids.  (The sets are local to the threads or have a mutex,
\* instanceId has none.)
Owner == \A t \in Thread : InUpdate(t) /\ ~freed => instanceId = t \/ t \in handed

\* A live session is never lost: when no thread is handing it over, the thread
\* that instanceId names has it in its set or its player in its insert pool.
NeverLost ==
  handed = {} /\ ~bDeleted => instanceId \in Sessions \cup pool

\* When a session is deleted, only a thread that is still handing it over, or
\* has not looked at its set since, can touch it or its player.
DeletedByOwner ==
  freed => \A t \in Thread : pc[t] \notin {<<>>, <<"unlock">>} \/ t \in Sessions => t \in handed

\* The insert pool of a map never holds a player that has been deleted or sent
\* on (MapMgr::RemoveObject's "very small chance that on double player ports").
PoolLive == overtaken = "no" => \A m \in pool : player /\ mapMgr = m

\* RemoveFromWorld, which works on the map's cells without a lock, is run by the
\* thread of the player's map.
RemovedByItsMap == overtaken = "no" => \A t \in Thread : At(t, "remove") => mapMgr = t

\* "Check if the player is in the process of being moved. We can't delete him if
\* we are." (WorldSession::Update): no player is deleted, and no session given up,
\* while another thread moves the player.
MovedNotDeleted == overtaken # "deleted"

\* taken out of the insert pool by RemoveFromWorld: nothing resets m_beingPushed
Stranded == player /\ pushed /\ mapMgr = None

\* A session that has lost its socket is deleted at last, whatever thread has it
\* and whatever its player is doing, unless its player is stranded or a thread
\* that moves it is overtaken.
OrphanDeleted == ~socket ~> Stranded \/ ~Running

\* Types, and, unless a thread that moves the player was overtaken, insert pools
\* that hold live players of their map and removals by the player's own map.
Consistent == TypeOK /\ PoolLive /\ RemovedByItsMap
=============================================================================
