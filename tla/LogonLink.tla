----------------------------- MODULE LogonLink -----------------------------
(***************************************************************************)
(* The link of a world server to the logon server.  The world's watcher    *)
(* (LogonCommWatcherThread) dials, authenticates and registers its realm,  *)
(* drops a link that is dead or silent and dials again; the answers are    *)
(* read by the one network worker of the world, which also reports drops   *)
(* to LogonCommHandler.  The worker of the logon server handles what       *)
(* arrives on the RealmSockets; its main thread drops silent ones.         *)
(*                                                                         *)
(* A connection is one pair of sockets; its name is used again when both   *)
(* are closed and nobody looks at it.  A realm id is the connection whose  *)
(* registration generated it: one realm is registered, once on each link.  *)
(* The network makes MaxTroubles troubles: a link is cut or reset, a dial  *)
(* fails, something is so late that a wait of 10, 60 or 300 seconds ends   *)
(* before it comes.  Beside these a wait ends when what it waits for       *)
(* cannot come.  Passwords agree; nothing is shut down.                    *)
(***************************************************************************)
EXTENDS Naturals, Sequences

CONSTANTS Conn, None,
          MaxTroubles   \* bound of what goes wrong on the network, and of the
                        \* reports of the population

ASSUME LogonLinkAssumption == None \notin Conn /\ MaxTroubles \in Nat

VARIABLES
  troubles,       \* how many the network has made
  cut,            \* connections on which nothing arrives any more
  toLogon, toWorld, \* what is under way on a connection
  worldOpen,      \* the world's sockets with m_connected
  authenticated,  \* of a LogonSocket
  id,             \* those with _id # 0
  entry,          \* logons[server]
  Registered,     \* of the LogonServer
  mapLock,        \* held by the watcher, through Connect
  watcher,        \* its place, and the connection it waits for
  worker,         \* of the world: where it is in Socket::Disconnect
  logonOpen,      \* the RealmSockets with m_connected
  serverSockets,  \* m_serverSockets: those with removed = FALSE
  server_ids,     \* of each RealmSocket
  realm, online,  \* the id of the realm in m_realms, and its flags
  logonWorker,    \* the packet it handles, and the socket
  main,           \* of the logon server: the socket it times out
  raced           \* history: a packet was handled on a socket being timed out

net == <<troubles, cut, toLogon, toWorld>>
worldSockets == <<worldOpen, authenticated, id>>
handler == <<entry, Registered, mapLock, watcher>>
registry == <<serverSockets, server_ids, realm, online>>
logonVars == <<logonOpen, registry, logonWorker, main, raced>>
worldVars == <<worldSockets, handler, worker>>
vars == <<net, worldVars, logonVars>>

Init ==
  /\ troubles = 0 /\ cut = {}
  /\ toLogon = [c \in Conn |-> <<>>] /\ toWorld = [c \in Conn |-> <<>>]
  /\ worldOpen = {} /\ authenticated = {} /\ id = {}
  /\ entry = None /\ Registered = FALSE /\ mapLock = FALSE
  /\ watcher = [at |-> "connectAll", c |-> None]
  /\ worker = [at |-> "wait", c |-> None]
  /\ logonOpen = {} /\ serverSockets = {}
  /\ server_ids = [c \in Conn |-> {}]
  /\ realm = None /\ online = FALSE
  /\ logonWorker = [at |-> "wait", c |-> None]
  /\ main = [at |-> "wait", c |-> None]
  /\ raced = FALSE

-----------------------------------------------------------------------------
(* The network. *)

\* LogonSocket::SendPacket, which drops the packet of a closed socket; nobody
\* reads what is sent to one that is closed at the other end
WorldSends(c, m) ==
  toLogon' = IF c \in worldOpen \ cut /\ (c \in logonOpen \/ toLogon[c] # <<>>)
             THEN [toLogon EXCEPT ![c] = Append(@, m)] ELSE toLogon

\* RealmSocket::SendPacket
LogonSends(c, m) ==
  toWorld' = IF c \in logonOpen \ cut /\ c \in worldOpen
             THEN [toWorld EXCEPT ![c] = Append(@, m)] ELSE toWorld

\* Socket::Disconnect up to OnDisconnect: what had been received is gone, and
\* the other side will read the end of the stream
CloseWorld(c) ==
  /\ worldOpen' = worldOpen \ {c}
  /\ toWorld' = [toWorld EXCEPT ![c] = <<>>]
  /\ WorldSends(c, "fin")

CloseLogon(c) ==
  /\ logonOpen' = logonOpen \ {c}
  /\ toLogon' = [toLogon EXCEPT ![c] = <<>>]
  /\ LogonSends(c, "fin")

Trouble == troubles < MaxTroubles /\ troubles' = troubles + 1

Cut(c) ==
  /\ c \in (worldOpen \cup logonOpen) \ cut /\ Trouble
  /\ cut' = cut \cup {c}
  /\ toLogon' = [toLogon EXCEPT ![c] = <<>>] /\ toWorld' = [toWorld EXCEPT ![c] = <<>>]
  /\ UNCHANGED <<worldVars, logonVars>>

\* both its sockets are closed, and no thread has it in its hands
Fresh(c) ==
  /\ c \notin worldOpen \cup logonOpen /\ c # entry
  /\ toLogon[c] = <<>> /\ toWorld[c] = <<>>
  /\ c \notin {watcher.c, worker.c, logonWorker.c, main.c}

-----------------------------------------------------------------------------
(* The watcher of the world server. *)

\* Connect: dialled without mapLock by ConnectAll, with it by UpdateSockets
MayConnect == watcher.at = "connectAll" \/ (watcher.at = "update" /\ ~mapLock /\ entry = None)

Connect(c) ==
  /\ MayConnect /\ Fresh(c)
  /\ mapLock' = (watcher.at = "update")
  /\ entry' = c /\ Registered' = FALSE
  /\ worldOpen' = worldOpen \cup {c}
  /\ authenticated' = authenticated \ {c} /\ id' = id \ {c}
  /\ cut' = cut \ {c}
  /\ toLogon' = [toLogon EXCEPT ![c] = <<"syn", "auth">>]
  /\ watcher' = [at |-> "authenticate", c |-> c]
  /\ server_ids' = [server_ids EXCEPT ![c] = {}]
  /\ UNCHANGED <<troubles, toWorld, worker, logonOpen, serverSockets, realm, online,
                 logonWorker, main, raced>>

\* the connection could not be made; UpdateSockets would only do it again
ConnectFails ==
  /\ watcher.at = "connectAll" /\ Trouble
  /\ watcher' = [watcher EXCEPT !.at = "update"]
  /\ UNCHANGED <<cut, toLogon, toWorld, worldSockets, entry, Registered, mapLock, worker, logonVars>>

\* A plausible mistake: an early return leaves mapLock held.
KeepsLock == /\ watcher' = [at |-> "update", c |-> None]
             /\ UNCHANGED mapLock

Back == /\ watcher' = [at |-> "update", c |-> None]
        /\ mapLock' = FALSE

\* the ping, _id and the registration of the realm
RequestAddition == LET c == watcher.c IN
  /\ watcher.at = "authenticate" /\ c \in authenticated
  /\ id' = id \cup {c}
  /\ authenticated' = authenticated \ {c}   \* nobody reads it again
  /\ WorldSends(c, "register")
  /\ watcher' = [watcher EXCEPT !.at = "register"]
  /\ UNCHANGED <<troubles, cut, toWorld, worldOpen, entry, Registered, mapLock, worker, logonVars>>

\* the answer to c cannot come in ten seconds
NoAnswer(c) == c \in cut \/ c \notin worldOpen \/ worker.at = "dropped"

\* A plausible mistake: the wait for the answer has no limit.
WaitsOn(c) == ~NoAnswer(c) /\ Trouble
TenSeconds(c) == \/ NoAnswer(c) /\ UNCHANGED troubles
                 \/ ~NoAnswer(c) /\ Trouble

AuthTimeOut == LET c == watcher.c IN
  /\ watcher.at = "authenticate" /\ c \notin authenticated /\ TenSeconds(c)
  /\ IF c \in worldOpen THEN CloseWorld(c) ELSE UNCHANGED <<worldOpen, toLogon, toWorld>>
  /\ entry' = None
  /\ Back
  /\ UNCHANGED <<cut, authenticated, id, Registered, worker, logonVars>>

Linked ==
  /\ watcher.at = "register" /\ Registered
  /\ Back
  /\ UNCHANGED <<net, worldSockets, entry, Registered, worker, logonVars>>

RegisterTimeOut ==
  /\ watcher.at = "register" /\ ~Registered /\ TenSeconds(watcher.c)
  /\ entry' = None
  /\ watcher' = [watcher EXCEPT !.at = "giveUp"]
  /\ UNCHANGED <<cut, toLogon, toWorld, worldSockets, Registered, mapLock, worker, logonVars>>

\* conn->Disconnect(); its ConnectionDropped finds the entry empty
GiveUp == LET c == watcher.c IN
  /\ watcher.at = "giveUp"
  /\ IF c \in worldOpen THEN CloseWorld(c) ELSE UNCHANGED <<worldOpen, toLogon, toWorld>>
  /\ Back
  /\ UNCHANGED <<troubles, cut, authenticated, id, entry, Registered, worker, logonVars>>

\* UpdateSockets, of a socket that is no longer connected
FoundDead ==
  /\ watcher.at = "update" /\ ~mapLock /\ entry # None /\ entry \notin worldOpen
  /\ id' = id \ {entry} /\ entry' = None
  /\ UNCHANGED <<net, worldOpen, authenticated, Registered, mapLock, watcher, worker, logonVars>>

\* no pong for 60 seconds: with a ping every 15, the link is cut or very late
PongTimeOut ==
  /\ watcher.at = "update" /\ ~mapLock /\ entry \in worldOpen
  /\ IF entry \in cut THEN UNCHANGED troubles ELSE Trouble
  /\ id' = id \ {entry}
  /\ CloseWorld(entry)
  /\ entry' = None
  /\ UNCHANGED <<cut, authenticated, Registered, mapLock, watcher, worker, logonVars>>

-----------------------------------------------------------------------------
(* The network worker of the world server. *)

\* HandleAuthResponse
HandleAuthResponse(c) ==
  /\ Head(toWorld[c]) = "authOk"
  /\ authenticated' = authenticated \cup {c}
  /\ toWorld' = [toWorld EXCEPT ![c] = Tail(@)]
  /\ UNCHANGED <<troubles, cut, toLogon, worldOpen, id, handler, worker>>

\* HandleRegister: AdditionAck goes by the _id, which all the links of a server share
HandleRegistered(c) ==
  /\ Head(toWorld[c]) = "registered"
  /\ Registered' = (Registered \/ c \in id)
  /\ toWorld' = [toWorld EXCEPT ![c] = Tail(@)]
  /\ UNCHANGED <<troubles, cut, toLogon, worldSockets, entry, mapLock, watcher, worker>>

\* Disconnect: the end of the stream has been read, or a reset reported
Disconnect(c) ==
  /\ IF toWorld[c] = <<"fin">> THEN UNCHANGED troubles ELSE Trouble
  /\ CloseWorld(c)
  /\ worker' = [at |-> "onDisconnect", c |-> c]
  /\ UNCHANGED <<cut, authenticated, id, handler>>

WorkerReads(c) ==
  /\ worker.at = "wait" /\ c \in worldOpen
  /\ \/ toWorld[c] # <<>> /\ (HandleAuthResponse(c) \/ HandleRegistered(c))
     \/ Disconnect(c)
  /\ UNCHANGED logonVars

\* OnDisconnect
OnDisconnect ==
  /\ worker.at = "onDisconnect"
  /\ worker' = IF worker.c \in id THEN [worker EXCEPT !.at = "dropped"]
                                  ELSE [at |-> "wait", c |-> None]
  /\ UNCHANGED <<net, worldSockets, handler, logonVars>>

\* A plausible mistake: the entries are changed without mapLock.
NoLock == TRUE
MapLockFree == ~mapLock

\* ConnectionDropped: whichever link the server of that _id has now
ConnectionDropped ==
  /\ worker.at = "dropped" /\ MapLockFree
  /\ entry' = None
  /\ id' = id \ {worker.c}   \* the socket is deleted
  /\ worker' = [at |-> "wait", c |-> None]
  /\ UNCHANGED <<net, worldOpen, authenticated, Registered, mapLock, watcher, logonVars>>

\* HandlePopulationRequest, which a client's realm list brings about
SendPopulation(c) ==
  /\ worker.at = "wait" /\ c \in (worldOpen \cap id) \ cut /\ c \in server_ids[c]
  /\ Trouble
  /\ WorldSends(c, "pop")
  /\ UNCHANGED <<cut, toWorld, worldVars, logonVars>>

-----------------------------------------------------------------------------
(* The network worker of the logon server. *)

LogonIdle == [at |-> "wait", c |-> None]

\* OnConnect of an accepted RealmSocket
Accept(c) ==
  /\ logonWorker.at = "wait" /\ toLogon[c] # <<>> /\ Head(toLogon[c]) = "syn"
  /\ toLogon' = [toLogon EXCEPT ![c] = Tail(@)]
  /\ logonOpen' = logonOpen \cup {c}
  /\ serverSockets' = serverSockets \cup {c}
  /\ UNCHANGED <<troubles, cut, toWorld, worldVars, server_ids, realm, online, logonWorker,
                 main, raced>>

\* OnRead has taken a packet
LogonReads(c) ==
  /\ logonWorker.at = "wait" /\ c \in logonOpen
  /\ toLogon[c] # <<>> /\ Head(toLogon[c]) \in {"auth", "register", "pop"}
  /\ logonWorker' = [at |-> Head(toLogon[c]), c |-> c]
  /\ toLogon' = [toLogon EXCEPT ![c] = Tail(@)]
  /\ UNCHANGED <<troubles, cut, toWorld, worldVars, logonOpen, registry, main, raced>>

\* the main thread is timing the socket out, or has done so
TimedOut(c) == main.c = c \/ c \notin serverSockets

HandleAuthChallenge == LET c == logonWorker.c IN
  /\ logonWorker.at = "auth"
  /\ LogonSends(c, "authOk")
  /\ logonWorker' = LogonIdle
  /\ UNCHANGED <<troubles, cut, toLogon, worldVars, logonOpen, registry, main, raced>>

\* A plausible mistake: the realm keeps its id when it registers again.
KeepsId(c) == IF realm = None THEN c ELSE realm
NewId(c) == c

\* RemoveRealm of the id the name had, GenerateRealmID and AddRealm, which
\* shows the realm online
HandleRegister == LET c == logonWorker.c IN
  /\ logonWorker.at = "register"
  /\ realm' = NewId(c) /\ online' = TRUE
  /\ raced' = TimedOut(c)
  /\ logonWorker' = [logonWorker EXCEPT !.at = "reply"]
  /\ UNCHANGED <<net, worldVars, logonOpen, serverSockets, server_ids, main>>

\* the rest of HandleRegister: the answer, and the id among the socket's
Reply == LET c == logonWorker.c IN
  /\ logonWorker.at = "reply"
  /\ LogonSends(c, "registered")
  /\ server_ids' = [server_ids EXCEPT ![c] = {realm}]
  /\ raced' = (raced \/ TimedOut(c))
  /\ logonWorker' = LogonIdle
  /\ UNCHANGED <<troubles, cut, toLogon, worldVars, logonOpen, serverSockets, realm, online, main>>

\* HandlePopulationRespond: UpdateRealmPop gives the realm the flags of an online one
HandlePopulationRespond == LET c == logonWorker.c IN
  /\ logonWorker.at = "pop"
  /\ online' = (online \/ realm = c)
  /\ raced' = (raced \/ TimedOut(c))
  /\ logonWorker' = LogonIdle
  /\ UNCHANGED <<net, worldVars, logonOpen, serverSockets, server_ids, realm, main>>

\* Disconnect: the end of the stream has been read, or a reset reported
LogonDisconnect(c) ==
  /\ logonWorker.at = "wait" /\ c \in logonOpen
  /\ IF toLogon[c] = <<"fin">> THEN UNCHANGED troubles ELSE Trouble
  /\ CloseLogon(c)
  /\ logonWorker' = [at |-> "onDisconnect", c |-> c]
  /\ UNCHANGED <<cut, worldVars, registry, main, raced>>

SetRealmOffline(ids) == online' = (online /\ realm \notin ids)

\* A plausible mistake: the realms are left as they are.
LeavesOnline(c) == UNCHANGED online
ItsRealmsOffline(c) == SetRealmOffline(server_ids[c])

\* OnDisconnect, unless TimeoutSockets has set removed
LogonOnDisconnect == LET c == logonWorker.c IN
  /\ logonWorker.at = "onDisconnect"
  /\ IF c \in serverSockets
     THEN ItsRealmsOffline(c) /\ logonWorker' = [logonWorker EXCEPT !.at = "remove"]
     ELSE UNCHANGED online /\ logonWorker' = LogonIdle
  /\ UNCHANGED <<net, worldVars, logonOpen, serverSockets, server_ids, realm, main, raced>>

\* RemoveServerSocket: serverSocketLock, which TimeoutSockets holds
RemoveServerSocket ==
  /\ logonWorker.at = "remove" /\ main.at = "wait"
  /\ serverSockets' = serverSockets \ {logonWorker.c}
  /\ logonWorker' = LogonIdle
  /\ UNCHANGED <<net, worldVars, logonOpen, server_ids, realm, online, main, raced>>

LogonWorkerStep == HandleAuthChallenge \/ HandleRegister \/ Reply \/ HandlePopulationRespond
                   \/ LogonOnDisconnect \/ RemoveServerSocket

-----------------------------------------------------------------------------
(* The main thread of the logon server: TimeoutSockets. *)

\* no ping of c comes: the world has given it up, or it is cut
Silent(c) == c \in cut \/ c \notin worldOpen \/ entry # c

TimeoutSockets(c) ==
  /\ main.at = "wait" /\ c \in serverSockets
  /\ IF Silent(c) THEN UNCHANGED troubles ELSE Trouble
  /\ SetRealmOffline(server_ids[c])
  /\ main' = [at |-> "remove", c |-> c]
  /\ raced' = (raced \/ logonWorker = [at |-> "reply", c |-> c])
  /\ UNCHANGED <<cut, toLogon, toWorld, worldVars, logonOpen, serverSockets, server_ids, realm,
                 logonWorker>>

MainRemoves ==
  /\ main.at = "remove"
  /\ serverSockets' = serverSockets \ {main.c}
  /\ main' = [main EXCEPT !.at = "disconnect"]
  /\ UNCHANGED <<net, worldVars, logonOpen, server_ids, realm, online, logonWorker, raced>>

\* s->Disconnect(), whose OnDisconnect finds removed set
MainDisconnects ==
  /\ main.at = "disconnect"
  /\ IF main.c \in logonOpen THEN CloseLogon(main.c) ELSE UNCHANGED <<logonOpen, toLogon, toWorld>>
  /\ main' = [at |-> "wait", c |-> None]
  /\ UNCHANGED <<troubles, cut, worldVars, registry, logonWorker, raced>>

-----------------------------------------------------------------------------
WatcherStep == (\E c \in Conn : Connect(c)) \/ RequestAddition \/ AuthTimeOut \/ Linked
               \/ RegisterTimeOut \/ GiveUp \/ FoundDead

MainStep == MainRemoves \/ MainDisconnects

Next ==
  \/ ConnectFails \/ WatcherStep \/ PongTimeOut
  \/ OnDisconnect \/ ConnectionDropped
  \/ LogonWorkerStep \/ MainStep
  \/ \E c \in Conn : Cut(c) \/ WorkerReads(c) \/ SendPopulation(c)
                     \/ Accept(c) \/ LogonReads(c) \/ LogonDisconnect(c) \/ TimeoutSockets(c)

Spec == Init /\ [][Next]_vars

\* Each thread goes on; the worker of the world gets mapLock between two passes of
\* the watcher; what is sent arrives, each socket gets its turn, and silence is noticed.
Fairness ==
  /\ WF_vars(WatcherStep) /\ WF_vars(entry \in cut /\ PongTimeOut)
  /\ WF_vars(OnDisconnect) /\ SF_vars(ConnectionDropped)
  /\ WF_vars(LogonWorkerStep) /\ WF_vars(MainStep)
  /\ \A c \in Conn :
       /\ WF_vars(toWorld[c] # <<>> /\ WorkerReads(c))
       /\ WF_vars(toLogon[c] # <<>> /\ (Accept(c) \/ LogonReads(c) \/ LogonDisconnect(c)))
       /\ WF_vars(Silent(c) /\ TimeoutSockets(c))

FairSpec == Spec /\ Fairness

-----------------------------------------------------------------------------
Place(labels) == [at : labels, c : Conn \cup {None}]

\* The variables have their types; _id is given when authenticated has
\* been read; mapLock is held only in Connect.
TypeOK ==
  /\ {Registered, mapLock, online, raced} \subseteq BOOLEAN
  /\ troubles \in 0 .. MaxTroubles /\ cut \subseteq Conn
  /\ worldOpen \subseteq Conn /\ logonOpen \subseteq Conn
  /\ id \subseteq Conn /\ authenticated \subseteq Conn \ id
  /\ toLogon \in [Conn -> Seq({"syn", "auth", "register", "pop", "fin"})]
  /\ toWorld \in [Conn -> Seq({"authOk", "registered", "fin"})]
  /\ {entry, realm} \subseteq Conn \cup {None}
  /\ watcher \in Place({"connectAll", "update", "authenticate", "register", "giveUp"})
  /\ worker \in Place({"wait", "onDisconnect", "dropped"})
  /\ serverSockets \subseteq Conn /\ server_ids \in [Conn -> SUBSET Conn]
  /\ logonWorker \in Place({"wait", "auth", "register", "reply", "pop", "onDisconnect", "remove"})
  /\ mapLock => watcher.at \in {"authenticate", "register", "giveUp"}
  /\ main \in Place({"wait", "remove", "disconnect"})

\* The drop of one link never takes another one, which is sound, out of logons:
\* every registered socket of the world that is open is the entry, or the watcher
\* is giving it up.  (A link that is out of logons would get no pings, and when it
\* is closed at last its OnDisconnect would take the next one out.)
NoOrphan == \A c \in worldOpen \cap id : entry = c \/ watcher = [at |-> "giveUp", c |-> c]

\* A realm that is shown online is held by a socket the registry knows, which will
\* set it offline when it goes, unless a packet was handled on a socket that the
\* main thread was timing out.
OnlineHeld ==
  online /\ ~raced => \/ \E c \in serverSockets : realm \in server_ids[c]
                      \/ logonWorker.at = "reply"

\* the world's link is made, sound, and at rest at both ends
AtRest ==
  /\ watcher.at = "update" /\ entry \in (worldOpen \cap logonOpen \cap id) \ cut
  /\ toLogon[entry] = <<>> /\ toWorld[entry] = <<>>
  /\ logonWorker.at = "wait" /\ main.at = "wait"

\* "socket timout will DC old id after a while, make sure it's not the one we
\* restarted" (RealmSocket::HandleRegister): while the world has its link, no other
\* socket's end takes its realm offline, unless a registration that another link had
\* sent before was handled after the link's own.
RestartedOnlineInOrder == AtRest /\ realm \in server_ids[entry] => online

\* When the troubles are over there is one link and it stays: the world has dialled
\* and registered again, both sides have closed every link that was given up, cut or
\* reset, no thread waits for ever, and the realm is online on that link, unless an
\* earlier registration overtook the link's.
LinkMade == <>[] /\ worldOpen = {entry} /\ logonOpen = {entry} /\ entry \in id
                 /\ server_ids[entry] # {}
                 /\ realm \in server_ids[entry] => online

\* Types, and no open link with the id of the server that the world has dropped
\* from logons, except one that the watcher is giving up.
Consistent == TypeOK /\ NoOrphan
=============================================================================
