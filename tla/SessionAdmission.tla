-------------------------- MODULE SessionAdmission --------------------------
(***************************************************************************)
(* How a client becomes a session of the world server, and ceases to be    *)
(* one: the request to the logon server, the session made when its answer  *)
(* comes, the queue of a full server, and the end of the session.  The     *)
(* SocketWorkerThread reads packets and answers; the world thread lets     *)
(* queued sockets in, updates the sessions and deletes them.  They share   *)
(* World's maps, the sockets' and the sessions' pointers to each other,    *)
(* and four kinds of locks.  A client sends CMSG_AUTH_SESSION once.        *)
(* Sessions whose player is on a map are updated by map threads and are    *)
(* not modelled here.                                                      *)
(***************************************************************************)
EXTENDS Naturals, FiniteSets, SequencesExt

CONSTANTS Sock,        \* bound: the WorldSockets that are accepted; each makes
                       \* at most one WorldSession, which has its name
          Account,     \* accounts
          GM,          \* the accounts with GM permissions
          Worker,      \* the SocketWorkerThread
          World,       \* the world thread
          None,
          PlayerLimits \* bound: what the configuration may set as the player limit

ASSUME AdmissionAssumption == /\ IsFiniteSet(Account)
                              /\ GM \subseteq Account /\ PlayerLimits \subseteq Nat
                              /\ Worker # World
                              /\ None \notin Sock \cup Account \cup {Worker, World}

VARIABLES connected,     \* m_connected of each socket
          asked,         \* CMSG_AUTH_SESSION has come
          mRequestID,    \* it is not 0
          pending,       \* pending_logons
          mSession,      \* it is not NULL
          mQueued,
          session,       \* the WorldSession object: "none", "live", "deleted"
          account,       \* its account
          socket,        \* its _socket is not NULL
          logout,        \* its _logoutTime: "no", "set", "due"
          m_sessions,    \* World: the session of each account
          Sessions,      \* World: the sessions the world thread updates
          queue,         \* World: mQueuedSessions
          pendingLock, queueMutex, SessionsMutex,   \* who holds them
          deleteMutex,   \* of each session
          at,            \* where each thread is, in which socket, what comes then
          todo,          \* the sessions this loop has still to update
          doomed,        \* ErasableSessions
          m_playerLimit, \* of World
          fault          \* undefined behaviour: "none", "null" or "freed" pointer

socks == <<connected, asked, mRequestID, pending, mSession, mQueued>>
sessions == <<session, account, socket, logout>>
world == <<m_sessions, Sessions, queue>>
locks == <<pendingLock, queueMutex, SessionsMutex, deleteMutex>>
loop == <<todo, doomed>>
server == <<m_playerLimit, fault>>
vars == <<socks, sessions, world, locks, loop, at, server>>

Process == {Worker, World}
Idle == [pc |-> "idle", sock |-> None, then |-> "idle"]

Init ==
    /\ connected = [s \in Sock |-> TRUE]
    /\ asked = [s \in Sock |-> FALSE]
    /\ mRequestID = [s \in Sock |-> FALSE]
    /\ pending = {}
    /\ mSession = [s \in Sock |-> FALSE]
    /\ mQueued = [s \in Sock |-> FALSE]
    /\ session = [s \in Sock |-> "none"]
    /\ account = [s \in Sock |-> None]
    /\ socket = [s \in Sock |-> FALSE]
    /\ logout = [s \in Sock |-> "no"]
    /\ m_sessions = [a \in Account |-> None]
    /\ Sessions = {}
    /\ queue = <<>>
    /\ pendingLock = None /\ queueMutex = None /\ SessionsMutex = None
    /\ deleteMutex = [s \in Sock |-> None]
    /\ at = [p \in Process |-> Idle]
    /\ todo = {} /\ doomed = {}
    /\ m_playerLimit \in PlayerLimits
    /\ fault = "none"

Goto(p, label) == at' = [at EXCEPT ![p].pc = label]
Enter(p, label, s, then) == at' = [at EXCEPT ![p] = [pc |-> label, sock |-> s, then |-> then]]
Finish(p) == at' = [at EXCEPT ![p] = Idle]

\* Back to the caller of Disconnect or Authenticate.
Return(p) == IF at[p].then = "idle" THEN Finish(p) ELSE Goto(p, at[p].then)

\* The mutexes are recursive.
Obtainable(lock, p) == lock \in {None, p}

\* What the program does with a bad pointer is undefined: the model stops.
Faulty(kind) ==
    /\ fault' = kind
    /\ at' = [p \in Process |-> [Idle EXCEPT !.pc = "undefined"]]
    /\ UNCHANGED <<socks, sessions, world, locks, loop, m_playerLimit>>

SessionCount == Cardinality({a \in Account : m_sessions[a] # None})

-----------------------------------------------------------------------------
\* Socket::Disconnect and WorldSocket::OnDisconnect

Disconnect(p) ==
    LET s == at[p].sock
    IN  /\ at[p].pc = "disconnect"
        /\ connected' = [connected EXCEPT ![s] = FALSE]
        /\ IF connected[s] THEN Goto(p, "leave") ELSE Return(p)
        /\ UNCHANGED <<asked, mRequestID, pending, mSession, mQueued, sessions, world,
                       locks, loop, server>>

\* A plausible mistake: the session keeps its pointer to the socket.
LeaveLinked(p) ==
    LET s == at[p].sock
    IN  /\ at[p].pc = "leave"
        /\ mSession' = [mSession EXCEPT ![s] = FALSE]
        /\ Goto(p, "unrequest")
        /\ UNCHANGED <<connected, asked, mRequestID, pending, mQueued, sessions, world,
                       locks, loop, server>>

LeaveSession(p) ==
    LET s == at[p].sock
    IN  /\ at[p].pc = "leave"
        /\ IF mSession[s] /\ session[s] = "deleted" THEN Faulty("freed")
           ELSE /\ socket' = [socket EXCEPT ![s] = @ /\ ~mSession[s]]
                /\ mSession' = [mSession EXCEPT ![s] = FALSE]
                /\ Goto(p, "unrequest")
                /\ UNCHANGED <<connected, asked, mRequestID, pending, mQueued, session,
                               account, logout, world, locks, loop, server>>

UnauthedSocketClose(p) ==
    LET s == at[p].sock
    IN  /\ at[p].pc = "unrequest"
        /\ mRequestID[s] => Obtainable(pendingLock, p)
        /\ pending' = IF mRequestID[s] THEN pending \ {s} ELSE pending
        /\ mRequestID' = [mRequestID EXCEPT ![s] = FALSE]
        /\ Goto(p, "unqueue")
        /\ UNCHANGED <<connected, asked, mSession, mQueued, sessions, world, locks, loop, server>>

\* A plausible mistake: a socket that is gone stays in the queue.
StayQueued(p) ==
    /\ at[p].pc = "unqueue"
    /\ Return(p)
    /\ UNCHANGED <<socks, sessions, world, locks, loop, server>>

RemoveQueuedSocket(p) ==
    LET s == at[p].sock
    IN  /\ at[p].pc = "unqueue"
        /\ mQueued[s] => Obtainable(queueMutex, p)
        /\ \/ ~(mQueued[s] /\ s \in ToSet(queue)) /\ UNCHANGED queue
           \/ mQueued[s] /\ \E i \in DOMAIN queue :
                /\ queue[i] = s /\ \A j \in 1 .. i - 1 : queue[j] # s
                /\ queue' = RemoveAt(queue, i)
        /\ mQueued' = [mQueued EXCEPT ![s] = FALSE]
        /\ Return(p)
        /\ UNCHANGED <<connected, asked, mRequestID, pending, mSession, sessions,
                       m_sessions, Sessions, locks, loop, server>>

-----------------------------------------------------------------------------
\* WorldSocket::Authenticate; mSession is read anew each time

Authenticate(p) ==
    LET s == at[p].sock
    IN  /\ at[p].pc = "authenticate"
        /\ mQueued' = [mQueued EXCEPT ![s] = FALSE]
        /\ IF mSession[s] THEN Goto(p, "addsession") ELSE Return(p)
        /\ UNCHANGED <<connected, asked, mRequestID, pending, mSession, sessions, world,
                       locks, loop, server>>

AddSession(p) ==
    LET s == at[p].sock
    IN  /\ at[p].pc = "addsession"
        /\ IF ~mSession[s] THEN Faulty("null")
           ELSE /\ m_sessions' = [m_sessions EXCEPT ![account[s]] = s]
                /\ Goto(p, "addglobal")
                /\ UNCHANGED <<socks, sessions, Sessions, queue, locks, loop, server>>

AddGlobalSession(p) ==
    LET s == at[p].sock
    IN  /\ at[p].pc = "addglobal"
        /\ IF ~mSession[s] THEN Faulty("null")
           ELSE /\ Obtainable(SessionsMutex, p)
                /\ Sessions' = Sessions \cup {s}
                /\ Return(p)
                /\ UNCHANGED <<socks, sessions, m_sessions, queue, locks, loop, server>>

-----------------------------------------------------------------------------
\* The worker: packets of clients and of the logon server

\* _HandleAuthSession: the account is asked for, if a logon server is there.
HandleAuthSession(s) ==
    /\ at[Worker] = Idle
    /\ connected[s] /\ ~asked[s]
    /\ asked' = [asked EXCEPT ![s] = TRUE]
    /\ mRequestID' = [mRequestID EXCEPT ![s] = TRUE]
    /\ \/ /\ Obtainable(pendingLock, Worker)
          /\ pending' = pending \cup {s}
          /\ UNCHANGED at
       \/ /\ Enter(Worker, "disconnect", s, "idle")
          /\ UNCHANGED pending
    /\ UNCHANGED <<connected, mSession, mQueued, sessions, world, locks, loop, server>>

\* A plausible mistake: an account is never found in use.
FindSessionNone(a) == None

FindSession(a) == m_sessions[a]

\* An error; or the account a, which is in use, has a wrong digest, or is let in.
InformationRetreiveCallback(s, a) ==
    \/ UNCHANGED <<mRequestID, account, pendingLock, at>>
    \/ /\ mRequestID' = [mRequestID EXCEPT ![s] = FALSE]
       /\ \/ /\ FindSession(a) # None
             /\ Enter(Worker, "kick", FindSession(a), "idle")
             /\ pendingLock' = Worker
             /\ UNCHANGED account
          \/ FindSession(a) = None /\ UNCHANGED <<account, pendingLock, at>>
          \/ /\ FindSession(a) = None
             /\ account' = [account EXCEPT ![s] = a]
             /\ Enter(Worker, "create", s, "unlock")
             /\ pendingLock' = Worker

\* The answer of the logon server; pendingLock is held until all of it is done.
HandleSessionInfo(s, a) ==
    /\ at[Worker] = Idle
    /\ s \in pending /\ connected[s]
    /\ Obtainable(pendingLock, Worker)
    /\ pending' = pending \ {s}
    /\ InformationRetreiveCallback(s, a)
    /\ UNCHANGED <<connected, asked, mSession, mQueued, session, socket, logout, world,
                   queueMutex, SessionsMutex, deleteMutex, loop, server>>

\* The account is in use: "disconnect current player" ...
Kick ==
    LET x == at[Worker].sock
    IN  /\ at[Worker].pc = "kick"
        /\ IF session[x] = "deleted" THEN Faulty("freed")
           ELSE /\ IF socket[x] /\ connected[x] THEN Enter(Worker, "disconnect", x, "timer")
                   ELSE Goto(Worker, "timer")
                /\ UNCHANGED <<socks, sessions, world, locks, loop, server>>

\* ... "so he times out straight away"; the newcomer is turned down.
SetLogoutTimer ==
    LET x == at[Worker].sock
    IN  /\ at[Worker].pc = "timer"
        /\ IF session[x] = "deleted" THEN Faulty("freed")
           ELSE /\ logout' = [logout EXCEPT ![x] = "due"]
                /\ pendingLock' = None
                /\ Finish(Worker)
                /\ UNCHANGED <<socks, session, account, socket, world, queueMutex,
                               SessionsMutex, deleteMutex, loop, server>>

\* The session is made, with its deleteMutex held.
CreateSession ==
    LET s == at[Worker].sock
    IN  /\ at[Worker].pc = "create"
        /\ session' = [session EXCEPT ![s] = "live"]
        /\ socket' = [socket EXCEPT ![s] = TRUE]
        /\ mSession' = [mSession EXCEPT ![s] = TRUE]
        /\ deleteMutex' = [deleteMutex EXCEPT ![s] = Worker]
        /\ Goto(Worker, "count")
        /\ UNCHANGED <<connected, asked, mRequestID, pending, mQueued, account, logout,
                       world, pendingLock, queueMutex, SessionsMutex, loop, server>>

\* "Check for queue."
CheckQueue ==
    LET s == at[Worker].sock
    IN  /\ at[Worker].pc = "count"
        /\ Goto(Worker, IF SessionCount < m_playerLimit \/ account[s] \in GM THEN "authenticate"
                        ELSE IF m_playerLimit > 0 THEN "enqueue" ELSE "disconnect")
        /\ UNCHANGED <<socks, sessions, world, locks, loop, server>>

AddQueuedSocket ==
    /\ at[Worker].pc = "enqueue"
    /\ Obtainable(queueMutex, Worker)
    /\ queue' = Append(queue, at[Worker].sock)
    /\ Goto(Worker, "flag")
    /\ UNCHANGED <<socks, sessions, m_sessions, Sessions, locks, loop, server>>

\* A plausible mistake: queued once more when it is flagged.
SetQueuedAgain ==
    /\ at[Worker].pc = "flag"
    /\ queue' = Append(queue, at[Worker].sock)
    /\ mQueued' = [mQueued EXCEPT ![at[Worker].sock] = TRUE]
    /\ Goto(Worker, "unlock")
    /\ UNCHANGED <<connected, asked, mRequestID, pending, mSession, sessions, m_sessions,
                   Sessions, locks, loop, server>>

SetQueued ==
    /\ at[Worker].pc = "flag"
    /\ mQueued' = [mQueued EXCEPT ![at[Worker].sock] = TRUE]
    /\ Goto(Worker, "unlock")
    /\ UNCHANGED <<connected, asked, mRequestID, pending, mSession, sessions, world,
                   locks, loop, server>>

ReleaseLocks ==
    /\ at[Worker].pc = "unlock"
    /\ deleteMutex' = [deleteMutex EXCEPT ![at[Worker].sock] = None]
    /\ pendingLock' = None
    /\ Finish(Worker)
    /\ UNCHANGED <<socks, sessions, world, queueMutex, SessionsMutex, loop, server>>

\* The connection drops, and the worker notices.
Drop(s) ==
    /\ at[Worker] = Idle
    /\ connected[s]
    /\ Enter(Worker, "disconnect", s, "idle")
    /\ UNCHANGED <<socks, sessions, world, locks, loop, server>>

-----------------------------------------------------------------------------
\* World::UpdateQueuedSessions, in the world thread

StartQueue ==
    /\ at[World] = Idle
    /\ queue # <<>>
    /\ Obtainable(queueMutex, World)
    /\ queueMutex' = World
    /\ Goto(World, "admit")
    /\ UNCHANGED <<socks, sessions, world, pendingLock, SessionsMutex, deleteMutex, loop, server>>

\* A plausible mistake: queueMutex is kept when the server is full.
AdmitLocked ==
    /\ at[World].pc = "admit"
    /\ IF SessionCount < m_playerLimit /\ queue # <<>>
       THEN /\ queue' = Tail(queue)
            /\ Enter(World, IF mSession[Head(queue)] THEN "guard" ELSE "admit",
                     Head(queue), "release")
            /\ UNCHANGED queueMutex
       ELSE /\ queueMutex' = IF queue = <<>> THEN None ELSE queueMutex
            /\ Finish(World)
            /\ UNCHANGED queue
    /\ UNCHANGED <<socks, sessions, m_sessions, Sessions, pendingLock, SessionsMutex,
                   deleteMutex, loop, server>>

\* The first of the queue, while there is room for it.
Admit ==
    /\ at[World].pc = "admit"
    /\ IF SessionCount < m_playerLimit /\ queue # <<>>
       THEN /\ queue' = Tail(queue)
            /\ Enter(World, IF mSession[Head(queue)] THEN "guard" ELSE "admit",
                     Head(queue), "release")
            /\ UNCHANGED queueMutex
       ELSE /\ queueMutex' = None
            /\ Finish(World)
            /\ UNCHANGED queue
    /\ UNCHANGED <<socks, sessions, m_sessions, Sessions, pendingLock, SessionsMutex,
                   deleteMutex, loop, server>>

Guard ==
    LET s == at[World].sock
    IN  /\ at[World].pc = "guard"
        /\ IF ~mSession[s] THEN Faulty("null")
           ELSE /\ Obtainable(deleteMutex[s], World)
                /\ deleteMutex' = [deleteMutex EXCEPT ![s] = World]
                /\ Goto(World, "authenticate")
                /\ UNCHANGED <<socks, sessions, world, pendingLock, queueMutex,
                               SessionsMutex, loop, server>>

Release ==
    LET s == at[World].sock
    IN  /\ at[World].pc = "release"
        /\ IF ~mSession[s] THEN Faulty("null")
           ELSE /\ deleteMutex' = [deleteMutex EXCEPT ![s] = None]
                /\ Goto(World, "admit")
                /\ UNCHANGED <<socks, sessions, world, pendingLock, queueMutex,
                               SessionsMutex, loop, server>>

-----------------------------------------------------------------------------
\* World::UpdateSessions, in the world thread

StartSessions ==
    /\ at[World] = Idle
    /\ Sessions # {}
    /\ Obtainable(SessionsMutex, World)
    /\ SessionsMutex' = World
    /\ todo' = Sessions
    /\ Goto(World, "update")
    /\ UNCHANGED <<socks, sessions, world, pendingLock, queueMutex, deleteMutex, doomed, server>>

\* WorldSession::Update sees that the socket is gone.
Timed(x) == IF socket[x] \/ logout[x] # "no" THEN logout[x] ELSE "set"

\* Nothing is due, or the player of a session that still has its socket is
\* logged out.
UpdateOn(x) ==
    /\ at[World].pc = "update" /\ x \in todo
    /\ Timed(x) = "due" => socket[x]
    /\ todo' = todo \ {x}
    /\ logout' = [logout EXCEPT ![x] = IF @ = "due" THEN "no" ELSE Timed(x)]
    /\ UNCHANGED <<socks, session, account, socket, world, locks, doomed, at, server>>

\* The logout delay is over, and there is no socket: the session is deleted,
\* "after relinquishing SessionMutex".
UpdateDeleted(x) ==
    /\ at[World].pc = "update" /\ x \in todo
    /\ Timed(x) = "due" /\ ~socket[x]
    /\ todo' = todo \ {x}
    /\ Sessions' = Sessions \ {x}
    /\ doomed' = doomed \cup {x}
    /\ UNCHANGED <<socks, sessions, m_sessions, queue, locks, at, server>>

\* "Ping timeout!"
UpdateTimeout(x) ==
    /\ at[World].pc = "update" /\ x \in todo
    /\ Timed(x) = "due" => socket[x]
    /\ todo' = todo \ {x}
    /\ logout' = [logout EXCEPT ![x] = IF @ = "due" THEN "no" ELSE Timed(x)]
    /\ Enter(World, IF socket[x] /\ connected[x] THEN "disconnect" ELSE "forget", x, "forget")
    /\ UNCHANGED <<socks, session, account, socket, world, locks, doomed, server>>

ForgetSocket ==
    LET x == at[World].sock
    IN  /\ at[World].pc = "forget"
        /\ socket' = [socket EXCEPT ![x] = FALSE]
        /\ logout' = [logout EXCEPT ![x] = IF @ = "no" THEN "set" ELSE @]
        /\ Goto(World, "update")
        /\ UNCHANGED <<socks, session, account, world, locks, loop, server>>

EndSessions ==
    /\ at[World].pc = "update" /\ todo = {}
    /\ SessionsMutex' = None
    /\ IF doomed = {} THEN Finish(World) ELSE Goto(World, "erase")
    /\ UNCHANGED <<socks, sessions, world, pendingLock, queueMutex, deleteMutex, loop, server>>

\* A plausible mistake: the sessions stay in the map of accounts.
EraseNothing ==
    /\ at[World].pc = "erase"
    /\ Goto(World, "delete")
    /\ UNCHANGED <<socks, sessions, world, locks, loop, server>>

\* DeleteSessions erases by account id ...
EraseSessions ==
    /\ at[World].pc = "erase"
    /\ m_sessions' = [a \in Account |-> IF \E x \in doomed : account[x] = a THEN None
                                        ELSE m_sessions[a]]
    /\ Goto(World, "delete")
    /\ UNCHANGED <<socks, sessions, Sessions, queue, locks, loop, server>>

\* ... and then deletes one by one.
DeleteSession(x) ==
    /\ at[World].pc = "delete"
    /\ x \in doomed
    /\ Obtainable(deleteMutex[x], World)
    /\ session' = [session EXCEPT ![x] = "deleted"]
    /\ mSession' = [mSession EXCEPT ![x] = @ /\ ~socket[x]]
    /\ doomed' = doomed \ {x}
    /\ IF doomed = {x} THEN Finish(World) ELSE UNCHANGED at
    /\ UNCHANGED <<connected, asked, mRequestID, pending, mQueued, account, socket, logout,
                   world, locks, todo, server>>

\* The 20 seconds of PLAYER_LOGOUT_DELAY are over.  They are taken to outlast
\* what the worker was doing when they began.
Expire(x) ==
    /\ session[x] = "live" /\ logout[x] = "set"
    /\ at[Worker] = Idle
    /\ logout' = [logout EXCEPT ![x] = "due"]
    /\ UNCHANGED <<socks, session, account, socket, world, locks, loop, at, server>>

-----------------------------------------------------------------------------
Call(p) ==
    \/ Disconnect(p) \/ LeaveSession(p) \/ UnauthedSocketClose(p) \/ RemoveQueuedSocket(p)
    \/ Authenticate(p) \/ AddSession(p) \/ AddGlobalSession(p)

WorkerStep ==
    \/ Call(Worker) \/ Kick \/ SetLogoutTimer
    \/ CreateSession \/ CheckQueue \/ AddQueuedSocket \/ SetQueued \/ ReleaseLocks

WorldStep ==
    \/ Call(World) \/ StartQueue \/ Admit \/ Guard \/ Release
    \/ \E x \in Sock : UpdateOn(x) \/ UpdateDeleted(x) \/ UpdateTimeout(x) \/ DeleteSession(x)
    \/ ForgetSocket \/ EndSessions \/ EraseSessions

Next ==
    \/ \E s \in Sock : HandleAuthSession(s) \/ Drop(s) \/ Expire(s)
    \/ \E s \in Sock, a \in Account : HandleSessionInfo(s, a)
    \/ WorkerStep
    \/ WorldStep
    \/ StartSessions

Spec == Init /\ [][Next]_vars

\* The threads are scheduled, the worker obtains a lock it waits for in turn,
\* the world thread updates the sessions every loop, and the logout delay passes.
FairSpec ==
    /\ Spec
    /\ SF_vars(WorkerStep)
    /\ WF_vars(WorldStep) /\ SF_vars(StartSessions)
    /\ \A s \in Sock : SF_vars(Expire(s))

-----------------------------------------------------------------------------
TypeOK ==
    /\ \A f \in {connected, asked, mRequestID, mSession, mQueued, socket} : f \in [Sock -> BOOLEAN]
    /\ pending \subseteq Sock
    /\ session \in [Sock -> {"none", "live", "deleted"}]
    /\ account \in [Sock -> Account \cup {None}]
    /\ logout \in [Sock -> {"no", "set", "due"}]
    /\ m_sessions \in [Account -> Sock \cup {None}]
    /\ Sessions \subseteq Sock /\ todo \subseteq Sock /\ doomed \subseteq Sock
    /\ IsInjective(queue) /\ ToSet(queue) \subseteq Sock
    /\ \A l \in {pendingLock, queueMutex, SessionsMutex} : l \in Process \cup {None}
    /\ deleteMutex \in [Sock -> Process \cup {None}]
    /\ \A p \in Process : at[p].sock \in Sock \cup {None}
    /\ m_playerLimit \in PlayerLimits
    /\ fault \in {"none", "null", "freed"}

\* A session that the world can still reach, by account, in its loop or from
\* its socket, has not been deleted; in particular DeleteSessions, which goes by
\* account, leaves no entry of a session it deletes.
ReachableLive ==
    \A s \in Sock :
      /\ s \in Sessions \/ mSession[s] \/ (\E a \in Account : m_sessions[a] = s)
            => session[s] = "live"

\* A socket whose Disconnect is over is not in the queue: the garbage collector
\* frees it, and the world thread would let it in.
QueueConnected ==
    fault = "none" =>
      \A s \in ToSet(queue) :
        \/ connected[s]
        \/ \E p \in Process : at[p].sock = s /\ at[p].pc \in {"leave", "unrequest", "unqueue"}

\* On a server with room for every account, every session in the loop is the
\* one that its account finds, however logins, kicks and deletions overlap.
FoundByAccount ==
    m_playerLimit >= Cardinality(Account) => \A s \in Sessions : m_sessions[account[s]] = s

\* A session in the loop whose socket is gone is deleted in the end, whoever
\* took the socket away, unless a bad pointer stops the server before.
OrphanDeleted ==
    [](fault = "none") =>
      \A s \in Sock : s \in Sessions /\ ~connected[s] ~> session[s] = "deleted"

\* No order of the locks leaves the worker in the middle of a login, or of a
\* disconnection, for ever.
WorkerReturns == [](fault = "none") => (at[Worker] # Idle ~> at[Worker] = Idle)

\* Types, no list of the world that reaches a deleted session, and no dead
\* socket in the login queue.
Consistent == TypeOK /\ ReachableLive /\ QueueConnected
=============================================================================
