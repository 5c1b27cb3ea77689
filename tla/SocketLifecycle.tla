-------------------------- MODULE SocketLifecycle --------------------------
(***************************************************************************)
(* The life of the Socket objects of the epoll network layer: made by the  *)
(* listen socket or by ConnectTCPSocket, entered in SocketMgr's table of   *)
(* descriptors, disconnected by the worker or by any thread that holds     *)
(* them, deleted, and freed by the garbage collector.  Descriptors are     *)
(* numbers: the kernel gives a closed one to the next connection.  What    *)
(* the buffers and the send lock decide (EpollSocket has them) is a free   *)
(* choice here.                                                            *)
(***************************************************************************)
EXTENDS Naturals

CONSTANTS Accepted,    \* the connections from peers, and their Socket objects
          Dialed,      \* the connections opened by ConnectTCPSocket
          Fd,          \* descriptor numbers
          Thread,      \* the threads that hold sockets: world, maps, database, ...
          Worker,      \* the SocketWorkerThread
          Listen,      \* the readiness of the listen socket
          None,
          Shutdown     \* bound: whether CloseAll is called

Sock == Accepted \cup Dialed
Process == Thread \cup {Worker}

ASSUME SocketAssumption == /\ Accepted \cap Dialed = {} /\ None \notin Sock \cup Fd
                           /\ Worker \notin Thread /\ Listen \notin Fd
                           /\ Shutdown \in BOOLEAN

VARIABLES obj,         \* "none", "live", "freed"
          fd,          \* m_fd
          connected,   \* m_connected
          deleted,     \* m_deleted
          held,        \* threads other than the worker can reach the socket
          told,        \* how often OnDisconnect has been called
          asked,       \* a thread has called Disconnect or Delete
          table,       \* SocketMgr::fds
          owner,       \* the connection an open descriptor belongs to
          mask,        \* what epoll watches a descriptor for
          ready,       \* epoll's ready list
          peer,        \* the other end
          data,        \* received bytes wait in the kernel
          backlog,     \* connections that wait for accept
          events,      \* what epoll_wait returned and is still to be handled
          at,          \* where each process is, and in which socket
          gc,          \* deletionQueue
          closing      \* CloseAll has been called

objects == <<obj, fd, connected, deleted, held, told, asked>>
kernel == <<owner, mask, ready, peer, data, backlog>>
managers == <<gc, closing>>
vars == <<objects, table, kernel, events, at, managers>>

\* then is where a process goes on after Disconnect or Delete; inner says that
\* Disconnect was called by Delete; ev is the event it is about to post.
Idle == [pc |-> "idle", sock |-> None, then |-> "idle", inner |-> FALSE, ev |-> "IN"]

Init ==
    /\ obj = [s \in Sock |-> "none"]
    /\ fd = [s \in Sock |-> None]
    /\ connected = [s \in Sock |-> FALSE]
    /\ deleted = [s \in Sock |-> FALSE]
    /\ held = [s \in Sock |-> FALSE]
    /\ told = [s \in Sock |-> 0]
    /\ asked = [s \in Sock |-> FALSE]
    /\ table = [f \in Fd |-> None]
    /\ owner = [f \in Fd |-> None]
    /\ mask = [f \in Fd |-> "none"]
    /\ ready = {}
    /\ peer = [s \in Sock |-> "none"]
    /\ data = [s \in Sock |-> FALSE]
    /\ backlog = {}
    /\ events = {}
    /\ at = [p \in Process |-> Idle]
    /\ gc = {}
    /\ closing = FALSE

Goto(p, label) == at' = [at EXCEPT ![p].pc = label]
Enter(p, label, s, then) ==
    at' = [at EXCEPT ![p] = [Idle EXCEPT !.pc = label, !.sock = s, !.then = then]]
Finish(p) == at' = [at EXCEPT ![p] = Idle]

\* Back to the caller of Disconnect or Delete.
Return(p) ==
    IF at[p].then = "idle" THEN Finish(p)
    ELSE at' = [at EXCEPT ![p].pc = at[p].then, ![p].then = "idle", ![p].inner = FALSE]

-----------------------------------------------------------------------------
\* The kernel and the peers

\* What epoll reports for the events of a mask; a reset is always reported.
Reported(s, m) ==
    IF peer[s] = "reset" THEN {"HUP"}
    ELSE IF m = "IN" /\ (data[s] \/ peer[s] = "fin") THEN {"IN"}
    ELSE IF m = "OUT" THEN {"OUT"} ELSE {}

Edge(s, watched) ==
    ready' = ready \cup {f \in Fd : owner[f] = s /\ mask[f] \in watched}

\* EPOLL_CTL_ADD and EPOLL_CTL_MOD look at what is there already.
Watch(f, m) ==
    /\ mask' = [mask EXCEPT ![f] = m]
    /\ ready' = IF Reported(owner[f], m) # {} THEN ready \cup {f} ELSE ready

Forget(f) ==
    /\ mask' = [mask EXCEPT ![f] = "none"]
    /\ ready' = ready \ {f}

PeerConnects(s) ==
    /\ s \in Accepted /\ peer[s] = "none"
    /\ peer' = [peer EXCEPT ![s] = "up"]
    /\ backlog' = backlog \cup {s}
    /\ ready' = ready \cup {Listen}
    /\ UNCHANGED <<objects, table, owner, mask, data, events, at, managers>>

PeerSends(s) ==
    /\ peer[s] = "up"
    /\ data' = [data EXCEPT ![s] = TRUE]
    /\ Edge(s, {"IN"})
    /\ UNCHANGED <<objects, table, owner, mask, peer, backlog, events, at, managers>>

PeerCloses(s) ==
    /\ peer[s] = "up"
    /\ peer' = [peer EXCEPT ![s] = "fin"]
    /\ Edge(s, {"IN"})
    /\ UNCHANGED <<objects, table, owner, mask, data, backlog, events, at, managers>>

PeerResets(s) ==
    /\ peer[s] \in {"up", "fin"}
    /\ peer' = [peer EXCEPT ![s] = "reset"]
    /\ Edge(s, {"IN", "OUT"})
    /\ UNCHANGED <<objects, table, owner, mask, data, backlog, events, at, managers>>

-----------------------------------------------------------------------------
\* Connecting

\* The Socket constructor, for a descriptor the kernel chooses.
New(s, f) ==
    /\ owner[f] = None
    /\ owner' = [owner EXCEPT ![f] = s]
    /\ obj' = [obj EXCEPT ![s] = "live"]
    /\ fd' = [fd EXCEPT ![s] = f]

\* ListenSocket::OnAccept: one accept for one event.
OnAccept ==
    /\ at[Worker].pc = "accept"
    /\ \/ /\ backlog = {} \/ \A f \in Fd : owner[f] # None
          /\ Finish(Worker)
          /\ UNCHANGED <<objects, owner, backlog>>
       \/ \E s \in backlog, f \in Fd :
             /\ New(s, f)
             /\ backlog' = backlog \ {s}
             /\ connected' = [connected EXCEPT ![s] = TRUE]
             /\ Enter(Worker, "add", s, "idle")
             /\ UNCHANGED <<deleted, held, told, asked>>
    /\ UNCHANGED <<table, mask, ready, peer, data, events, managers>>

\* ConnectTCPSocket: the object, then connect, or Delete when that fails.
Dial(t, s) ==
    /\ at[t].pc = "idle" /\ t \in Thread
    /\ s \in Dialed /\ obj[s] = "none"
    /\ \E f \in Fd : New(s, f)
    /\ Enter(t, "dial", s, "idle")
    /\ UNCHANGED <<connected, deleted, held, told, asked, table, mask, ready,
                   peer, data, backlog, events, managers>>

Connect(t) ==
    LET s == at[t].sock
    IN  /\ at[t].pc = "dial"
        /\ \/ /\ peer' = [peer EXCEPT ![s] = "up"]
              /\ connected' = [connected EXCEPT ![s] = TRUE]
              /\ Goto(t, "add")
           \/ /\ Goto(t, "delete")
              /\ UNCHANGED <<peer, connected>>
        /\ UNCHANGED <<obj, fd, deleted, held, told, asked, table, owner, mask,
                       ready, data, backlog, events, managers>>

\* SocketMgr::AddSocket, from _OnConnect, which goes on to OnConnect whatever
\* becomes of the socket here: first the table (nobody else writes the entry of an
\* open number, so that the test and the write may be one step) ...
AddSocket(p) ==
    LET s == at[p].sock
        f == fd[s]
    IN  /\ at[p].pc = "add"
        /\ \/ /\ table[f] # None
              /\ at' = [at EXCEPT ![p].pc = "delete", ![p].then = "onconnect"]
              /\ UNCHANGED table
           \/ /\ table[f] = None
              /\ table' = [table EXCEPT ![f] = s]
              /\ Goto(p, "watch")
        /\ UNCHANGED <<objects, kernel, events, managers>>

\* A plausible mistake: EPOLL_CTL_MOD, which fails for a number that is not watched.
AddEventModified(p) ==
    LET f == fd[at[p].sock]
    IN  /\ at[p].pc = "watch"
        /\ IF mask[f] # "none" THEN Watch(f, "IN") ELSE UNCHANGED <<mask, ready>>
        /\ Goto(p, "onconnect")
        /\ UNCHANGED <<objects, table, owner, peer, data, backlog, events, managers>>

\* ... then the epoll set.  Nothing is locked: the socket may be disconnected
\* and its number another's by now, or an OnRead may have answered, so that bytes
\* wait.  EPOLL_CTL_ADD fails for a number that is closed or watched already.
AddEvent(p) ==
    LET s == at[p].sock
        f == fd[s]
    IN  /\ at[p].pc = "watch"
        /\ IF owner[f] # None /\ mask[f] = "none"
           THEN \E m \in {"IN"} \cup (IF held[s] THEN {"OUT"} ELSE {}) : Watch(f, m)
           ELSE UNCHANGED <<mask, ready>>
        /\ Goto(p, "onconnect")
        /\ UNCHANGED <<objects, table, owner, peer, data, backlog, events, managers>>

\* ConnectTCPSocket hands the socket to its caller; an accepted one is handed
\* to a session only once the peer has been heard.
OnConnect(p) ==
    /\ at[p].pc = "onconnect"
    /\ held' = IF p \in Thread THEN [held EXCEPT ![at[p].sock] = (told[at[p].sock] = 0)]
               ELSE held
    /\ Finish(p)
    /\ UNCHANGED <<obj, fd, connected, deleted, told, asked, table, kernel, events, managers>>

-----------------------------------------------------------------------------
\* Socket::Disconnect, called with nothing locked

\* A plausible mistake: the flag is read, and cleared later with the rest.
DisconnectUnguarded(p) ==
    /\ at[p].pc = "disconnect"
    /\ IF connected[at[p].sock] THEN Goto(p, "remove")
       ELSE IF at[p].inner THEN Goto(p, "close") ELSE Return(p)
    /\ UNCHANGED <<objects, table, kernel, events, managers>>

Disconnect(p) ==
    LET s == at[p].sock
    IN  /\ at[p].pc = "disconnect"
        /\ connected' = [connected EXCEPT ![s] = FALSE]
        /\ IF connected[s] THEN Goto(p, "remove")
           ELSE IF at[p].inner THEN Goto(p, "close") ELSE Return(p)
        /\ UNCHANGED <<obj, fd, deleted, held, told, asked, table, kernel, events, managers>>

\* A plausible mistake: the table keeps the entry.
RemoveSocketUntabled(p) ==
    /\ at[p].pc = "remove"
    /\ Goto(p, "unwatch")
    /\ UNCHANGED <<objects, table, kernel, events, managers>>

\* SocketMgr::RemoveSocket: the table ...
RemoveSocket(p) ==
    LET s == at[p].sock
        f == fd[s]
    IN  /\ at[p].pc = "remove"
        /\ IF table[f] = s THEN table' = [table EXCEPT ![f] = None] /\ Goto(p, "unwatch")
           ELSE UNCHANGED table /\ Goto(p, "ondisconnect")
        /\ UNCHANGED <<objects, kernel, events, managers>>

\* ... and the epoll set, for the number whosever it is now.
RemoveEvent(p) ==
    /\ at[p].pc = "unwatch"
    /\ Forget(fd[at[p].sock])
    /\ Goto(p, "ondisconnect")
    /\ UNCHANGED <<objects, table, owner, peer, data, backlog, events, managers>>

\* A plausible mistake: the destruction is left to somebody else.
OnDisconnectOnly(p) ==
    LET s == at[p].sock
    IN  /\ at[p].pc = "ondisconnect"
        /\ told' = [told EXCEPT ![s] = @ + 1]
        /\ held' = [held EXCEPT ![s] = FALSE]
        /\ IF at[p].inner THEN Goto(p, "close") ELSE Return(p)
        /\ UNCHANGED <<obj, fd, connected, deleted, asked, table, kernel, events, managers>>

\* OnDisconnect drops the references to the socket; Delete follows unless
\* it has been called already.
OnDisconnect(p) ==
    LET s == at[p].sock
    IN  /\ at[p].pc = "ondisconnect"
        /\ told' = [told EXCEPT ![s] = @ + 1]
        /\ held' = [held EXCEPT ![s] = FALSE]
        /\ IF at[p].inner THEN Goto(p, "close")
           ELSE IF deleted[s] THEN Return(p) ELSE Goto(p, "delete")
        /\ UNCHANGED <<obj, fd, connected, deleted, asked, table, kernel, events, managers>>

-----------------------------------------------------------------------------
\* Socket::Delete

\* A plausible mistake: whether it has been called is not looked at.
DeleteAgain(p) ==
    LET s == at[p].sock
    IN  /\ at[p].pc = "delete"
        /\ deleted' = [deleted EXCEPT ![s] = TRUE]
        /\ IF connected[s] THEN at' = [at EXCEPT ![p].pc = "disconnect", ![p].inner = TRUE]
           ELSE Goto(p, "close")
        /\ UNCHANGED <<obj, fd, connected, held, told, asked, table, kernel, events, managers>>

Delete(p) ==
    LET s == at[p].sock
    IN  /\ at[p].pc = "delete"
        /\ deleted' = [deleted EXCEPT ![s] = TRUE]
        /\ IF deleted[s] THEN Return(p)
           ELSE IF connected[s]
                THEN at' = [at EXCEPT ![p].pc = "disconnect", ![p].inner = TRUE]
                ELSE Goto(p, "close")
        /\ UNCHANGED <<obj, fd, connected, held, told, asked, table, kernel, events, managers>>

\* The peer of the descriptor's connection is cut off.
CloseSocket(p) ==
    LET f == fd[at[p].sock]
    IN  /\ at[p].pc = "close"
        /\ owner' = [owner EXCEPT ![f] = None]
        /\ peer' = [s \in Sock |-> IF s = owner[f] /\ peer[s] # "none" THEN "reset" ELSE peer[s]]
        /\ data' = [s \in Sock |-> data[s] /\ s # owner[f]]
        /\ Forget(f)
        /\ Goto(p, "queue")
        /\ UNCHANGED <<objects, table, backlog, events, managers>>

QueueSocket(p) ==
    /\ at[p].pc = "queue"
    /\ gc' = gc \cup {at[p].sock}
    /\ Return(p)
    /\ UNCHANGED <<objects, table, kernel, events, closing>>

\* SocketGarbageCollector::Update.  The 15 seconds are taken to outlast every
\* call that was under way when the socket was queued.
Update(s) ==
    /\ s \in gc
    /\ \A p \in Process : at[p].sock # s
    /\ gc' = gc \ {s}
    /\ obj' = [obj EXCEPT ![s] = "freed"]
    /\ held' = [held EXCEPT ![s] = FALSE]
    /\ UNCHANGED <<fd, connected, deleted, told, asked, table, kernel, events, at, closing>>

-----------------------------------------------------------------------------
\* The threads that hold sockets

\* A send looks at IsConnected first; when it gets the send lock it posts.
Send(t, s) ==
    /\ at[t].pc = "idle" /\ t \in Thread
    /\ obj[s] = "live" /\ held[s] /\ connected[s]
    /\ at' = [at EXCEPT ![t] = [Idle EXCEPT !.pc = "post", !.sock = s, !.ev = "OUT"]]
    /\ UNCHANGED <<objects, table, kernel, events, managers>>

CallDisconnect(t, s) ==
    /\ at[t].pc = "idle" /\ t \in Thread
    /\ obj[s] = "live" /\ held[s]
    /\ asked' = [asked EXCEPT ![s] = TRUE]
    /\ Enter(t, "disconnect", s, "idle")
    /\ UNCHANGED <<obj, fd, connected, deleted, held, told, table, kernel, events, managers>>

\* One turn of SocketMgr::CloseAll, which runs beside the worker.
CloseAll(t, f) ==
    /\ Shutdown
    /\ at[t].pc = "idle" /\ t \in Thread
    /\ table[f] # None
    /\ closing' = TRUE
    /\ asked' = [asked EXCEPT ![table[f]] = TRUE]
    /\ Enter(t, "delete", table[f], "idle")
    /\ UNCHANGED <<obj, fd, connected, deleted, held, told, table, kernel, events, gc>>

\* PostEvent: EPOLL_CTL_MOD, which fails when the number is not registered.
PostEvent(p) ==
    LET f == fd[at[p].sock]
    IN  /\ at[p].pc = "post"
        /\ IF mask[f] = "none" THEN UNCHANGED <<mask, ready>> ELSE Watch(f, at[p].ev)
        /\ Finish(p)
        /\ UNCHANGED <<objects, table, owner, peer, data, backlog, events, managers>>

-----------------------------------------------------------------------------
\* SocketWorkerThread::run

\* epoll_wait, when the events of the last one have been handled.
Wait ==
    /\ at[Worker].pc = "idle" /\ events = {} /\ ready # {}
    /\ events' = {e \in (ready \cap Fd) \X {"HUP", "IN", "OUT"} :
                    e[2] \in Reported(owner[e[1]], mask[e[1]])}
                 \cup {<<l, "IN">> : l \in ready \cap {Listen}}
    /\ ready' = {}
    /\ UNCHANGED <<objects, table, owner, mask, peer, data, backlog, at, managers>>

Label(kind) == CASE kind = "HUP" -> "disconnect" [] kind = "IN" -> "readtest"
                 [] kind = "OUT" -> "writetest"

\* A plausible mistake: a hangup is skipped.
TakeNoHangup(e) ==
    /\ at[Worker].pc = "idle" /\ e \in events
    /\ events' = events \ {e}
    /\ IF e[1] = Listen THEN Enter(Worker, "accept", None, "idle")
       ELSE IF table[e[1]] = None \/ e[2] = "HUP" THEN UNCHANGED at
       ELSE Enter(Worker, Label(e[2]), table[e[1]], "idle")
    /\ UNCHANGED <<objects, table, kernel, managers>>

\* The next event: its socket is looked up in the table now.
Take(e) ==
    /\ at[Worker].pc = "idle" /\ e \in events
    /\ events' = events \ {e}
    /\ IF e[1] = Listen THEN Enter(Worker, "accept", None, "idle")
       ELSE IF table[e[1]] = None THEN UNCHANGED at
       ELSE Enter(Worker, Label(e[2]), table[e[1]], "idle")
    /\ UNCHANGED <<objects, table, kernel, managers>>

\* ReadCallback and WriteCallback look at the flags first.
Test(label, yes, no) ==
    /\ at[Worker].pc = label
    /\ Goto(Worker, IF connected[at[Worker].sock] /\ ~deleted[at[Worker].sock]
                    THEN yes ELSE no)
    /\ UNCHANGED <<objects, table, kernel, events, managers>>

ReadTest == Test("readtest", "recv", "read")
WriteTest == Test("writetest", "send", "written")

Whole(o) == o # None /\ peer[o] # "reset"
Readable(o) == Whole(o) /\ data[o]

\* recv on the number, whatever it stands for now: bytes, or 0 or an error
\* (EAGAIN too), both of which disconnect.  OnRead may itself disconnect.
Recv ==
    LET s == at[Worker].sock
        o == owner[fd[s]]
    IN  /\ at[Worker].pc = "recv"
        /\ \/ /\ Readable(o)
              /\ data' = [data EXCEPT ![o] = FALSE]
              /\ held' = [held EXCEPT ![s] = (told[s] = 0)]
              /\ \/ Goto(Worker, "read") /\ UNCHANGED asked
                 \/ /\ asked' = [asked EXCEPT ![s] = TRUE]
                    /\ Enter(Worker, "disconnect", s, "read")
           \/ /\ ~Readable(o)
              /\ Enter(Worker, "disconnect", s, "read")
              /\ UNCHANGED <<data, held, asked>>
        /\ UNCHANGED <<obj, fd, connected, deleted, told, table, owner, mask,
                       ready, peer, backlog, events, managers>>

\* "Changing to written state?"
Read ==
    /\ at[Worker].pc = "read"
    /\ \/ Finish(Worker)
       \/ /\ connected[at[Worker].sock]
          /\ at' = [at EXCEPT ![Worker].pc = "post", ![Worker].ev = "OUT"]
    /\ UNCHANGED <<objects, table, kernel, events, managers>>

WriteSend ==
    LET s == at[Worker].sock
    IN  /\ at[Worker].pc = "send"
        /\ IF Whole(owner[fd[s]]) THEN Goto(Worker, "written")
           ELSE Enter(Worker, "disconnect", s, "written")
        /\ UNCHANGED <<objects, table, kernel, events, managers>>

\* Bytes are left, or the mask goes back to reading.
Written ==
    /\ at[Worker].pc = "written"
    /\ \/ Finish(Worker)
       \/ at' = [at EXCEPT ![Worker].pc = "post", ![Worker].ev = "IN"]
    /\ UNCHANGED <<objects, table, kernel, events, managers>>

-----------------------------------------------------------------------------
ProcessStep(p) ==
    \/ AddSocket(p) \/ AddEvent(p) \/ OnConnect(p)
    \/ Disconnect(p) \/ RemoveSocket(p) \/ RemoveEvent(p) \/ OnDisconnect(p)
    \/ Delete(p) \/ CloseSocket(p) \/ QueueSocket(p)
    \/ PostEvent(p) \/ Connect(p)

WorkerStep ==
    \/ Wait \/ (\E e \in events : Take(e)) \/ OnAccept
    \/ ReadTest \/ Recv \/ Read \/ WriteTest \/ WriteSend \/ Written

Next ==
    \/ \E s \in Sock : PeerConnects(s) \/ PeerSends(s) \/ PeerCloses(s) \/ PeerResets(s)
    \/ \E p \in Process : ProcessStep(p)
    \/ \E t \in Thread, s \in Sock : Dial(t, s) \/ Send(t, s) \/ CallDisconnect(t, s)
    \/ \E t \in Thread, f \in Fd : CloseAll(t, f)
    \/ WorkerStep
    \/ \E s \in Sock : Update(s)

Spec == Init /\ [][Next]_vars

\* Every process goes on with the call it is in, the worker takes its events,
\* and the garbage collector runs every loop.  Nobody is obliged to call.
Fairness ==
    /\ \A p \in Process : WF_vars(ProcessStep(p))
    /\ WF_vars(WorkerStep)
    /\ \A s \in Sock : WF_vars(Update(s))

FairSpec == Spec /\ Fairness

-----------------------------------------------------------------------------
PC == {"idle", "accept", "dial", "add", "watch", "onconnect", "disconnect", "remove",
       "unwatch", "ondisconnect", "delete", "close", "queue", "post",
       "readtest", "recv", "read", "writetest", "send", "written"}

TypeOK ==
    /\ obj \in [Sock -> {"none", "live", "freed"}]
    /\ fd \in [Sock -> Fd \cup {None}]
    /\ connected \in [Sock -> BOOLEAN] /\ deleted \in [Sock -> BOOLEAN]
    /\ held \in [Sock -> BOOLEAN] /\ asked \in [Sock -> BOOLEAN]
    /\ told \in [Sock -> {0, 1}]
    /\ table \in [Fd -> Sock \cup {None}]
    /\ owner \in [Fd -> Sock \cup {None}]
    /\ mask \in [Fd -> {"none", "IN", "OUT"}]
    /\ ready \subseteq Fd \cup {Listen}
    /\ peer \in [Sock -> {"none", "up", "fin", "reset"}]
    /\ data \in [Sock -> BOOLEAN]
    /\ backlog \subseteq Accepted
    /\ events \subseteq (Fd \cup {Listen}) \X {"HUP", "IN", "OUT"}
    /\ at \in [Process -> [pc : PC, sock : Sock \cup {None}, then : PC,
                          inner : BOOLEAN, ev : {"IN", "OUT"}]]
    /\ gc \subseteq Sock /\ closing \in BOOLEAN

At(p, label, s) == at[p].pc = label /\ at[p].sock = s

\* As long as nobody calls CloseAll: an entry of the table stands for the
\* connection its number stands for, and the number is watched as soon as
\* AddSocket is through, however late another's EPOLL_CTL_ADD comes.  A number that is
\* watched without an entry is one of a socket that is being taken down, or
\* whose AddSocket is about to enter it.
TableExact ==
    ~closing =>
      \A f \in Fd :
        /\ table[f] # None =>
              /\ owner[f] = table[f]
              /\ mask[f] # "none" \/ \E p \in Process : At(p, "watch", table[f])
        /\ mask[f] # "none" /\ table[f] = None =>
              \/ ~connected[owner[f]]
              \/ \E p \in Process : At(p, "add", owner[f])

\* CloseAll runs beside the worker and the other threads, and each may delete
\* the same socket: a descriptor is still closed only by the socket it belongs
\* to, so never twice.
ClosesOwn ==
    [][\A p \in Process :
         at[p].pc = "close" /\ at'[p].pc = "queue" => owner[fd[at[p].sock]] = at[p].sock]_vars

\* "Called when the socket is disconnected": however many threads disconnect
\* and delete it, OnDisconnect is called once for a socket that was connected,
\* and never again or at all once it is freed.
ToldOnce ==
    \A s \in Sock :
      /\ told[s] <= 1
      /\ obj[s] = "freed" => told[s] = IF peer[s] = "none" THEN 0 ELSE 1

\* A call of epoll_ctl is about to come so late that its number is another's.
Stray ==
    \E p \in Process : /\ at[p].pc \in {"watch", "unwatch"}
                       /\ owner[fd[at[p].sock]] \notin {None, at[p].sock}

\* A socket that is disconnected or deleted is freed in the end, whoever else is
\* at work on it.  So is one whose peer resets the connection, whatever the mask
\* is, unless a late call of epoll_ctl has met the number of another.
Reaped ==
    \A s \in Sock :
        /\ told[s] > 0 \/ deleted[s] ~> obj[s] = "freed"
        /\ []~Stray => (peer[s] = "reset" /\ (\E f \in Fd : table[f] = s) ~> obj[s] = "freed")

\* Between the steps of all threads: types, a table and an epoll set that agree
\* on who has which descriptor, and no socket told of its end twice.
Consistent == TypeOK /\ TableExact /\ ToldOnce
=============================================================================
