----------------------- MODULE SocketLifecycleProofs -----------------------
(***************************************************************************)
(* However many threads disconnect and delete a socket, for any number of  *)
(* sockets, threads and descriptors: OnDisconnect is called once, a        *)
(* descriptor is closed by the socket it belongs to, and, until CloseAll   *)
(* is called, the table and the epoll set tell the truth.                  *)
(***************************************************************************)
EXTENDS SocketLifecycle, TLAPS

\* A place a process may come to, and where it goes on after a call.
Place == [pc : PC, sock : Sock \cup {None}, then : PC, inner : BOOLEAN, ev : {"IN", "OUT"}]
Resume == {"idle", "read", "written", "onconnect"}

\* p is inside the half of Disconnect, or of Delete, that runs once a socket.
Removing(p) == at[p].pc \in {"remove", "unwatch", "ondisconnect"}
Deleting(p) == at[p].pc \in {"close", "queue"} \/ at[p].inner

Placed(p) ==
    /\ at[p].pc \in {"idle", "accept"} <=> at[p].sock = None
    /\ at[p].then \in Resume
    /\ at[p].inner => at[p].pc \in {"disconnect", "remove", "unwatch", "ondisconnect",
                                    "close", "queue"}
    /\ at[p].sock # None => obj[at[p].sock] = "live"

Made(s) ==
    /\ obj[s] = "none" =>
         /\ ~connected[s] /\ ~deleted[s] /\ ~held[s] /\ told[s] = 0 /\ s \notin gc
         /\ s \in Dialed => peer[s] = "none"
    /\ obj[s] # "none" =>
         /\ fd[s] \in Fd /\ s \notin backlog
         /\ s \in Accepted => peer[s] # "none"
    /\ s \in backlog => peer[s] # "none"

\* Only its maker has a socket that is not in the table yet.
Starting(p) ==
    at[p].pc \in {"dial", "add"} =>
        /\ ~deleted[at[p].sock] /\ told[at[p].sock] = 0 /\ ~held[at[p].sock]
        /\ \A f \in Fd : table[f] # at[p].sock
        /\ \A q \in Process : q # p => at[q].sock # at[p].sock
        /\ at[p].pc = "add" <=> connected[at[p].sock]
        /\ at[p].pc = "dial" => at[p].sock \in Dialed /\ peer[at[p].sock] = "none"

\* A socket that had a peer is connected, or is being disconnected by one
\* process, or has been told of it.
Removes(p) ==
    Removing(p) =>
        /\ ~connected[at[p].sock] /\ told[at[p].sock] = 0 /\ peer[at[p].sock] # "none"
        /\ \A q \in Process : q # p /\ Removing(q) => at[q].sock # at[p].sock

Connection(s) ==
    /\ connected[s] => told[s] = 0 /\ peer[s] # "none" /\ obj[s] = "live"
    /\ told[s] = 1 => peer[s] # "none"
    /\ obj[s] # "none" /\ peer[s] # "none" /\ ~connected[s] /\ told[s] = 0
         => \E p \in Process : Removing(p) /\ at[p].sock = s

\* One process deletes a socket, and none after it is queued.
Deletes(p) ==
    Deleting(p) =>
        /\ deleted[at[p].sock] /\ at[p].sock \notin gc
        /\ at[p].pc \in {"close", "queue"} => ~connected[at[p].sock]
        /\ \A q \in Process : q # p /\ Deleting(q) => at[q].sock # at[p].sock

Dead(s) ==
    /\ s \in gc => obj[s] = "live" /\ deleted[s] /\ ~connected[s]
    /\ obj[s] = "freed" => ~connected[s]

\* A descriptor is open from New to CloseSocket.
Owns(s) ==
    obj[s] = "live" => \/ owner[fd[s]] = s \/ s \in gc
                       \/ \E p \in Process : at[p].pc = "queue" /\ at[p].sock = s

Owned(f) ==
    owner[f] # None =>
        /\ obj[owner[f]] = "live" /\ fd[owner[f]] = f /\ owner[f] \notin gc
        /\ \A p \in Process : at[p].pc = "queue" => at[p].sock # owner[f]

Tabled(f) ==
    table[f] # None =>
        /\ obj[table[f]] = "live" /\ fd[table[f]] = f
        /\ \/ connected[table[f]]
           \/ \E p \in Process : at[p].pc = "remove" /\ at[p].sock = table[f]

\* Until CloseAll is called a socket is deleted only after it was disconnected,
\* or when it never was connected.
Ordered(s) ==
    ~closing =>
        (deleted[s] \/ (\E p \in Process : at[p].pc = "delete" /\ at[p].sock = s)
           => told[s] = 1 \/ peer[s] = "none")

\* Until CloseAll is called an entry's number is the entry's, and is watched unless
\* the entry's AddSocket is still to do that.
Exact(f) ==
    ~closing /\ table[f] # None =>
        /\ owner[f] = table[f]
        /\ mask[f] # "none" \/ \E p \in Process : At(p, "watch", table[f])

Watched(f) == mask[f] # "none" => owner[f] # None

\* Until CloseAll is called a connected socket is in the table, or its AddSocket is
\* about to enter it: so a number that is watched without an entry is no connected
\* socket's, whoever's late EPOLL_CTL_ADD it was.
Entered(s) ==
    ~closing /\ connected[s] => table[fd[s]] = s \/ \E p \in Process : At(p, "add", s)

Inv ==
    /\ TypeOK /\ ToldOnce
    /\ \A p \in Process : Placed(p) /\ Starting(p) /\ Removes(p) /\ Deletes(p)
    /\ \A s \in Sock : Made(s) /\ Connection(s) /\ Dead(s) /\ Owns(s) /\ Ordered(s) /\ Entered(s)
    /\ \A f \in Fd : Owned(f) /\ Tabled(f) /\ Exact(f) /\ Watched(f)

-----------------------------------------------------------------------------
\* What the types say, one by one.
LEMMA Typed ==
  ASSUME Inv
  PROVE  /\ obj \in [Sock -> {"none", "live", "freed"}] /\ fd \in [Sock -> Fd \cup {None}]
         /\ connected \in [Sock -> BOOLEAN] /\ deleted \in [Sock -> BOOLEAN]
         /\ held \in [Sock -> BOOLEAN] /\ asked \in [Sock -> BOOLEAN]
         /\ told \in [Sock -> {0, 1}]
         /\ table \in [Fd -> Sock \cup {None}] /\ owner \in [Fd -> Sock \cup {None}]
         /\ mask \in [Fd -> {"none", "IN", "OUT"}] /\ ready \subseteq Fd \cup {Listen}
         /\ peer \in [Sock -> {"none", "up", "fin", "reset"}] /\ data \in [Sock -> BOOLEAN]
         /\ backlog \subseteq Accepted
         /\ events \subseteq (Fd \cup {Listen}) \X {"HUP", "IN", "OUT"}
         /\ at \in [Process -> Place]
         /\ gc \subseteq Sock /\ closing \in BOOLEAN
BY DEF Inv, TypeOK, Place

LEMMA NoneApart == None \notin Sock /\ None \notin Fd
BY SocketAssumption

LEMMA IdlePlace == Idle \in Place /\ Idle.pc = "idle" /\ Idle.sock = None
                   /\ Idle.then = "idle" /\ Idle.inner = FALSE
BY DEF Idle, Place, PC

LEMMA InvInit ==
  Init => Inv
<1> SUFFICES ASSUME Init PROVE Inv
  OBVIOUS
<1>1. TypeOK
  BY IdlePlace DEF Init, TypeOK, Place
<1>2. \A p \in Process : at[p] = Idle
  BY DEF Init
<1>3. \A p \in Process : Placed(p) /\ Starting(p) /\ Removes(p) /\ Deletes(p)
  BY <1>2, IdlePlace, NoneApart DEF Placed, Resume, Starting, Removes, Deletes, Removing, Deleting
<1>4. \A s \in Sock : Made(s) /\ Connection(s) /\ Dead(s) /\ Owns(s) /\ Ordered(s) /\ Entered(s)
  BY <1>2, IdlePlace DEF Init, Made, Connection, Dead, Owns, Ordered, Entered
<1>5. \A f \in Fd : Owned(f) /\ Tabled(f) /\ Exact(f) /\ Watched(f)
  BY DEF Init, Owned, Tabled, Exact, Watched
<1>6. ToldOnce
  BY DEF Init, ToldOnce
<1> QED BY <1>1, <1>3, <1>4, <1>5, <1>6 DEF Inv

-----------------------------------------------------------------------------
\* The kernel and the peers change nothing the processes have agreed on.
LEMMA KernelMoves ==
  ASSUME Inv, TypeOK', UNCHANGED <<objects, table, owner, mask, at, managers>>,
         \A s \in Sock : \/ (peer'[s] = "none") = (peer[s] = "none")
                         \/ s \in Accepted /\ peer[s] = "none",
         \A s \in Sock : s \in backlog' => \/ s \in backlog /\ peer'[s] # "none"
                                           \/ s \in Accepted /\ peer[s] = "none" /\ peer'[s] # "none"
  PROVE  Inv'
<1> USE DEF objects, managers
<1>1. \A s \in Sock : s \in Accepted /\ peer[s] = "none" => obj[s] = "none" /\ s \notin Dialed
  BY Typed, SocketAssumption DEF Inv, Made, Sock
<1>2. \A p \in Process : Placed(p)' /\ Starting(p)' /\ Removes(p)' /\ Deletes(p)'
  <2> SUFFICES ASSUME NEW p \in Process PROVE Placed(p)' /\ Starting(p)' /\ Removes(p)' /\ Deletes(p)'
    OBVIOUS
  <2>1. at[p].sock \in Sock \cup {None}
    BY Typed DEF Place
  <2>2. Placed(p) /\ Starting(p) /\ Removes(p) /\ Deletes(p)
    BY DEF Inv
  <2>3. Placed(p)' /\ Deletes(p)'
    BY <2>2 DEF Placed, Deletes, Deleting
  <2>4. Starting(p)'
    BY <1>1, <2>1, <2>2, NoneApart DEF Placed, Starting
  <2>5. Removes(p)'
    BY <1>1, <2>1, <2>2, NoneApart DEF Placed, Removes, Removing
  <2> QED BY <2>3, <2>4, <2>5
<1>3. \A s \in Sock : Made(s)' /\ Connection(s)' /\ Dead(s)' /\ Owns(s)' /\ Ordered(s)' /\ Entered(s)'
  <2> SUFFICES ASSUME NEW s \in Sock
               PROVE  Made(s)' /\ Connection(s)' /\ Dead(s)' /\ Owns(s)' /\ Ordered(s)' /\ Entered(s)'
    OBVIOUS
  <2>1. Made(s) /\ Connection(s) /\ Dead(s) /\ Owns(s) /\ Ordered(s) /\ Entered(s)
    BY DEF Inv
  <2>2. Made(s)'
    BY <1>1, <2>1 DEF Made
  <2>3. Connection(s)'
    BY <1>1, <2>1 DEF Made, Connection, Removing
  <2>4. Dead(s)' /\ Owns(s)'
    BY <2>1 DEF Dead, Owns
  <2>5. Ordered(s)'
    <3>1. \A p \in Process : at[p].sock = s => obj[s] = "live"
      BY NoneApart DEF Inv, Placed
    <3>2. s \in Accepted /\ peer[s] = "none" => ~deleted[s] /\ \A p \in Process : at[p].sock # s
      BY <1>1, <2>1, <3>1 DEF Made
    <3> QED BY <2>1, <3>2 DEF Ordered
  <2>6. Entered(s)'
    BY <2>1 DEF Entered, At
  <2> QED BY <2>2, <2>3, <2>4, <2>5, <2>6
<1>4. \A f \in Fd : Owned(f)' /\ Tabled(f)' /\ Exact(f)' /\ Watched(f)'
  BY DEF Inv, Owned, Tabled, Exact, Watched, At
<1>5. ToldOnce'
  BY <1>1 DEF Inv, ToldOnce
<1> QED BY <1>2, <1>3, <1>4, <1>5 DEF Inv

-----------------------------------------------------------------------------
\* What the ways to move on do to the place of a process.
Moves(p) == at' \in [Process -> Place] /\ \A q \in Process : q # p => at'[q] = at[q]

LEMMA Going ==
  ASSUME Inv, NEW p \in Process, NEW label \in PC, Goto(p, label)
  PROVE  /\ Moves(p) /\ at'[p].pc = label /\ at'[p].sock = at[p].sock
         /\ at'[p].then = at[p].then /\ at'[p].inner = at[p].inner
<1> at \in [Process -> Place]
  BY Typed
<1>1. at' = [at EXCEPT ![p] = [at[p] EXCEPT !.pc = label]]
  BY DEF Goto
<1>2. [at[p] EXCEPT !.pc = label] \in Place
  BY DEF Place
<1> QED BY <1>1, <1>2 DEF Moves, Place

LEMMA Entering ==
  ASSUME Inv, NEW p \in Process, NEW label \in PC, NEW s \in Sock \cup {None}, NEW then \in PC,
         Enter(p, label, s, then)
  PROVE  /\ Moves(p) /\ at'[p].pc = label /\ at'[p].sock = s
         /\ at'[p].then = then /\ at'[p].inner = FALSE
<1> at \in [Process -> Place]
  BY Typed
<1> DEFINE w == [Idle EXCEPT !.pc = label, !.sock = s, !.then = then]
<1>1. at' = [at EXCEPT ![p] = w]
  BY DEF Enter
<1>2. w \in Place /\ w.pc = label /\ w.sock = s /\ w.then = then /\ w.inner = FALSE
  BY IdlePlace DEF Place
<1> HIDE DEF w
<1>3. Moves(p) /\ at'[p] = w
  BY <1>1, <1>2 DEF Moves
<1> QED BY <1>2, <1>3

LEMMA Finishing ==
  ASSUME Inv, NEW p \in Process, Finish(p)
  PROVE  Moves(p) /\ at'[p] = Idle
<1> at \in [Process -> Place]
  BY Typed
<1> QED BY IdlePlace DEF Finish, Moves

\* A place outside the halves that run once a socket.
Light(p) ==
    /\ at[p].pc \in {"idle", "accept"} <=> at[p].sock = None
    /\ at[p].then \in Resume /\ ~at[p].inner
    /\ at[p].pc \in {"idle", "accept", "watch", "onconnect", "disconnect", "delete", "post",
                     "readtest", "recv", "read", "writetest", "send", "written"}

LEMMA Returning ==
  ASSUME Inv, NEW p \in Process, at[p].sock # None, Return(p)
  PROVE  /\ Moves(p) /\ Light(p)' /\ at'[p].pc \in Resume /\ at'[p].sock \in {None, at[p].sock}
<1> at \in [Process -> Place]
  BY Typed
<1>1. at[p].then \in Resume
  BY DEF Inv, Placed
<1>2. CASE at[p].then = "idle"
  <2>1. Moves(p) /\ at'[p] = Idle
    BY <1>2, Finishing DEF Return
  <2> QED BY <2>1, IdlePlace DEF Light, Resume
<1>3. CASE at[p].then # "idle"
  <2> DEFINE w == [at[p] EXCEPT !.pc = at[p].then, !.then = "idle", !.inner = FALSE]
  <2>1. at' = [at EXCEPT ![p] = w]
    BY <1>3 DEF Return
  <2>2. w \in Place /\ w.pc = at[p].then /\ w.sock = at[p].sock /\ w.then = "idle" /\ w.inner = FALSE
    BY DEF Place, PC
  <2> HIDE DEF w
  <2>3. Moves(p) /\ at'[p] = w
    BY <2>1, <2>2 DEF Moves
  <2> QED BY <1>1, <1>3, <2>2, <2>3 DEF Light, Resume
<1> QED BY <1>2, <1>3

\* A process outside those halves comes to another place outside them, with a
\* socket that is not its maker's alone, and whatever it did to the epoll set or to
\* an AddSocket is in order.
LEMMA LightSteps ==
  ASSUME Inv, TypeOK', NEW p \in Process, ~Removing(p), ~Deleting(p), Moves(p), Light(p)',
         UNCHANGED <<obj, fd, connected, deleted, told, table, owner, peer, backlog, gc>>,
         closing => closing',
         \A f \in Fd : Exact(f)' /\ Watched(f)',
         \A s \in Sock : Entered(s)',
         at'[p].sock # None =>
            /\ obj[at'[p].sock] = "live"
            /\ \A q \in Process : q # p /\ at[q].pc \in {"dial", "add"} => at[q].sock # at'[p].sock,
         at'[p].pc = "delete" => closing' \/ told[at'[p].sock] = 1 \/ peer[at'[p].sock] = "none",
         \A s \in Sock : held'[s] => held[s] \/ s = at[p].sock
  PROVE  Inv'
<1>1. at'[p] \in Place /\ \A q \in Process : q # p => at'[q] = at[q]
  BY DEF Moves
<1>2. \A q \in Process : at[q] \in Place
  BY Typed
<1>3. \A q \in Process : Placed(q)' /\ Starting(q)' /\ Removes(q)' /\ Deletes(q)'
  <2> SUFFICES ASSUME NEW q \in Process
               PROVE  Placed(q)' /\ Starting(q)' /\ Removes(q)' /\ Deletes(q)'
    OBVIOUS
  <2>1. Placed(q) /\ Starting(q) /\ Removes(q) /\ Deletes(q)
    BY DEF Inv
  <2>2. Placed(q)'
    BY <1>1, <2>1 DEF Placed, Light
  <2>3. Starting(q)'
    BY <1>1, <1>2, <2>1, NoneApart DEF Placed, Starting, Light, Place
  <2>4. Removes(q)'
    BY <1>1, <2>1 DEF Removes, Removing, Light
  <2>5. Deletes(q)'
    BY <1>1, <2>1 DEF Deletes, Deleting, Light
  <2> QED BY <2>2, <2>3, <2>4, <2>5
<1>4. \A s \in Sock : Made(s)' /\ Connection(s)' /\ Dead(s)' /\ Owns(s)' /\ Ordered(s)' /\ Entered(s)'
  <2> SUFFICES ASSUME NEW s \in Sock
               PROVE  Made(s)' /\ Connection(s)' /\ Dead(s)' /\ Owns(s)' /\ Ordered(s)' /\ Entered(s)'
    OBVIOUS
  <2>1. Made(s) /\ Connection(s) /\ Dead(s) /\ Owns(s) /\ Ordered(s) /\ Entered(s) /\ Placed(p)
    BY DEF Inv
  <2>2. Made(s)'
    BY <2>1, NoneApart DEF Made, Placed
  <2>3. Connection(s)'
    BY <1>1, <2>1 DEF Connection, Removing
  <2>4. Dead(s)'
    BY <2>1 DEF Dead
  <2>5. Owns(s)'
    BY <1>1, <2>1 DEF Owns, Deleting
  <2>6. Ordered(s)'
    BY <1>1, <2>1, Typed DEF Ordered
  <2> QED BY <2>2, <2>3, <2>4, <2>5, <2>6
<1>5. \A f \in Fd : Owned(f)' /\ Tabled(f)' /\ Exact(f)' /\ Watched(f)'
  <2> SUFFICES ASSUME NEW f \in Fd PROVE Owned(f)' /\ Tabled(f)' /\ Exact(f)' /\ Watched(f)'
    OBVIOUS
  <2>1. Owned(f) /\ Tabled(f) /\ Exact(f) /\ Watched(f)
    BY DEF Inv
  <2>2. Owned(f)'
    BY <1>1, <2>1 DEF Owned, Light
  <2>3. Tabled(f)'
    BY <1>1, <2>1 DEF Tabled, Removing
  <2> QED BY <2>2, <2>3
<1>6. ToldOnce'
  BY Typed DEF Inv, ToldOnce
<1> QED BY <1>3, <1>4, <1>5, <1>6 DEF Inv

\* The same for a process that leaves alone what is watched, and is in no AddSocket
\* but one that CloseAll has met.
LEMMA LightMoves ==
  ASSUME Inv, TypeOK', NEW p \in Process, ~Removing(p), ~Deleting(p), Moves(p), Light(p)',
         UNCHANGED <<obj, fd, connected, deleted, told, table, owner, peer, backlog, gc>>,
         closing => closing',
         at[p].pc \in {"add", "watch"} => closing',
         \A f \in Fd : (mask'[f] = "none") = (mask[f] = "none"),
         at'[p].sock # None =>
            /\ obj[at'[p].sock] = "live"
            /\ \A q \in Process : q # p /\ at[q].pc \in {"dial", "add"} => at[q].sock # at'[p].sock,
         at'[p].pc = "delete" => closing' \/ told[at'[p].sock] = 1 \/ peer[at'[p].sock] = "none",
         \A s \in Sock : held'[s] => held[s] \/ s = at[p].sock
  PROVE  Inv'
<1>1. \A q \in Process : q # p => at'[q] = at[q]
  BY DEF Moves
<1>2. ASSUME ~closing'
      PROVE  \A q \in Process, s \in Sock :
                /\ At(q, "watch", s) => At(q, "watch", s)'
                /\ At(q, "add", s) => At(q, "add", s)'
  BY <1>1, <1>2 DEF At
<1>3. \A f \in Fd : Exact(f)' /\ Watched(f)'
  BY <1>2, Typed, NoneApart DEF Inv, Exact, Watched
<1>4. \A s \in Sock : Entered(s)'
  BY <1>2 DEF Inv, Entered
<1> QED BY <1>3, <1>4, LightSteps

-----------------------------------------------------------------------------
LEMMA WatchType ==
  ASSUME Inv, NEW f \in Fd, NEW m \in {"IN", "OUT"}, Watch(f, m)
  PROVE  /\ mask' \in [Fd -> {"none", "IN", "OUT"}] /\ ready' \subseteq Fd \cup {Listen}
         /\ mask' = [mask EXCEPT ![f] = m]
BY Typed DEF Watch

LEMMA PeerInv ==
  ASSUME Inv, NEW s \in Sock,
         PeerConnects(s) \/ PeerSends(s) \/ PeerCloses(s) \/ PeerResets(s)
  PROVE  Inv'
<1> USE DEF objects, managers
<1>1. CASE PeerConnects(s)
  <2>1. TypeOK'
    BY <1>1, Typed DEF PeerConnects, TypeOK, Place
  <2> QED BY <1>1, <2>1, Typed, KernelMoves DEF PeerConnects, Inv, Made
<1>2. CASE PeerSends(s)
  <2>1. TypeOK'
    BY <1>2, Typed DEF PeerSends, Edge, TypeOK, Place
  <2> QED BY <1>2, <2>1, KernelMoves DEF PeerSends, Inv, Made
<1>3. CASE PeerCloses(s)
  <2>1. TypeOK'
    BY <1>3, Typed DEF PeerCloses, Edge, TypeOK, Place
  <2> QED BY <1>3, <2>1, Typed, KernelMoves DEF PeerCloses, Inv, Made
<1>4. CASE PeerResets(s)
  <2>1. TypeOK'
    BY <1>4, Typed DEF PeerResets, Edge, TypeOK, Place
  <2> QED BY <1>4, <2>1, Typed, KernelMoves DEF PeerResets, Inv, Made
<1> QED BY <1>1, <1>2, <1>3, <1>4

LEMMA WaitInv ==
  ASSUME Inv, Wait
  PROVE  Inv'
<1>1. TypeOK'
  <2>1. events' \subseteq (Fd \cup {Listen}) \X {"HUP", "IN", "OUT"}
    BY DEF Wait
  <2> QED BY <2>1, Typed DEF Wait, objects, managers, TypeOK, Place
<1> QED BY <1>1, KernelMoves DEF Wait, objects, managers, Inv, Made

-----------------------------------------------------------------------------
\* A socket that is held or in the table is not its maker's alone.
LEMMA Known ==
  ASSUME Inv, NEW s \in Sock, held[s] \/ \E f \in Fd : table[f] = s
  PROVE  \A q \in Process : at[q].pc \in {"dial", "add"} => at[q].sock # s
BY DEF Inv, Starting

LEMMA Alone ==
  ASSUME Inv, NEW p \in Process, NEW q \in Process, q # p, at[p].sock # None,
         at[q].pc \in {"dial", "add"}
  PROVE  at[q].sock # at[p].sock
BY DEF Inv, Starting

\* A process that is in none of the halves that run once.
LEMMA Outside ==
  ASSUME Inv, NEW p \in Process,
         at[p].pc \notin {"disconnect", "remove", "unwatch", "ondisconnect", "close", "queue"}
  PROVE  ~Removing(p) /\ ~Deleting(p) /\ ~at[p].inner
BY DEF Inv, Placed, Removing, Deleting

LEMMA CallInv ==
  ASSUME Inv, NEW t \in Thread, NEW s \in Sock, Send(t, s) \/ CallDisconnect(t, s)
  PROVE  Inv'
<1> USE DEF objects, kernel, managers
<1> t \in Process /\ at[t].pc = "idle"
  BY DEF Process, Send, CallDisconnect
<1>1. at \in [Process -> Place] /\ s # None
  BY Typed, NoneApart
<1>2. Moves(t) /\ Light(t)' /\ at'[t].sock = s /\ at'[t].pc # "delete"
  <2>1. CASE Send(t, s)
    <3> DEFINE w == [Idle EXCEPT !.pc = "post", !.sock = s, !.ev = "OUT"]
    <3>1. w \in Place /\ w.pc = "post" /\ w.sock = s /\ w.then = "idle" /\ w.inner = FALSE
      BY IdlePlace DEF Place, PC
    <3>2. at' = [at EXCEPT ![t] = w]
      BY <2>1 DEF Send
    <3> HIDE DEF w
    <3>3. Moves(t) /\ at'[t] = w
      BY <1>1, <3>1, <3>2 DEF Moves
    <3> QED BY <1>1, <3>1, <3>3 DEF Light, Resume
  <2>2. CASE CallDisconnect(t, s)
    <3>1. "disconnect" \in PC /\ "idle" \in PC
      BY DEF PC
    <3>2. /\ Moves(t) /\ at'[t].pc = "disconnect" /\ at'[t].sock = s
          /\ at'[t].then = "idle" /\ at'[t].inner = FALSE
      BY <1>1, <2>2, <3>1, Entering DEF CallDisconnect
    <3> QED BY <1>1, <3>2 DEF Light, Resume
  <2> QED BY <2>1, <2>2
<1>3. TypeOK'
  <2>1. asked' \in [Sock -> BOOLEAN]
    BY Typed DEF Send, CallDisconnect
  <2> QED BY <1>2, <2>1, Typed DEF Send, CallDisconnect, Moves, TypeOK, Place
<1> QED BY <1>2, <1>3, Outside, Known, LightMoves DEF Send, CallDisconnect

LEMMA CloseAllInv ==
  ASSUME Inv, NEW t \in Thread, NEW f \in Fd, CloseAll(t, f)
  PROVE  Inv'
<1> USE DEF objects, kernel, managers
<1>1. t \in Process /\ table[f] \in Sock /\ obj[table[f]] = "live" /\ table[f] # None
  BY Typed DEF Process, CloseAll, Inv, Tabled
<1>2. Moves(t) /\ Light(t)' /\ at'[t].sock = table[f]
  <2>1. "delete" \in PC /\ "idle" \in PC
    BY DEF PC
  <2>2. /\ Moves(t) /\ at'[t].pc = "delete" /\ at'[t].sock = table[f]
        /\ at'[t].then = "idle" /\ at'[t].inner = FALSE
    BY <1>1, <2>1, Entering DEF CloseAll
  <2> QED BY <1>1, <2>2 DEF Light, Resume
<1>3. TypeOK'
  BY <1>1, <1>2, Typed DEF CloseAll, Moves, TypeOK, Place
<1> QED BY <1>1, <1>2, <1>3, Outside, Known, LightMoves DEF CloseAll

LEMMA TakeInv ==
  ASSUME Inv, NEW e \in events, Take(e)
  PROVE  Inv'
<1> USE DEF objects, kernel, managers
<1>1. Worker \in Process /\ at[Worker].pc = "idle" /\ ~Removing(Worker) /\ ~Deleting(Worker)
  BY Outside DEF Process, Take
<1>2. e[1] \in Fd \cup {Listen} /\ e[2] \in {"HUP", "IN", "OUT"}
  BY Typed
<1>3. events' \subseteq (Fd \cup {Listen}) \X {"HUP", "IN", "OUT"}
  BY Typed DEF Take
<1>4. CASE e[1] = Listen
  <2>1. Moves(Worker) /\ Light(Worker)' /\ at'[Worker].sock = None /\ at'[Worker].pc = "accept"
    BY <1>1, <1>4, Entering DEF Take, Light, Resume, PC
  <2>2. TypeOK'
    BY <1>3, <2>1, Typed DEF Take, Moves, TypeOK, Place
  <2> QED BY <1>1, <2>1, <2>2, LightMoves DEF Take
<1>5. CASE e[1] # Listen /\ table[e[1]] = None
  <2>1. UNCHANGED at
    BY <1>5 DEF Take
  <2>2. TypeOK'
    BY <1>3, <2>1, Typed DEF Take, TypeOK, Place
  <2> QED BY <2>1, <2>2, KernelMoves DEF Take, Inv, Made
<1>6. CASE e[1] # Listen /\ table[e[1]] # None
  <2>1. e[1] \in Fd /\ table[e[1]] \in Sock /\ obj[table[e[1]]] = "live"
    BY <1>2, <1>6, Typed DEF Inv, Tabled
  <2>2. Label(e[2]) \in {"disconnect", "readtest", "writetest"}
    BY <1>2 DEF Label
  <2>3. Label(e[2]) \in PC /\ "idle" \in PC
    BY <2>2 DEF PC
  <2>4. Enter(Worker, Label(e[2]), table[e[1]], "idle")
    BY <1>6 DEF Take
  <2>5. /\ Moves(Worker) /\ at'[Worker].pc = Label(e[2]) /\ at'[Worker].sock = table[e[1]]
        /\ at'[Worker].then = "idle" /\ at'[Worker].inner = FALSE
    BY <1>1, <2>1, <2>3, <2>4, Entering
  <2>6. Light(Worker)' /\ at'[Worker].pc # "delete"
    BY <2>1, <2>2, <2>5, NoneApart DEF Light, Resume
  <2>7. TypeOK'
    BY <1>3, <2>5, Typed DEF Take, Moves, TypeOK, Place
  <2> QED BY <1>1, <2>1, <2>5, <2>6, <2>7, Known, LightMoves DEF Take
<1> QED BY <1>4, <1>5, <1>6

-----------------------------------------------------------------------------
\* A step of a process with its socket, or back from it, outside those halves.
LEMMA OwnMoves ==
  ASSUME Inv, TypeOK', NEW p \in Process, at[p].sock # None, ~Removing(p), ~Deleting(p),
         Moves(p), Light(p)', at'[p].sock \in {None, at[p].sock},
         UNCHANGED <<obj, fd, connected, deleted, told, table, owner, peer, backlog, gc, closing>>,
         at[p].pc \in {"add", "watch"} => closing,
         \A f \in Fd : (mask'[f] = "none") = (mask[f] = "none"),
         at'[p].pc = "delete" => closing \/ told[at[p].sock] = 1 \/ peer[at[p].sock] = "none",
         \A s \in Sock : held'[s] => held[s] \/ s = at[p].sock
  PROVE  Inv'
<1>1. obj[at[p].sock] = "live"
  BY DEF Inv, Placed
<1>2. at'[p].pc = "delete" => at'[p].sock = at[p].sock
  BY DEF Light
<1> QED BY <1>1, <1>2, Alone, LightMoves

\* The place stays light when only the label changes, to one that has a socket.
LEMMA GoingLight ==
  ASSUME Inv, NEW p \in Process, at[p].sock # None, ~at[p].inner,
         NEW label \in {"onconnect", "disconnect", "delete", "post",
                        "readtest", "recv", "read", "writetest", "send", "written"},
         Goto(p, label)
  PROVE  Moves(p) /\ Light(p)' /\ at'[p].pc = label /\ at'[p].sock = at[p].sock
<1>1. label \in PC
  BY DEF PC
<1>2. at[p].then \in Resume
  BY DEF Inv, Placed
<1> QED BY <1>1, <1>2, Going DEF Light

\* Posting says what the event is.
LEMMA PostingLight ==
  ASSUME Inv, NEW p \in Process, at[p].sock # None, ~at[p].inner, NEW k \in {"IN", "OUT"},
         at' = [at EXCEPT ![p].pc = "post", ![p].ev = k]
  PROVE  Moves(p) /\ Light(p)' /\ at'[p].pc = "post" /\ at'[p].sock = at[p].sock
<1> at \in [Process -> Place]
  BY Typed
<1>1. at[p].then \in Resume
  BY DEF Inv, Placed
<1> DEFINE w == [at[p] EXCEPT !.pc = "post", !.ev = k]
<1>2. at' = [at EXCEPT ![p] = w]
  OBVIOUS
<1>3. /\ w \in Place /\ w.pc = "post" /\ w.sock = at[p].sock
      /\ w.then = at[p].then /\ w.inner = at[p].inner
  BY DEF Place, PC
<1> HIDE DEF w
<1>4. Moves(p) /\ at'[p] = w
  BY <1>2, <1>3 DEF Moves
<1> QED BY <1>1, <1>3, <1>4 DEF Light

LEMMA FinishingLight ==
  ASSUME Inv, NEW p \in Process, Finish(p)
  PROVE  Moves(p) /\ Light(p)' /\ at'[p].pc = "idle" /\ at'[p].sock = None
BY Finishing, IdlePlace DEF Light, Resume

\* What every label of the worker and of a call says of its process.
LEMMA Busy ==
  ASSUME Inv, NEW p \in Process, at[p].pc \notin {"idle", "accept"}
  PROVE  /\ at[p].sock \in Sock /\ at[p].sock # None /\ obj[at[p].sock] = "live"
         /\ fd[at[p].sock] \in Fd
<1>1. at[p].sock \in Sock /\ at[p].sock # None /\ obj[at[p].sock] = "live"
  BY Typed, NoneApart DEF Inv, Placed, Place
<1> QED BY <1>1 DEF Inv, Made

LEMMA PostEventInv ==
  ASSUME Inv, NEW p \in Process, PostEvent(p)
  PROVE  Inv'
<1> USE DEF objects, managers
<1>1. at[p].pc = "post" /\ at[p].sock # None /\ fd[at[p].sock] \in Fd /\ ~Removing(p) /\ ~Deleting(p)
  BY Busy, Outside DEF PostEvent
<1>2. Moves(p) /\ Light(p)' /\ at'[p].pc = "idle" /\ at'[p].sock = None
  BY FinishingLight DEF PostEvent
<1>3. /\ mask' \in [Fd -> {"none", "IN", "OUT"}] /\ ready' \subseteq Fd \cup {Listen}
      /\ \A f \in Fd : (mask'[f] = "none") = (mask[f] = "none")
  <2>1. at[p].ev \in {"IN", "OUT"}
    BY Typed DEF Place
  <2> QED BY <1>1, <2>1, Typed, WatchType DEF PostEvent
<1>4. TypeOK'
  BY <1>2, <1>3, Typed DEF PostEvent, Moves, TypeOK, Place
<1> QED BY <1>1, <1>2, <1>3, <1>4, OwnMoves DEF PostEvent

LEMMA TestInv ==
  ASSUME Inv, ReadTest \/ WriteTest
  PROVE  Inv'
<1> USE DEF objects, kernel, managers
<1>1. Worker \in Process /\ at[Worker].pc \in {"readtest", "writetest"}
  BY DEF Process, ReadTest, WriteTest, Test
<1>2. at[Worker].sock # None /\ ~Removing(Worker) /\ ~Deleting(Worker) /\ ~at[Worker].inner
  BY <1>1, Busy, Outside
<1>3. PICK label \in {"recv", "read", "send", "written"} : Goto(Worker, label)
  BY DEF ReadTest, WriteTest, Test
<1>4. /\ Moves(Worker) /\ Light(Worker)' /\ at'[Worker].pc = label
      /\ at'[Worker].sock = at[Worker].sock
  BY <1>1, <1>2, <1>3, GoingLight
<1>5. TypeOK'
  BY <1>4, Typed DEF ReadTest, WriteTest, Test, Moves, TypeOK, Place
<1> QED BY <1>1, <1>2, <1>4, <1>5, OwnMoves DEF ReadTest, WriteTest, Test

LEMMA RecvInv ==
  ASSUME Inv, Recv
  PROVE  Inv'
<1> USE DEF objects, managers
<1> DEFINE s == at[Worker].sock
<1>1. Worker \in Process /\ at[Worker].pc = "recv"
  BY DEF Process, Recv
<1>2. s \in Sock /\ s # None /\ ~Removing(Worker) /\ ~Deleting(Worker) /\ ~at[Worker].inner
  BY <1>1, Busy, Outside
<1>3. /\ Moves(Worker) /\ Light(Worker)' /\ at'[Worker].pc # "delete" /\ at'[Worker].sock = s
  <2>1. CASE Goto(Worker, "read")
    BY <1>1, <1>2, <2>1, GoingLight
  <2>2. CASE Enter(Worker, "disconnect", s, "read")
    <3>1. "disconnect" \in PC /\ "read" \in PC
      BY DEF PC
    <3>2. /\ Moves(Worker) /\ at'[Worker].pc = "disconnect" /\ at'[Worker].sock = s
          /\ at'[Worker].then = "read" /\ at'[Worker].inner = FALSE
      BY <1>1, <1>2, <2>2, <3>1, Entering
    <3> QED BY <1>2, <3>2 DEF Light, Resume
  <2> QED BY <2>1, <2>2 DEF Recv
<1>4. data' \in [Sock -> BOOLEAN] /\ held' \in [Sock -> BOOLEAN] /\ asked' \in [Sock -> BOOLEAN]
  BY Typed DEF Recv
<1>5. \A r \in Sock : held'[r] => held[r] \/ r = s
  BY Typed DEF Recv
<1>6. TypeOK'
  BY <1>3, <1>4, Typed DEF Recv, Moves, TypeOK, Place
<1>7. UNCHANGED <<obj, fd, connected, deleted, told, table, owner, mask, peer, backlog, gc, closing>>
  BY DEF Recv
<1> QED BY <1>1, <1>2, <1>3, <1>5, <1>6, <1>7, OwnMoves

LEMMA WorkInv ==
  ASSUME Inv, Read \/ WriteSend \/ Written
  PROVE  Inv'
<1> USE DEF objects, kernel, managers
<1> DEFINE s == at[Worker].sock
<1>1. Worker \in Process /\ at[Worker].pc \in {"read", "send", "written"}
  BY DEF Process, Read, WriteSend, Written
<1>2. s \in Sock /\ s # None /\ ~Removing(Worker) /\ ~Deleting(Worker) /\ ~at[Worker].inner
  BY <1>1, Busy, Outside
<1>3. /\ Moves(Worker) /\ Light(Worker)' /\ at'[Worker].pc # "delete"
      /\ at'[Worker].sock \in {None, s}
  <2>1. CASE Finish(Worker)
    BY <1>1, <2>1, FinishingLight
  <2>2. CASE Goto(Worker, "written")
    BY <1>1, <1>2, <2>2, GoingLight
  <2>3. CASE Enter(Worker, "disconnect", s, "written")
    <3>1. "disconnect" \in PC /\ "written" \in PC
      BY DEF PC
    <3>2. /\ Moves(Worker) /\ at'[Worker].pc = "disconnect" /\ at'[Worker].sock = s
          /\ at'[Worker].then = "written" /\ at'[Worker].inner = FALSE
      BY <1>1, <1>2, <2>3, <3>1, Entering
    <3> QED BY <1>2, <3>2 DEF Light, Resume
  <2>4. ASSUME NEW k \in {"IN", "OUT"}, at' = [at EXCEPT ![Worker].pc = "post", ![Worker].ev = k]
        PROVE  <1>3
    BY <1>1, <1>2, <2>4, PostingLight
  <2> QED BY <2>1, <2>2, <2>3, <2>4 DEF Read, WriteSend, Written
<1>4. UNCHANGED <<objects, table, kernel, events, managers>>
  BY DEF Read, WriteSend, Written
<1>5. TypeOK'
  BY <1>3, <1>4, Typed DEF Moves, TypeOK, Place
<1> QED BY <1>1, <1>2, <1>3, <1>4, <1>5, OwnMoves

LEMMA OnConnectInv ==
  ASSUME Inv, NEW p \in Process, OnConnect(p)
  PROVE  Inv'
<1> USE DEF objects, kernel, managers
<1>1. at[p].sock \in Sock /\ at[p].sock # None /\ ~Removing(p) /\ ~Deleting(p)
  BY Busy, Outside DEF OnConnect
<1>2. Moves(p) /\ Light(p)' /\ at'[p].pc = "idle" /\ at'[p].sock = None
  BY FinishingLight DEF OnConnect
<1>3. held' \in [Sock -> BOOLEAN] /\ \A r \in Sock : held'[r] => held[r] \/ r = at[p].sock
  BY Typed DEF OnConnect
<1>4. TypeOK'
  BY <1>2, <1>3, Typed DEF OnConnect, Moves, TypeOK, Place
<1> QED BY <1>1, <1>2, <1>3, <1>4, OwnMoves DEF OnConnect

-----------------------------------------------------------------------------
\* The Socket constructor, for a process that has no socket.
LEMMA NewSocket ==
  ASSUME Inv, TypeOK', NEW p \in Process, NEW s \in Sock, NEW f \in Fd,
         at[p].sock = None, obj[s] = "none", New(s, f), Moves(p),
         at'[p].sock = s, at'[p].then = "idle", ~at'[p].inner,
         \/ at'[p].pc = "dial" /\ s \in Dialed /\ UNCHANGED connected
         \/ at'[p].pc = "add" /\ peer[s] # "none" /\ connected' = [connected EXCEPT ![s] = TRUE],
         backlog' \subseteq backlog \ {s},
         UNCHANGED <<deleted, told, held, table, mask, peer, gc, closing>>
  PROVE  Inv'
<1>1. at'[p] \in Place /\ \A q \in Process : q # p => at'[q] = at[q]
  BY DEF Moves
<1>2. \A q \in Process : at[q] \in Place /\ at[q].sock # s
  BY Typed, NoneApart DEF Inv, Placed
<1>3. \A g \in Fd : table[g] # s /\ owner[g] # s
  BY Typed, NoneApart DEF Inv, Tabled, Owned
<1>4. ~connected[s] /\ ~deleted[s] /\ ~held[s] /\ told[s] = 0 /\ s \notin gc
      /\ (s \in Dialed => peer[s] = "none")
  BY DEF Inv, Made
<1>5. /\ owner[f] = None /\ owner' = [owner EXCEPT ![f] = s]
      /\ obj' = [obj EXCEPT ![s] = "live"] /\ fd' = [fd EXCEPT ![s] = f]
  BY DEF New
<1>6. \A r \in Sock : /\ obj'[r] = IF r = s THEN "live" ELSE obj[r]
                      /\ fd'[r] = IF r = s THEN f ELSE fd[r]
                      /\ connected'[r] <=> IF r = s THEN at'[p].pc = "add" ELSE connected[r]
  <2>1. \A r \in Sock : connected'[r] <=> IF r = s THEN at'[p].pc = "add" ELSE connected[r]
    BY <1>4, Typed
  <2> QED BY <1>5, <2>1, Typed
<1>7. \A g \in Fd : owner'[g] = IF g = f THEN s ELSE owner[g]
  BY <1>5, Typed
<1>8. Dialed \cap Accepted = {} /\ backlog \subseteq Accepted
  BY Typed, SocketAssumption
<1>9. /\ ~Deleting(p)'
      /\ \A q \in Process : q # p /\ Deleting(q)' => Deleting(q) /\ at[q].sock \in Sock \ {s}
  BY <1>1, <1>2 DEF Deleting, Inv, Placed, Place
<1>21. \A q \in Process : Placed(q)' /\ Starting(q)' /\ Removes(q)' /\ Deletes(q)'
  <2> SUFFICES ASSUME NEW q \in Process
               PROVE  Placed(q)' /\ Starting(q)' /\ Removes(q)' /\ Deletes(q)'
    OBVIOUS
  <2>1. /\ Placed(q) /\ Starting(q) /\ Removes(q) /\ Deletes(q)
        /\ Placed(p) /\ Starting(p) /\ Removes(p) /\ Deletes(p)
    BY DEF Inv
  <2>2. Placed(q)'
    BY <1>1, <1>2, <1>3, <1>4, <1>6, <1>7, Typed, NoneApart, <2>1 DEF Placed, Resume, Place
  <2>3. Starting(q)'
    BY <1>1, <1>2, <1>3, <1>4, <1>6, <1>7, Typed, NoneApart, <2>1 DEF Starting, Placed, Place
  <2>4. Removes(q)'
    BY <1>1, <1>2, <1>3, <1>4, <1>6, <1>7, Typed, NoneApart, <2>1 DEF Removes, Removing, Placed, Place
  <2>5. Deletes(q)'
    BY <1>1, <1>2, <1>3, <1>4, <1>6, <1>7, Typed, NoneApart, <2>1, <1>9 DEF Deletes, Deleting, Placed
  <2> QED BY <2>2, <2>3, <2>4, <2>5
<1>22. \A r \in Sock : Made(r)' /\ Connection(r)' /\ Dead(r)' /\ Owns(r)' /\ Ordered(r)' /\ Entered(r)'
  <2> SUFFICES ASSUME NEW r \in Sock
               PROVE  Made(r)' /\ Connection(r)' /\ Dead(r)' /\ Owns(r)' /\ Ordered(r)' /\ Entered(r)'
    OBVIOUS
  <2>1. Made(r) /\ Connection(r) /\ Dead(r) /\ Owns(r) /\ Ordered(r) /\ Entered(r)
    BY DEF Inv
  <2>2. Made(r)'
    BY <1>1, <1>2, <1>3, <1>4, <1>6, <1>7, Typed, NoneApart, <2>1, <1>8 DEF Made
  <2>3. Connection(r)'
    BY <1>1, <1>2, <1>3, <1>4, <1>6, <1>7, Typed, NoneApart, <2>1 DEF Connection, Removing
  <2>4. Dead(r)'
    BY <1>1, <1>2, <1>3, <1>4, <1>6, <1>7, Typed, NoneApart, <2>1 DEF Dead
  <2>5. Owns(r)'
    BY <1>1, <1>2, <1>3, <1>4, <1>6, <1>7, Typed, NoneApart, <2>1, <1>5 DEF Owns, Inv, Made
  <2>6. Ordered(r)'
    BY <1>1, <1>2, <1>3, <1>4, <1>6, <1>7, Typed, NoneApart, <2>1 DEF Ordered
  <2>7. Entered(r)'
    BY <1>1, <1>2, <1>3, <1>4, <1>6, <1>7, Typed, NoneApart, <2>1 DEF Entered, At
  <2> QED BY <2>2, <2>3, <2>4, <2>5, <2>6, <2>7
<1>23. \A g \in Fd : Owned(g)' /\ Tabled(g)' /\ Exact(g)' /\ Watched(g)'
  <2> SUFFICES ASSUME NEW g \in Fd PROVE Owned(g)' /\ Tabled(g)' /\ Exact(g)' /\ Watched(g)'
    OBVIOUS
  <2>1. Owned(g) /\ Tabled(g) /\ Exact(g) /\ Watched(g)
    BY DEF Inv
  <2>2. Owned(g)'
    BY <1>1, <1>2, <1>3, <1>4, <1>6, <1>7, Typed, NoneApart, <2>1 DEF Owned
  <2>3. Tabled(g)'
    BY <1>1, <1>2, <1>3, <1>4, <1>6, <1>7, Typed, NoneApart, <2>1 DEF Tabled, Removing
  <2>4. Watched(g)'
    BY <1>7, <2>1, NoneApart DEF Watched
  <2>5. ASSUME ~closing, table[g] # None
        PROVE  /\ owner'[g] = table[g]
               /\ \A q \in Process : At(q, "watch", table[g]) => At(q, "watch", table[g])'
    <3>1. owner[g] = table[g] /\ g # f
      BY <1>5, <2>1, <2>5 DEF Exact
    <3> QED BY <1>1, <1>7, <2>5, <3>1 DEF At
  <2>6. Exact(g)'
    BY <2>1, <2>5 DEF Exact
  <2> QED BY <2>2, <2>3, <2>4, <2>6
<1>24. ToldOnce'
  BY <1>1, <1>2, <1>3, <1>4, <1>6, <1>7, Typed, NoneApart DEF Inv, ToldOnce
<1> QED BY <1>21, <1>22, <1>23, <1>24 DEF Inv

LEMMA OnAcceptInv ==
  ASSUME Inv, OnAccept
  PROVE  Inv'
<1> USE DEF objects, managers
<1>1. Worker \in Process /\ at[Worker].pc = "accept" /\ at[Worker].sock = None
  BY DEF Process, OnAccept, Inv, Placed
<1>2. CASE Finish(Worker) /\ UNCHANGED <<objects, owner, backlog>>
  <2>1. Moves(Worker) /\ Light(Worker)' /\ at'[Worker].pc = "idle" /\ at'[Worker].sock = None
    BY <1>1, <1>2, FinishingLight
  <2>2. TypeOK'
    BY <1>2, <2>1, Typed DEF OnAccept, Moves, TypeOK, Place
  <2> QED BY <1>1, <1>2, <2>1, <2>2, Outside, LightMoves DEF OnAccept
<1>3. ASSUME NEW s \in backlog, NEW f \in Fd, New(s, f), backlog' = backlog \ {s},
             connected' = [connected EXCEPT ![s] = TRUE],
             Enter(Worker, "add", s, "idle"), UNCHANGED <<deleted, held, told, asked>>
      PROVE  Inv'
  <2>1. s \in Sock /\ peer[s] # "none" /\ obj[s] = "none"
    BY Typed DEF Sock, Inv, Made
  <2>2. "add" \in PC /\ "idle" \in PC
    BY DEF PC
  <2>3. /\ Moves(Worker) /\ at'[Worker].pc = "add" /\ at'[Worker].sock = s
        /\ at'[Worker].then = "idle" /\ at'[Worker].inner = FALSE
    BY <1>1, <1>3, <2>1, <2>2, Entering
  <2>4. TypeOK'
    BY <1>3, <2>1, <2>3, Typed DEF OnAccept, New, Moves, TypeOK, Place
  <2> QED BY <1>1, <1>3, <2>1, <2>3, <2>4, NewSocket DEF OnAccept
<1> QED BY <1>2, <1>3 DEF OnAccept

LEMMA DialInv ==
  ASSUME Inv, NEW t \in Thread, NEW s \in Sock, Dial(t, s)
  PROVE  Inv'
<1> USE DEF objects, managers
<1>1. t \in Process /\ at[t].sock = None /\ s \in Dialed /\ obj[s] = "none"
  BY DEF Process, Dial, Inv, Placed
<1>2. PICK f \in Fd : New(s, f)
  BY DEF Dial
<1>3. "dial" \in PC /\ "idle" \in PC
  BY DEF PC
<1>4. /\ Moves(t) /\ at'[t].pc = "dial" /\ at'[t].sock = s
      /\ at'[t].then = "idle" /\ at'[t].inner = FALSE
  BY <1>1, <1>3, Entering DEF Dial
<1>5. backlog' \subseteq backlog \ {s}
  BY <1>1, Typed, SocketAssumption DEF Dial
<1>6. TypeOK'
  BY <1>2, <1>4, Typed DEF Dial, New, Moves, TypeOK, Place
<1> QED BY <1>1, <1>2, <1>4, <1>5, <1>6, NewSocket DEF Dial

-----------------------------------------------------------------------------
\* connect succeeded: the socket is connected, and still its maker's alone.
LEMMA ConnectedInv ==
  ASSUME Inv, TypeOK', NEW p \in Process, NEW s \in Sock, at[p].sock = s, at[p].pc = "dial",
         Moves(p), at'[p].pc = "add", at'[p].sock = s,
         at'[p].then = at[p].then, at'[p].inner = at[p].inner,
         UNCHANGED <<obj, fd, deleted, held, told, table, owner, mask, backlog, gc, closing>>,
         \A r \in Sock : r # s => peer'[r] = peer[r] /\ connected'[r] = connected[r],
         peer'[s] = "up", connected'[s]
  PROVE  Inv'
<1>1. at'[p] \in Place /\ \A q \in Process : q # p => at'[q] = at[q]
  BY DEF Moves
<1>2. /\ s # None /\ obj[s] = "live" /\ ~deleted[s] /\ told[s] = 0 /\ ~held[s] /\ s \in Dialed
      /\ \A q \in Process : at[q] \in Place /\ (q # p => at[q].sock # s)
      /\ \A g \in Fd : table[g] # s
      /\ ~at[p].inner
  BY Typed, NoneApart DEF Inv, Starting, Placed
<1>3. s \notin gc /\ s \notin backlog /\ s \notin Accepted
  BY <1>2, SocketAssumption DEF Inv, Dead, Made
<1>21. \A q \in Process : Placed(q)' /\ Starting(q)' /\ Removes(q)' /\ Deletes(q)'
  <2> SUFFICES ASSUME NEW q \in Process
               PROVE  Placed(q)' /\ Starting(q)' /\ Removes(q)' /\ Deletes(q)'
    OBVIOUS
  <2>1. /\ Placed(q) /\ Starting(q) /\ Removes(q) /\ Deletes(q)
        /\ Placed(p) /\ Starting(p) /\ Removes(p) /\ Deletes(p)
    BY DEF Inv
  <2>2. Placed(q)'
    BY <1>1, <1>2, <1>3, Typed, NoneApart, <2>1 DEF Placed
  <2>3. Starting(q)'
    BY <1>1, <1>2, <1>3, Typed, NoneApart, <2>1 DEF Starting, Placed, Place
  <2>4. Removes(q)'
    BY <1>1, <1>2, <1>3, Typed, NoneApart, <2>1 DEF Removes, Removing, Placed, Place
  <2>5. Deletes(q)'
    BY <1>1, <1>2, <1>3, Typed, NoneApart, <2>1 DEF Deletes, Deleting, Placed, Place
  <2> QED BY <2>2, <2>3, <2>4, <2>5
<1>22. \A r \in Sock : Made(r)' /\ Connection(r)' /\ Dead(r)' /\ Owns(r)' /\ Ordered(r)' /\ Entered(r)'
  <2> SUFFICES ASSUME NEW r \in Sock
               PROVE  Made(r)' /\ Connection(r)' /\ Dead(r)' /\ Owns(r)' /\ Ordered(r)' /\ Entered(r)'
    OBVIOUS
  <2>1. Made(r) /\ Connection(r) /\ Dead(r) /\ Owns(r) /\ Ordered(r) /\ Entered(r)
    BY DEF Inv
  <2>2. Made(r)'
    BY <1>1, <1>2, <1>3, Typed, NoneApart, <2>1 DEF Made
  <2>3. Connection(r)'
    BY <1>1, <1>2, <1>3, Typed, NoneApart, <2>1 DEF Connection, Removing
  <2>4. Dead(r)'
    BY <1>1, <1>2, <1>3, Typed, NoneApart, <2>1 DEF Dead
  <2>5. Owns(r)'
    BY <1>1, <1>2, <1>3, Typed, NoneApart, <2>1 DEF Owns
  <2>6. Ordered(r)'
    BY <1>1, <1>2, <1>3, Typed, NoneApart, <2>1 DEF Ordered
  <2>7. Entered(r)'
    BY <1>1, <1>2, <1>3, Typed, NoneApart, <2>1 DEF Entered, At
  <2> QED BY <2>2, <2>3, <2>4, <2>5, <2>6, <2>7
<1>23. \A g \in Fd : Owned(g)' /\ Tabled(g)' /\ Exact(g)' /\ Watched(g)'
  <2> SUFFICES ASSUME NEW g \in Fd PROVE Owned(g)' /\ Tabled(g)' /\ Exact(g)' /\ Watched(g)'
    OBVIOUS
  <2>1. Owned(g) /\ Tabled(g) /\ Exact(g) /\ Watched(g)
    BY DEF Inv
  <2>2. Owned(g)'
    BY <1>1, <1>2, <1>3, Typed, NoneApart, <2>1 DEF Owned
  <2>3. Tabled(g)'
    BY <1>1, <1>2, <1>3, Typed, NoneApart, <2>1 DEF Tabled, Removing
  <2>4. Exact(g)' /\ Watched(g)'
    BY <1>1, <1>2, <1>3, Typed, NoneApart, <2>1 DEF Exact, Watched, At
  <2> QED BY <2>2, <2>3, <2>4
<1>24. ToldOnce'
  BY <1>1, <1>2, <1>3, Typed, NoneApart DEF Inv, ToldOnce
<1> QED BY <1>21, <1>22, <1>23, <1>24 DEF Inv

-----------------------------------------------------------------------------
LEMMA ConnectInv ==
  ASSUME Inv, NEW p \in Process, Connect(p)
  PROVE  Inv'
<1> USE DEF objects, managers
<1> DEFINE s == at[p].sock
<1>1. /\ s \in Sock /\ s # None /\ obj[s] = "live" /\ at[p].pc = "dial"
      /\ ~Removing(p) /\ ~Deleting(p) /\ ~at[p].inner
  BY Busy, Outside DEF Connect
<1>2. /\ ~deleted[s] /\ told[s] = 0 /\ ~connected[s] /\ s \in Dialed /\ peer[s] = "none"
      /\ \A q \in Process : q # p => at[q].sock # s
      /\ \A g \in Fd : table[g] # s
  BY <1>1 DEF Inv, Starting
<1>3. CASE Goto(p, "delete") /\ UNCHANGED <<peer, connected>>
  <2>1. Moves(p) /\ Light(p)' /\ at'[p].pc = "delete" /\ at'[p].sock = s
    BY <1>1, <1>3, GoingLight
  <2>2. TypeOK'
    BY <1>3, <2>1, Typed DEF Connect, Moves, TypeOK, Place
  <2> QED BY <1>1, <1>2, <1>3, <2>1, <2>2, OwnMoves DEF Connect
<1>4. CASE /\ peer' = [peer EXCEPT ![s] = "up"] /\ connected' = [connected EXCEPT ![s] = TRUE]
           /\ Goto(p, "add")
  <2>1. "add" \in PC
    BY DEF PC
  <2>2. /\ Moves(p) /\ at'[p].pc = "add" /\ at'[p].sock = s
        /\ at'[p].then = at[p].then /\ at'[p].inner = at[p].inner
    BY <1>4, <2>1, Going
  <2>3. TypeOK'
    BY <1>1, <1>4, <2>2, Typed DEF Connect, Moves, TypeOK, Place
  <2>4. /\ UNCHANGED <<obj, fd, deleted, held, told, table, owner, mask, backlog, gc, closing>>
        /\ \A r \in Sock : r # s => peer'[r] = peer[r] /\ connected'[r] = connected[r]
        /\ peer'[s] = "up" /\ connected'[s]
    BY <1>1, <1>4, Typed DEF Connect
  <2> HIDE DEF s
  <2> QED BY <1>1, <1>2, <2>2, <2>3, <2>4, ConnectedInv DEF s
<1> QED BY <1>3, <1>4 DEF Connect

\* AddSocket entered the socket in the table.
LEMMA AddedInv ==
  ASSUME Inv, TypeOK', NEW p \in Process, NEW s \in Sock, at[p].sock = s, at[p].pc = "add",
         Moves(p), at'[p].pc = "watch", at'[p].sock = s,
         at'[p].then = at[p].then, at'[p].inner = at[p].inner,
         UNCHANGED <<objects, owner, mask, peer, backlog, managers>>,
         table[fd[s]] = None, table' = [table EXCEPT ![fd[s]] = s]
  PROVE  Inv'
<1> USE DEF objects, managers
<1>1. at'[p] \in Place /\ \A q \in Process : q # p => at'[q] = at[q]
  BY DEF Moves
<1>2. /\ s # None /\ obj[s] = "live" /\ ~deleted[s] /\ told[s] = 0 /\ ~held[s] /\ connected[s]
      /\ \A q \in Process : at[q] \in Place /\ (q # p => at[q].sock # s)
      /\ ~at[p].inner
  BY Typed, NoneApart DEF Inv, Starting, Placed
<1>3. s \notin gc /\ fd[s] \in Fd /\ owner[fd[s]] = s
  BY <1>2, NoneApart DEF Inv, Dead, Made, Owns
<1>4. \A g \in Fd : table'[g] = IF g = fd[s] THEN s ELSE table[g]
  BY <1>3, Typed
<1>5. ~Deleting(p)' /\ \A q \in Process : q # p => (Deleting(q)' => Deleting(q))
  BY <1>1, <1>2 DEF Deleting
<1>21. \A q \in Process : Placed(q)' /\ Starting(q)' /\ Removes(q)' /\ Deletes(q)'
  <2> SUFFICES ASSUME NEW q \in Process
               PROVE  Placed(q)' /\ Starting(q)' /\ Removes(q)' /\ Deletes(q)'
    OBVIOUS
  <2>1. /\ Placed(q) /\ Starting(q) /\ Removes(q) /\ Deletes(q)
        /\ Placed(p) /\ Starting(p) /\ Removes(p) /\ Deletes(p)
    BY DEF Inv
  <2>2. Placed(q)'
    BY <1>1, <1>2, <1>3, <1>4, Typed, NoneApart, <2>1 DEF Placed
  <2>3. Starting(q)'
    BY <1>1, <1>2, <1>3, <1>4, Typed, NoneApart, <2>1 DEF Starting, Placed, Place
  <2>4. Removes(q)'
    BY <1>1, <1>2, <2>1 DEF Removes, Removing
  <2>5. Deletes(q)'
    BY <1>1, <1>2, <1>3, <1>4, Typed, NoneApart, <2>1, <1>5 DEF Deletes, Deleting, Placed
  <2> QED BY <2>2, <2>3, <2>4, <2>5
<1>22. \A r \in Sock : Made(r)' /\ Connection(r)' /\ Dead(r)' /\ Owns(r)' /\ Ordered(r)' /\ Entered(r)'
  <2> SUFFICES ASSUME NEW r \in Sock
               PROVE  Made(r)' /\ Connection(r)' /\ Dead(r)' /\ Owns(r)' /\ Ordered(r)' /\ Entered(r)'
    OBVIOUS
  <2>1. Made(r) /\ Connection(r) /\ Dead(r) /\ Owns(r) /\ Ordered(r) /\ Entered(r)
    BY DEF Inv
  <2>2. Made(r)'
    BY <1>1, <1>2, <1>3, <1>4, Typed, NoneApart, <2>1 DEF Made
  <2>3. Connection(r)'
    BY <1>1, <1>2, <1>3, <1>4, Typed, NoneApart, <2>1 DEF Connection, Removing
  <2>4. Dead(r)'
    BY <1>1, <1>2, <1>3, <1>4, Typed, NoneApart, <2>1 DEF Dead
  <2>5. Owns(r)'
    BY <1>1, <1>2, <1>3, <1>4, Typed, NoneApart, <2>1 DEF Owns
  <2>6. Ordered(r)'
    BY <1>1, <1>2, <1>3, <1>4, Typed, NoneApart, <2>1 DEF Ordered
  <2>7. Entered(r)'
    <3>1. ASSUME connected[r], r # s
          PROVE  /\ fd[r] \in Fd /\ table[fd[s]] # r
                 /\ \A q \in Process : At(q, "add", r) => At(q, "add", r)'
      BY <1>1, <1>2, <2>1, <3>1, NoneApart DEF Connection, Made, At
    <3>2. table'[fd[r]] = r \/ r # s
      BY <1>3, <1>4
    <3> QED BY <1>4, <2>1, <3>1, <3>2 DEF Entered
  <2> QED BY <2>2, <2>3, <2>4, <2>5, <2>6, <2>7
<1>23. \A g \in Fd : Owned(g)' /\ Tabled(g)' /\ Exact(g)' /\ Watched(g)'
  <2> SUFFICES ASSUME NEW g \in Fd PROVE Owned(g)' /\ Tabled(g)' /\ Exact(g)' /\ Watched(g)'
    OBVIOUS
  <2>1. Owned(g) /\ Tabled(g) /\ Exact(g) /\ Watched(g)
    BY DEF Inv
  <2>2. Owned(g)'
    BY <1>1, <1>2, <1>3, <1>4, Typed, NoneApart, <2>1 DEF Owned
  <2>3. Tabled(g)'
    BY <1>1, <1>2, <1>3, <1>4, Typed, NoneApart, <2>1 DEF Tabled, Removing
  <2>4. Exact(g)' /\ Watched(g)'
    BY <1>1, <1>2, <1>3, <1>4, Typed, NoneApart, <2>1 DEF Exact, Watched, At
  <2> QED BY <2>2, <2>3, <2>4
<1>24. ToldOnce'
  BY <1>1, <1>2, <1>3, <1>4, Typed, NoneApart DEF Inv, ToldOnce
<1> QED BY <1>21, <1>22, <1>23, <1>24 DEF Inv

LEMMA AddSocketInv ==
  ASSUME Inv, NEW p \in Process, AddSocket(p)
  PROVE  Inv'
<1> USE DEF objects, kernel, managers
<1> DEFINE s == at[p].sock
           f == fd[s]
<1>1. /\ s \in Sock /\ s # None /\ obj[s] = "live" /\ f \in Fd /\ at[p].pc = "add"
      /\ ~Removing(p) /\ ~Deleting(p) /\ ~at[p].inner
  BY Busy, Outside DEF AddSocket
<1>2. CASE /\ table[f] # None /\ UNCHANGED table
           /\ at' = [at EXCEPT ![p].pc = "delete", ![p].then = "onconnect"]
  <2> at \in [Process -> Place]
    BY Typed
  <2> DEFINE w == [at[p] EXCEPT !.pc = "delete", !.then = "onconnect"]
  <2>1. at' = [at EXCEPT ![p] = w]
    BY <1>2
  <2>2. /\ w \in Place /\ w.pc = "delete" /\ w.sock = s /\ w.then = "onconnect"
        /\ w.inner = at[p].inner
    BY DEF Place, PC
  <2> HIDE DEF w
  <2>3. Moves(p) /\ at'[p] = w
    BY <2>1, <2>2 DEF Moves
  <2>4. Light(p)' /\ at'[p].sock = s
    BY <1>1, <2>2, <2>3 DEF Light, Resume
  <2>5. closing
    <3>1. table[f] # s /\ ~deleted[s] /\ \A q \in Process : q # p => at[q].sock # s
      BY <1>1 DEF Inv, Starting
    <3>2. owner[f] = s
      BY <1>1, <3>1 DEF Inv, Owns, Dead
    <3> QED BY <1>1, <1>2, <3>1, <3>2 DEF Inv, Exact
  <2>6. TypeOK'
    BY <1>2, <2>3, Typed DEF AddSocket, Moves, TypeOK, Place
  <2> QED BY <1>1, <1>2, <2>3, <2>4, <2>5, <2>6, OwnMoves DEF AddSocket
<1>3. CASE table[f] = None /\ table' = [table EXCEPT ![f] = s] /\ Goto(p, "watch")
  <2>1. "watch" \in PC
    BY DEF PC
  <2>2. /\ Moves(p) /\ at'[p].pc = "watch" /\ at'[p].sock = s
        /\ at'[p].then = at[p].then /\ at'[p].inner = at[p].inner
    BY <1>3, <2>1, Going
  <2>3. TypeOK'
    BY <1>1, <1>3, <2>2, Typed DEF AddSocket, Moves, TypeOK, Place
  <2> QED BY <1>1, <1>3, <2>2, <2>3, AddedInv DEF AddSocket
<1> QED BY <1>2, <1>3 DEF AddSocket

\* AddEvent may come late, and to a number that is another's: it watches only a
\* number that is open, and unwatches none.
LEMMA AddEventInv ==
  ASSUME Inv, NEW p \in Process, AddEvent(p)
  PROVE  Inv'
<1> USE DEF objects, managers
<1>1. PICK s \in Sock : s = at[p].sock /\ s # None /\ fd[s] \in Fd /\ obj[s] = "live"
  BY Busy DEF AddEvent
<1>2. at[p].pc = "watch" /\ ~Removing(p) /\ ~Deleting(p) /\ ~at[p].inner
  BY Outside DEF AddEvent
<1>3. Moves(p) /\ Light(p)' /\ at'[p].pc = "onconnect" /\ at'[p].sock = s
  BY <1>1, <1>2, GoingLight DEF AddEvent
<1>4. /\ mask' \in [Fd -> {"none", "IN", "OUT"}] /\ ready' \subseteq Fd \cup {Listen}
      /\ \A g \in Fd : mask'[g] # "none" => mask[g] # "none" \/ owner[g] # None
      /\ \A g \in Fd : mask[g] # "none" => mask'[g] # "none"
      /\ owner[fd[s]] # None => mask'[fd[s]] # "none"
  <2>1. CASE owner[fd[s]] # None /\ mask[fd[s]] = "none"
    <3>1. PICK m \in {"IN", "OUT"} : Watch(fd[s], m)
      BY <1>1, <2>1 DEF AddEvent
    <3>2. /\ mask' \in [Fd -> {"none", "IN", "OUT"}] /\ ready' \subseteq Fd \cup {Listen}
          /\ mask' = [mask EXCEPT ![fd[s]] = m]
      BY <1>1, <3>1, WatchType
    <3> QED BY <1>1, <2>1, <3>2, Typed
  <2>2. CASE ~(owner[fd[s]] # None /\ mask[fd[s]] = "none")
    BY <1>1, <2>2, Typed DEF AddEvent
  <2> QED BY <2>1, <2>2
<1>5. UNCHANGED <<obj, fd, connected, deleted, held, told, asked, table, owner, peer, backlog, gc, closing>>
  BY DEF AddEvent
<1>6. TypeOK'
  BY <1>3, <1>4, Typed DEF AddEvent, Moves, TypeOK, Place
<1>7. \A q \in Process, r \in Sock :
         /\ At(q, "add", r) => At(q, "add", r)'
         /\ At(q, "watch", r) => At(q, "watch", r)' \/ r = s
  BY <1>1, <1>2, <1>3 DEF At, Moves
<1>8. \A g \in Fd : Exact(g)' /\ Watched(g)'
  <2> SUFFICES ASSUME NEW g \in Fd PROVE Exact(g)' /\ Watched(g)'
    OBVIOUS
  <2>1. Exact(g) /\ Watched(g) /\ Tabled(g)
    BY DEF Inv
  <2>2. Watched(g)'
    BY <1>4, <1>5, <2>1 DEF Watched
  <2>3. ASSUME table[g] # None, ~closing
        PROVE  owner[g] = table[g]
               /\ (mask'[g] # "none" \/ \E q \in Process : At(q, "watch", table[g])')
    <3>1. owner[g] = table[g] /\ fd[table[g]] = g /\ table[g] \in Sock
      BY <2>1, <2>3, Typed DEF Exact, Tabled
    <3>2. CASE table[g] = s
      BY <1>1, <1>4, <3>1, <3>2
    <3>3. CASE table[g] # s
      <4>1. mask[g] # "none" \/ \E q \in Process : At(q, "watch", table[g])
        BY <2>1, <2>3 DEF Exact
      <4>2. \A q \in Process : At(q, "watch", table[g]) => At(q, "watch", table[g])'
        BY <1>5, <1>7, <3>1, <3>3 DEF At
      <4>3. mask'[g] # "none" \/ \E q \in Process : At(q, "watch", table[g])'
        BY <1>4, <4>1, <4>2
      <4> QED BY <3>1, <4>3
    <3> QED BY <3>1, <3>2, <3>3
  <2>4. Exact(g)'
    BY <1>5, <2>3 DEF Exact
  <2> QED BY <2>2, <2>4
<1>9. \A r \in Sock : Entered(r)'
  BY <1>5, <1>7 DEF Inv, Entered
<1>10. \A q \in Process : q # p /\ at[q].pc \in {"dial", "add"} => at[q].sock # s
  BY <1>1, Alone
<1> QED BY <1>1, <1>2, <1>3, <1>5, <1>6, <1>8, <1>9, <1>10, LightSteps

-----------------------------------------------------------------------------
\* Disconnect found the socket connected: the half that runs once begins.
LEMMA DisconnectsInv ==
  ASSUME Inv, TypeOK', NEW p \in Process, NEW s \in Sock, at[p].sock = s,
         at[p].pc = "disconnect", connected[s],
         Moves(p), at'[p].pc = "remove", at'[p].sock = s,
         at'[p].then = at[p].then, at'[p].inner = at[p].inner,
         connected' = [connected EXCEPT ![s] = FALSE],
         UNCHANGED <<obj, fd, deleted, held, told, table, owner, mask, peer, backlog, gc, closing>>
  PROVE  Inv'
<1>1. at'[p] \in Place /\ \A q \in Process : q # p => at'[q] = at[q]
  BY DEF Moves
<1>2. /\ s # None /\ obj[s] = "live" /\ told[s] = 0 /\ peer[s] # "none"
      /\ \A q \in Process : at[q] \in Place /\ (Removing(q) => at[q].sock # s)
      /\ \A q \in Process : at[q].pc \in {"dial", "add"} => at[q].sock # s
  BY Typed, NoneApart DEF Inv, Connection, Removes, Starting
<1>3. ~connected'[s] /\ \A r \in Sock : r # s => connected'[r] = connected[r]
  BY Typed
<1>4. \A q \in Process :
         /\ at'[q].sock = at[q].sock /\ (Deleting(q)' => Deleting(q) /\ at[q].sock \in Sock)
         /\ at'[q].pc \in {"close", "queue"} => at[q].pc \in {"close", "queue"}
  BY <1>1, <1>2 DEF Deleting, Inv, Placed, Place
<1>21. \A q \in Process : Placed(q)' /\ Starting(q)' /\ Removes(q)' /\ Deletes(q)'
  <2> SUFFICES ASSUME NEW q \in Process
               PROVE  Placed(q)' /\ Starting(q)' /\ Removes(q)' /\ Deletes(q)'
    OBVIOUS
  <2>1. /\ Placed(q) /\ Starting(q) /\ Removes(q) /\ Deletes(q)
        /\ Placed(p) /\ Starting(p) /\ Removes(p) /\ Deletes(p)
    BY DEF Inv
  <2>2. Placed(q)'
    BY <1>1, <1>2, <1>3, Typed, NoneApart, <2>1 DEF Placed
  <2>3. Starting(q)'
    BY <1>1, <1>2, <1>3, Typed, NoneApart, <2>1 DEF Starting, Placed, Place
  <2>4. Removes(q)'
    BY <1>1, <1>2, <1>3, Typed, NoneApart, <2>1 DEF Removes, Removing, Placed, Place
  <2>5. Deletes(q)'
    BY <1>1, <1>2, <1>3, Typed, NoneApart, <2>1, <1>4 DEF Deletes, Deleting, Placed
  <2> QED BY <2>2, <2>3, <2>4, <2>5
<1>22. \A r \in Sock : Made(r)' /\ Connection(r)' /\ Dead(r)' /\ Owns(r)' /\ Ordered(r)' /\ Entered(r)'
  <2> SUFFICES ASSUME NEW r \in Sock
               PROVE  Made(r)' /\ Connection(r)' /\ Dead(r)' /\ Owns(r)' /\ Ordered(r)' /\ Entered(r)'
    OBVIOUS
  <2>1. Made(r) /\ Connection(r) /\ Dead(r) /\ Owns(r) /\ Ordered(r) /\ Entered(r)
    BY DEF Inv
  <2>2. Made(r)'
    BY <1>1, <1>2, <1>3, Typed, NoneApart, <2>1 DEF Made
  <2>3. Connection(r)'
    BY <1>1, <1>2, <1>3, Typed, NoneApart, <2>1 DEF Connection, Removing
  <2>4. Dead(r)'
    BY <1>1, <1>2, <1>3, Typed, NoneApart, <2>1 DEF Dead
  <2>5. Owns(r)'
    BY <1>1, <1>2, <1>3, Typed, NoneApart, <2>1 DEF Owns
  <2>6. Ordered(r)'
    BY <1>1, <1>2, <1>3, Typed, NoneApart, <2>1 DEF Ordered
  <2>7. Entered(r)'
    BY <1>1, <1>2, <1>3, Typed, NoneApart, <2>1 DEF Entered, At
  <2> QED BY <2>2, <2>3, <2>4, <2>5, <2>6, <2>7
<1>23. \A g \in Fd : Owned(g)' /\ Tabled(g)' /\ Exact(g)' /\ Watched(g)'
  <2> SUFFICES ASSUME NEW g \in Fd PROVE Owned(g)' /\ Tabled(g)' /\ Exact(g)' /\ Watched(g)'
    OBVIOUS
  <2>1. Owned(g) /\ Tabled(g) /\ Exact(g) /\ Watched(g)
    BY DEF Inv
  <2>2. Owned(g)'
    BY <1>1, <1>2, <1>3, Typed, NoneApart, <2>1 DEF Owned
  <2>3. Tabled(g)'
    BY <1>1, <1>2, <1>3, Typed, NoneApart, <2>1 DEF Tabled, Removing
  <2>4. Exact(g)' /\ Watched(g)'
    BY <1>1, <1>2, <1>3, Typed, NoneApart, <2>1 DEF Exact, Watched, At
  <2> QED BY <2>2, <2>3, <2>4
<1>24. ToldOnce'
  BY <1>1, <1>2, <1>3, Typed, NoneApart DEF Inv, ToldOnce
<1> QED BY <1>21, <1>22, <1>23, <1>24 DEF Inv

\* Delete goes on to close the socket it has disconnected.
LEMMA ClosesNextInv ==
  ASSUME Inv, TypeOK', NEW p \in Process, NEW s \in Sock, at[p].sock = s,
         at[p].pc = "disconnect", at[p].inner, ~connected[s],
         Moves(p), at'[p].pc = "close", at'[p].sock = s,
         at'[p].then = at[p].then, at'[p].inner = at[p].inner,
         UNCHANGED <<objects, table, owner, mask, peer, backlog, managers>>
  PROVE  Inv'
<1> USE DEF objects, managers
<1>1. at'[p] \in Place /\ \A q \in Process : q # p => at'[q] = at[q]
  BY DEF Moves
<1>2. s # None /\ \A q \in Process : at[q] \in Place
  BY Typed, NoneApart
<1>21. \A q \in Process : Placed(q)' /\ Starting(q)' /\ Removes(q)' /\ Deletes(q)'
  <2> SUFFICES ASSUME NEW q \in Process
               PROVE  Placed(q)' /\ Starting(q)' /\ Removes(q)' /\ Deletes(q)'
    OBVIOUS
  <2>1. /\ Placed(q) /\ Starting(q) /\ Removes(q) /\ Deletes(q)
        /\ Placed(p) /\ Starting(p) /\ Removes(p) /\ Deletes(p)
    BY DEF Inv
  <2>2. Placed(q)'
    BY <1>1, <1>2, Typed, NoneApart, <2>1 DEF Placed
  <2>3. Starting(q)'
    BY <1>1, <1>2, Typed, NoneApart, <2>1 DEF Starting, Placed, Place
  <2>4. Removes(q)'
    BY <1>1, <1>2, Typed, NoneApart, <2>1 DEF Removes, Removing, Placed, Place
  <2>5. Deletes(q)'
    BY <1>1, <1>2, Typed, NoneApart, <2>1 DEF Deletes, Deleting, Placed, Place
  <2> QED BY <2>2, <2>3, <2>4, <2>5
<1>22. \A r \in Sock : Made(r)' /\ Connection(r)' /\ Dead(r)' /\ Owns(r)' /\ Ordered(r)' /\ Entered(r)'
  <2> SUFFICES ASSUME NEW r \in Sock
               PROVE  Made(r)' /\ Connection(r)' /\ Dead(r)' /\ Owns(r)' /\ Ordered(r)' /\ Entered(r)'
    OBVIOUS
  <2>1. Made(r) /\ Connection(r) /\ Dead(r) /\ Owns(r) /\ Ordered(r) /\ Entered(r)
    BY DEF Inv
  <2>2. Made(r)'
    BY <1>1, <1>2, Typed, NoneApart, <2>1 DEF Made
  <2>3. Connection(r)'
    BY <1>1, <1>2, Typed, NoneApart, <2>1 DEF Connection, Removing
  <2>4. Dead(r)'
    BY <1>1, <1>2, Typed, NoneApart, <2>1 DEF Dead
  <2>5. Owns(r)'
    BY <1>1, <1>2, Typed, NoneApart, <2>1 DEF Owns
  <2>6. Ordered(r)'
    BY <1>1, <1>2, Typed, NoneApart, <2>1 DEF Ordered
  <2>7. Entered(r)'
    BY <1>1, <1>2, Typed, NoneApart, <2>1 DEF Entered, At
  <2> QED BY <2>2, <2>3, <2>4, <2>5, <2>6, <2>7
<1>23. \A g \in Fd : Owned(g)' /\ Tabled(g)' /\ Exact(g)' /\ Watched(g)'
  <2> SUFFICES ASSUME NEW g \in Fd PROVE Owned(g)' /\ Tabled(g)' /\ Exact(g)' /\ Watched(g)'
    OBVIOUS
  <2>1. Owned(g) /\ Tabled(g) /\ Exact(g) /\ Watched(g)
    BY DEF Inv
  <2>2. Owned(g)'
    BY <1>1, <1>2, Typed, NoneApart, <2>1 DEF Owned
  <2>3. Tabled(g)'
    BY <1>1, <1>2, Typed, NoneApart, <2>1 DEF Tabled, Removing
  <2>4. Exact(g)' /\ Watched(g)'
    BY <1>1, <1>2, Typed, NoneApart, <2>1 DEF Exact, Watched, At
  <2> QED BY <2>2, <2>3, <2>4
<1>24. ToldOnce'
  BY <1>1, <1>2, Typed, NoneApart DEF Inv, ToldOnce
<1> QED BY <1>21, <1>22, <1>23, <1>24 DEF Inv

LEMMA DisconnectInv ==
  ASSUME Inv, NEW p \in Process, Disconnect(p)
  PROVE  Inv'
<1> USE DEF objects, kernel, managers
<1> DEFINE s == at[p].sock
<1>1. s \in Sock /\ s # None /\ at[p].pc = "disconnect" /\ "remove" \in PC /\ "close" \in PC
  BY Busy DEF Disconnect, PC
<1>2. connected' = [connected EXCEPT ![s] = FALSE] /\ connected' \in [Sock -> BOOLEAN]
  BY Typed DEF Disconnect
<1>3. CASE connected[s]
  <2>1. /\ Moves(p) /\ at'[p].pc = "remove" /\ at'[p].sock = s
        /\ at'[p].then = at[p].then /\ at'[p].inner = at[p].inner
    BY <1>1, <1>3, Going DEF Disconnect
  <2>2. TypeOK'
    BY <1>2, <2>1, Typed DEF Disconnect, Moves, TypeOK, Place
  <2> QED BY <1>1, <1>2, <1>3, <2>1, <2>2, DisconnectsInv DEF Disconnect
<1>4. ASSUME ~connected[s] PROVE connected' = connected
  BY <1>2, <1>4, Typed
<1>5. CASE ~connected[s] /\ at[p].inner
  <2>1. /\ Moves(p) /\ at'[p].pc = "close" /\ at'[p].sock = s
        /\ at'[p].then = at[p].then /\ at'[p].inner = at[p].inner
    BY <1>1, <1>5, Going DEF Disconnect
  <2>2. TypeOK'
    BY <1>2, <2>1, Typed DEF Disconnect, Moves, TypeOK, Place
  <2> QED BY <1>1, <1>4, <1>5, <2>1, <2>2, ClosesNextInv DEF Disconnect
<1>6. CASE ~connected[s] /\ ~at[p].inner
  <2>1. Moves(p) /\ Light(p)' /\ at'[p].pc \in Resume /\ at'[p].sock \in {None, s}
    BY <1>1, <1>6, Returning DEF Disconnect
  <2>2. TypeOK'
    BY <1>2, <2>1, Typed DEF Disconnect, Moves, TypeOK, Place
  <2>3. ~Removing(p) /\ ~Deleting(p) /\ at'[p].pc # "delete"
    BY <1>1, <1>6, <2>1 DEF Removing, Deleting, Resume
  <2> QED BY <1>1, <1>4, <1>6, <2>1, <2>2, <2>3, OwnMoves DEF Disconnect
<1> QED BY <1>3, <1>5, <1>6

-----------------------------------------------------------------------------
\* The steps of RemoveSocket leave the socket in no entry of the table, and unwatch
\* no number but one without an entry, unless CloseAll has been called.
TakenOut(s) ==
    /\ \A g \in Fd : table'[g] = table[g] \/ (table[g] = s /\ table'[g] = None)
    /\ \A g \in Fd : table'[g] # s
    /\ \A g \in Fd : mask'[g] = mask[g] \/ (mask'[g] = "none" /\ (~closing => table[g] = None))

LEMMA RemovesInv ==
  ASSUME Inv, TypeOK', NEW p \in Process, NEW s \in Sock,
         at[p].sock = s, s # None, obj[s] = "live", at[p].pc \in {"remove", "unwatch"},
         Moves(p), at'[p].pc \in {"unwatch", "ondisconnect"}, at'[p].sock = s,
         at'[p].then = at[p].then, at'[p].inner = at[p].inner,
         TakenOut(s),
         UNCHANGED <<obj, fd, connected, deleted, held, told, asked, owner, peer, backlog, gc, closing>>
  PROVE  Inv'
<1>1. at[p].sock = s /\ s # None /\ obj[s] = "live" /\ at[p].pc \in {"remove", "unwatch"}
  OBVIOUS
<1>3. /\ at'[p].pc \in {"unwatch", "ondisconnect"} /\ at'[p].sock = s
      /\ at'[p].then = at[p].then /\ at'[p].inner = at[p].inner
  OBVIOUS
<1>4. /\ \A g \in Fd : table'[g] = table[g] \/ (table[g] = s /\ table'[g] = None)
      /\ \A g \in Fd : table'[g] # s
      /\ \A g \in Fd : mask'[g] = mask[g] \/ (mask'[g] = "none" /\ (~closing => table[g] = None))
  BY DEF TakenOut
<1>5. UNCHANGED <<obj, fd, connected, deleted, held, told, asked, owner, peer, backlog, gc, closing>>
  OBVIOUS
<1>7. at'[p] \in Place /\ \A q \in Process : q # p => at'[q] = at[q]
  BY DEF Moves
<1>8. /\ \A q \in Process : at[q] \in Place
      /\ ~connected[s] /\ told[s] = 0 /\ peer[s] # "none"
  BY <1>1, Typed, NoneApart DEF Inv, Removes, Removing
<1>21. \A q \in Process : Placed(q)' /\ Starting(q)' /\ Removes(q)' /\ Deletes(q)'
  <2> SUFFICES ASSUME NEW q \in Process
               PROVE  Placed(q)' /\ Starting(q)' /\ Removes(q)' /\ Deletes(q)'
    OBVIOUS
  <2>1. /\ Placed(q) /\ Starting(q) /\ Removes(q) /\ Deletes(q)
        /\ Placed(p) /\ Starting(p) /\ Removes(p) /\ Deletes(p)
    BY DEF Inv
  <2>2. Placed(q)'
    BY <1>1, <1>3, <1>4, <1>5, <1>7, <1>8, Typed, NoneApart, <2>1 DEF Placed
  <2>3. Starting(q)'
    <3>1. CASE q = p \/ at[q].pc \notin {"dial", "add"}
      BY <1>3, <1>7, <3>1 DEF Starting
    <3>2. CASE q # p /\ at[q].pc \in {"dial", "add"}
      <4>1. at'[q] = at[q] /\ at[q].sock # None /\ \A u \in Process : at'[u].sock = at[u].sock
        BY <1>1, <1>3, <1>7, <2>1, <3>2 DEF Placed
      <4>2. \A g \in Fd : table'[g] # at[q].sock
        BY <1>4, <2>1, <3>2, <4>1 DEF Starting
      <4> QED BY <1>5, <2>1, <3>2, <4>1, <4>2 DEF Starting
    <3> QED BY <3>1, <3>2
  <2>4. Removes(q)'
    BY <1>1, <1>3, <1>4, <1>5, <1>7, <1>8, Typed, NoneApart, <2>1 DEF Removes, Removing, Placed, Place
  <2>5. Deletes(q)'
    BY <1>1, <1>3, <1>4, <1>5, <1>7, <1>8, Typed, NoneApart, <2>1 DEF Deletes, Deleting, Placed, Place
  <2> QED BY <2>2, <2>3, <2>4, <2>5
<1>22. \A r \in Sock : Made(r)' /\ Connection(r)' /\ Dead(r)' /\ Owns(r)' /\ Ordered(r)' /\ Entered(r)'
  <2> SUFFICES ASSUME NEW r \in Sock
               PROVE  Made(r)' /\ Connection(r)' /\ Dead(r)' /\ Owns(r)' /\ Ordered(r)' /\ Entered(r)'
    OBVIOUS
  <2>1. Made(r) /\ Connection(r) /\ Dead(r) /\ Owns(r) /\ Ordered(r) /\ Entered(r)
    BY DEF Inv
  <2>2. Made(r)'
    BY <1>1, <1>3, <1>4, <1>5, <1>7, <1>8, Typed, NoneApart, <2>1 DEF Made
  <2>3. Connection(r)'
    BY <1>1, <1>3, <1>4, <1>5, <1>7, <1>8, Typed, NoneApart, <2>1 DEF Connection, Removing
  <2>4. Dead(r)'
    BY <1>1, <1>3, <1>4, <1>5, <1>7, <1>8, Typed, NoneApart, <2>1 DEF Dead
  <2>5. Owns(r)'
    BY <1>1, <1>3, <1>4, <1>5, <1>7, <1>8, Typed, NoneApart, <2>1 DEF Owns
  <2>6. Ordered(r)'
    BY <1>1, <1>3, <1>4, <1>5, <1>7, <1>8, Typed, NoneApart, <2>1 DEF Ordered
  <2>7. Entered(r)'
    <3>1. ASSUME connected[r], ~closing
          PROVE  /\ r # s /\ fd[r] \in Fd
                 /\ \A q \in Process : At(q, "add", r) => At(q, "add", r)'
      BY <1>1, <1>7, <1>8, <2>1, <3>1 DEF Connection, Made, At
    <3>2. ASSUME connected[r], ~closing
          PROVE  table[fd[r]] = r => table'[fd[r]] = r
      BY <1>4, <3>1, <3>2
    <3> QED BY <1>5, <2>1, <3>1, <3>2 DEF Entered
  <2> QED BY <2>2, <2>3, <2>4, <2>5, <2>6, <2>7
<1>23. \A g \in Fd : Owned(g)' /\ Tabled(g)' /\ Exact(g)' /\ Watched(g)'
  <2> SUFFICES ASSUME NEW g \in Fd PROVE Owned(g)' /\ Tabled(g)' /\ Exact(g)' /\ Watched(g)'
    OBVIOUS
  <2>1. Owned(g) /\ Tabled(g) /\ Exact(g) /\ Watched(g)
    BY DEF Inv
  <2>2. Owned(g)'
    BY <1>1, <1>3, <1>4, <1>5, <1>7, <1>8, Typed, NoneApart, <2>1 DEF Owned
  <2>3. Tabled(g)'
    BY <1>1, <1>3, <1>4, <1>5, <1>7, <1>8, Typed, NoneApart, <2>1 DEF Tabled, Removing
  <2>4. Exact(g)' /\ Watched(g)'
    BY <1>1, <1>3, <1>4, <1>5, <1>7, <1>8, Typed, NoneApart, <2>1 DEF Exact, Watched, At
  <2> QED BY <2>2, <2>3, <2>4
<1>24. ToldOnce'
  BY <1>1, <1>3, <1>4, <1>5, <1>7, <1>8, Typed, NoneApart DEF Inv, ToldOnce
<1> QED BY <1>21, <1>22, <1>23, <1>24 DEF Inv

LEMMA RemoveSocketInv ==
  ASSUME Inv, NEW p \in Process, RemoveSocket(p)
  PROVE  Inv'
<1> USE DEF objects, kernel, managers
<1>1. PICK s \in Sock : s = at[p].sock /\ s # None /\ fd[s] \in Fd /\ obj[s] = "live"
  BY Busy DEF RemoveSocket
<1>2. at[p].pc = "remove" /\ "ondisconnect" \in PC /\ "unwatch" \in PC
  BY DEF RemoveSocket, PC
<1>3. /\ Moves(p) /\ at'[p].pc \in {"unwatch", "ondisconnect"} /\ at'[p].sock = s
      /\ at'[p].then = at[p].then /\ at'[p].inner = at[p].inner
  BY <1>1, <1>2, Going DEF RemoveSocket
<1>4. /\ \A g \in Fd : table'[g] = IF g = fd[s] /\ table[g] = s THEN None ELSE table[g]
      /\ table' \in [Fd -> Sock \cup {None}]
  BY <1>1, Typed DEF RemoveSocket
<1>5. \A g \in Fd : table'[g] # s
  BY <1>1, <1>4, NoneApart DEF Inv, Tabled
<1>6. TypeOK'
  BY <1>3, <1>4, Typed DEF RemoveSocket, Moves, TypeOK, Place
<1>7. UNCHANGED <<obj, fd, connected, deleted, held, told, asked, owner, mask, peer, backlog, gc, closing>>
  BY DEF RemoveSocket
<1>8. TakenOut(s)
  BY <1>4, <1>5, <1>7 DEF TakenOut
<1>9. /\ at[p].sock = s /\ at[p].pc \in {"remove", "unwatch"}
  BY <1>1, <1>2
<1>10. UNCHANGED <<obj, fd, connected, deleted, held, told, asked, owner, peer, backlog, gc, closing>>
  BY <1>7
<1> HIDE DEF objects, kernel, managers
<1> QED BY <1>1, <1>3, <1>6, <1>8, <1>9, <1>10, RemovesInv

\* Until CloseAll is called nobody closes a descriptor whose socket is still being
\* disconnected: the number RemoveSocket unwatches is its own, and has no entry.
LEMMA RemoveEventInv ==
  ASSUME Inv, NEW p \in Process, RemoveEvent(p)
  PROVE  Inv'
<1> USE DEF objects, managers
<1>1. PICK s \in Sock : s = at[p].sock /\ s # None /\ fd[s] \in Fd /\ obj[s] = "live"
  BY Busy DEF RemoveEvent
<1>2. at[p].pc = "unwatch" /\ "ondisconnect" \in PC /\ Removing(p)
  BY DEF RemoveEvent, PC, Removing
<1>3. /\ Moves(p) /\ at'[p].pc = "ondisconnect" /\ at'[p].sock = s
      /\ at'[p].then = at[p].then /\ at'[p].inner = at[p].inner
  BY <1>1, <1>2, Going DEF RemoveEvent
<1>4. /\ ~connected[s] /\ told[s] = 0 /\ peer[s] # "none"
      /\ \A q \in Process : at[q].pc = "remove" => at[q].sock # s
  BY <1>1, <1>2, Typed DEF Inv, Removes, Removing
<1>5. \A g \in Fd : table[g] # s
  BY <1>1, <1>4 DEF Inv, Tabled
<1>6. ~closing => table[fd[s]] = None
  <2>1. ~closing => ~deleted[s]
    BY <1>4 DEF Inv, Ordered
  <2>2. ~closing => s \notin gc /\ \A q \in Process : at[q].pc = "queue" => at[q].sock # s
    BY <2>1 DEF Inv, Dead, Deletes, Deleting
  <2>3. ~closing => owner[fd[s]] = s
    BY <1>1, <2>2 DEF Inv, Owns
  <2> QED BY <1>1, <1>5, <2>3 DEF Inv, Exact
<1>7. /\ \A g \in Fd : mask'[g] = IF g = fd[s] THEN "none" ELSE mask[g]
      /\ mask' \in [Fd -> {"none", "IN", "OUT"}] /\ ready' \subseteq Fd \cup {Listen}
  BY <1>1, Typed DEF RemoveEvent, Forget
<1>8. TypeOK'
  BY <1>3, <1>7, Typed DEF RemoveEvent, Moves, TypeOK, Place
<1>9. UNCHANGED <<obj, fd, connected, deleted, held, told, asked, table, owner, peer, backlog, gc, closing>>
  BY DEF RemoveEvent
<1>10. TakenOut(s)
  BY <1>5, <1>6, <1>7, <1>9 DEF TakenOut
<1>12. /\ at[p].sock = s /\ at[p].pc \in {"remove", "unwatch"}
       /\ at'[p].pc \in {"unwatch", "ondisconnect"}
  BY <1>1, <1>2, <1>3
<1>13. UNCHANGED <<obj, fd, connected, deleted, held, told, asked, owner, peer, backlog, gc, closing>>
  BY <1>9
<1> HIDE DEF objects, managers
<1> QED BY <1>1, <1>3, <1>8, <1>10, <1>12, <1>13, RemovesInv

-----------------------------------------------------------------------------
\* OnDisconnect ends the half of Disconnect that runs once.
LEMMA OnDisconnectInv ==
  ASSUME Inv, NEW p \in Process, OnDisconnect(p)
  PROVE  Inv'
<1> USE DEF objects, kernel, managers
<1>1. PICK s \in Sock : s = at[p].sock /\ s # None /\ obj[s] = "live"
  BY Busy DEF OnDisconnect
<1>2. at[p].pc = "ondisconnect" /\ "close" \in PC
  BY DEF OnDisconnect, PC
<1>3. /\ Moves(p)
      /\ \/ at[p].inner /\ at'[p].pc = "close" /\ at'[p].sock = s
            /\ at'[p].then = at[p].then /\ at'[p].inner = at[p].inner
         \/ ~at[p].inner /\ Light(p)' /\ at'[p].sock \in {None, s}
  <2>1. CASE at[p].inner
    BY <1>1, <1>2, <2>1, Going DEF OnDisconnect
  <2>2. CASE ~at[p].inner /\ deleted[s]
    BY <1>1, <1>2, <2>2, Returning DEF OnDisconnect
  <2>3. CASE ~at[p].inner /\ ~deleted[s]
    BY <1>1, <1>2, <2>3, GoingLight DEF OnDisconnect
  <2> QED BY <2>1, <2>2, <2>3
<1>4. /\ \A q \in Process : at[q] \in Place
      /\ ~connected[s] /\ told[s] = 0 /\ peer[s] # "none"
      /\ \A q \in Process : q # p /\ Removing(q) => at[q].sock # s
      /\ \A q \in Process : at[q].pc \in {"dial", "add"} => at[q].sock # s
  <2>1. Removes(p) /\ \A q \in Process : Starting(q)
    BY DEF Inv
  <2> QED BY <1>1, <1>2, <2>1, Typed DEF Removes, Removing, Starting
<1>5. /\ \A r \in Sock : told'[r] = IF r = s THEN 1 ELSE told[r]
      /\ told' \in [Sock -> {0, 1}]
      /\ \A r \in Sock : held'[r] => held[r]
      /\ held' \in [Sock -> BOOLEAN]
  BY <1>1, <1>4, Typed DEF OnDisconnect
<1>6. UNCHANGED <<obj, fd, connected, deleted, asked, table, owner, mask, peer, backlog, gc, closing>>
  BY DEF OnDisconnect
<1>7. TypeOK'
  BY <1>3, <1>5, Typed DEF OnDisconnect, Moves, TypeOK, Place
<1>8. at'[p] \in Place /\ \A q \in Process : q # p => at'[q] = at[q]
  BY <1>3 DEF Moves
<1>21. \A q \in Process : Placed(q)' /\ Starting(q)' /\ Removes(q)' /\ Deletes(q)'
  <2> SUFFICES ASSUME NEW q \in Process
               PROVE  Placed(q)' /\ Starting(q)' /\ Removes(q)' /\ Deletes(q)'
    OBVIOUS
  <2>1. /\ Placed(q) /\ Starting(q) /\ Removes(q) /\ Deletes(q)
        /\ Placed(p) /\ Starting(p) /\ Removes(p) /\ Deletes(p)
    BY DEF Inv
  <2>2. Placed(q)'
    BY <1>1, <1>2, <1>3, <1>4, <1>5, <1>6, <1>8, NoneApart, <2>1 DEF Placed, Light
  <2>3. Starting(q)'
    BY <1>1, <1>2, <1>3, <1>4, <1>5, <1>6, <1>8, NoneApart, <2>1 DEF Starting, Placed, Light, Place
  <2>4. Removes(q)'
    BY <1>1, <1>2, <1>3, <1>4, <1>5, <1>6, <1>8, NoneApart, <2>1 DEF Removes, Removing, Placed, Light, Place
  <2>5. Deletes(q)'
    BY <1>1, <1>2, <1>3, <1>4, <1>5, <1>6, <1>8, NoneApart, <2>1
       DEF Deletes, Deleting, Placed, Light, Place
  <2> QED BY <2>2, <2>3, <2>4, <2>5
<1>22. \A r \in Sock : Made(r)' /\ Connection(r)' /\ Dead(r)' /\ Owns(r)' /\ Ordered(r)' /\ Entered(r)'
  <2> SUFFICES ASSUME NEW r \in Sock
               PROVE  Made(r)' /\ Connection(r)' /\ Dead(r)' /\ Owns(r)' /\ Ordered(r)' /\ Entered(r)'
    OBVIOUS
  <2>1. Made(r) /\ Connection(r) /\ Dead(r) /\ Owns(r) /\ Ordered(r) /\ Entered(r)
    BY DEF Inv
  <2>2. Made(r)'
    BY <1>1, <1>2, <1>3, <1>4, <1>5, <1>6, <1>8, NoneApart, <2>1 DEF Made
  <2>3. Connection(r)'
    BY <1>1, <1>2, <1>3, <1>4, <1>5, <1>6, <1>8, NoneApart, <2>1 DEF Connection, Removing, Light
  <2>4. Dead(r)'
    BY <1>1, <1>2, <1>3, <1>4, <1>5, <1>6, <1>8, NoneApart, <2>1 DEF Dead
  <2>5. Owns(r)'
    BY <1>1, <1>2, <1>3, <1>4, <1>5, <1>6, <1>8, NoneApart, <2>1 DEF Owns, Light
  <2>6. Ordered(r)'
    BY <1>1, <1>2, <1>3, <1>4, <1>5, <1>6, <1>8, NoneApart, <2>1 DEF Ordered, Light
  <2>7. Entered(r)'
    BY <1>1, <1>2, <1>3, <1>4, <1>5, <1>6, <1>8, NoneApart, <2>1 DEF Entered, At
  <2> QED BY <2>2, <2>3, <2>4, <2>5, <2>6, <2>7
<1>23. \A g \in Fd : Owned(g)' /\ Tabled(g)' /\ Exact(g)' /\ Watched(g)'
  <2> SUFFICES ASSUME NEW g \in Fd PROVE Owned(g)' /\ Tabled(g)' /\ Exact(g)' /\ Watched(g)'
    OBVIOUS
  <2>1. Owned(g) /\ Tabled(g) /\ Exact(g) /\ Watched(g)
    BY DEF Inv
  <2>2. Owned(g)'
    BY <1>1, <1>2, <1>3, <1>4, <1>5, <1>6, <1>8, NoneApart, <2>1 DEF Owned, Light
  <2>3. Tabled(g)'
    BY <1>1, <1>2, <1>3, <1>4, <1>5, <1>6, <1>8, NoneApart, <2>1 DEF Tabled, Removing
  <2>4. Exact(g)' /\ Watched(g)'
    BY <1>1, <1>2, <1>3, <1>4, <1>5, <1>6, <1>8, NoneApart, <2>1 DEF Exact, Watched, At
  <2> QED BY <2>2, <2>3, <2>4
<1>24. ToldOnce'
  BY <1>1, <1>2, <1>3, <1>4, <1>5, <1>6, <1>8, NoneApart DEF Inv, ToldOnce
<1> QED BY <1>7, <1>21, <1>22, <1>23, <1>24 DEF Inv

-----------------------------------------------------------------------------
\* Delete found the flag clear: the half that runs once begins.
LEMMA DeletesInv ==
  ASSUME Inv, TypeOK', NEW p \in Process, NEW s \in Sock, at[p].sock = s,
         at[p].pc = "delete", ~deleted[s],
         Moves(p), at'[p].sock = s, at'[p].then = at[p].then,
         \/ connected[s] /\ at'[p].pc = "disconnect" /\ at'[p].inner
         \/ ~connected[s] /\ at'[p].pc = "close" /\ at'[p].inner = at[p].inner,
         deleted' = [deleted EXCEPT ![s] = TRUE],
         UNCHANGED <<obj, fd, connected, held, told, table, owner, mask, peer, backlog, gc, closing>>
  PROVE  Inv'
<1>1. at'[p] \in Place /\ \A q \in Process : q # p => at'[q] = at[q]
  BY DEF Moves
<1>2. /\ s # None /\ obj[s] = "live" /\ s \notin gc /\ ~Removing(p) /\ ~at[p].inner
      /\ \A q \in Process : at[q] \in Place /\ (Deleting(q) => at[q].sock # s)
      /\ \A q \in Process : at[q].pc \in {"dial", "add"} => at[q].sock # s
  BY Typed, NoneApart DEF Inv, Dead, Deletes, Starting, Placed, Removing
<1>3. deleted'[s] /\ \A r \in Sock : r # s => deleted'[r] = deleted[r]
  BY Typed
<1>21. \A q \in Process : Placed(q)' /\ Starting(q)' /\ Removes(q)' /\ Deletes(q)'
  <2> SUFFICES ASSUME NEW q \in Process
               PROVE  Placed(q)' /\ Starting(q)' /\ Removes(q)' /\ Deletes(q)'
    OBVIOUS
  <2>1. /\ Placed(q) /\ Starting(q) /\ Removes(q) /\ Deletes(q)
        /\ Placed(p) /\ Starting(p) /\ Removes(p) /\ Deletes(p)
    BY DEF Inv
  <2>2. Placed(q)'
    BY <1>1, <1>2, <1>3, NoneApart, <2>1 DEF Placed
  <2>3. Starting(q)'
    BY <1>1, <1>2, <1>3, NoneApart, <2>1 DEF Starting, Placed, Place
  <2>4. Removes(q)'
    BY <1>1, <1>2, <1>3, NoneApart, <2>1 DEF Removes, Removing, Placed, Place
  <2>5. Deletes(q)'
    BY <1>1, <1>2, <1>3, NoneApart, <2>1 DEF Deletes, Deleting, Placed, Place
  <2> QED BY <2>2, <2>3, <2>4, <2>5
<1>22. \A r \in Sock : Made(r)' /\ Connection(r)' /\ Dead(r)' /\ Owns(r)' /\ Ordered(r)' /\ Entered(r)'
  <2> SUFFICES ASSUME NEW r \in Sock
               PROVE  Made(r)' /\ Connection(r)' /\ Dead(r)' /\ Owns(r)' /\ Ordered(r)' /\ Entered(r)'
    OBVIOUS
  <2>1. Made(r) /\ Connection(r) /\ Dead(r) /\ Owns(r) /\ Ordered(r) /\ Entered(r)
    BY DEF Inv
  <2>2. Made(r)'
    BY <1>1, <1>2, <1>3, NoneApart, <2>1 DEF Made
  <2>3. Connection(r)'
    BY <1>1, <1>2, <1>3, NoneApart, <2>1 DEF Connection, Removing
  <2>4. Dead(r)'
    BY <1>1, <1>2, <1>3, NoneApart, <2>1 DEF Dead
  <2>5. Owns(r)'
    BY <1>1, <1>2, <1>3, NoneApart, <2>1 DEF Owns
  <2>6. Ordered(r)'
    BY <1>1, <1>2, <1>3, NoneApart, <2>1 DEF Ordered
  <2>7. Entered(r)'
    BY <1>1, <1>2, <1>3, NoneApart, <2>1 DEF Entered, At
  <2> QED BY <2>2, <2>3, <2>4, <2>5, <2>6, <2>7
<1>23. \A g \in Fd : Owned(g)' /\ Tabled(g)' /\ Exact(g)' /\ Watched(g)'
  <2> SUFFICES ASSUME NEW g \in Fd PROVE Owned(g)' /\ Tabled(g)' /\ Exact(g)' /\ Watched(g)'
    OBVIOUS
  <2>1. Owned(g) /\ Tabled(g) /\ Exact(g) /\ Watched(g)
    BY DEF Inv
  <2>2. Owned(g)'
    BY <1>1, <1>2, <1>3, NoneApart, <2>1 DEF Owned
  <2>3. Tabled(g)'
    BY <1>1, <1>2, <1>3, NoneApart, <2>1 DEF Tabled, Removing
  <2>4. Exact(g)' /\ Watched(g)'
    BY <1>1, <1>2, <1>3, NoneApart, <2>1 DEF Exact, Watched, At
  <2> QED BY <2>2, <2>3, <2>4
<1>24. ToldOnce'
  BY <1>1, <1>2, <1>3, NoneApart DEF Inv, ToldOnce
<1> QED BY <1>21, <1>22, <1>23, <1>24 DEF Inv

LEMMA DeleteInv ==
  ASSUME Inv, NEW p \in Process, Delete(p)
  PROVE  Inv'
<1> USE DEF objects, kernel, managers
<1> DEFINE s == at[p].sock
<1>1. /\ s \in Sock /\ s # None /\ at[p].pc = "delete" /\ "disconnect" \in PC /\ "close" \in PC
      /\ ~Removing(p) /\ ~Deleting(p)
  BY Busy, Outside DEF Delete, PC
<1>2. deleted' = [deleted EXCEPT ![s] = TRUE] /\ deleted' \in [Sock -> BOOLEAN]
  BY Typed DEF Delete
<1>3. CASE deleted[s]
  <2>1. Moves(p) /\ Light(p)' /\ at'[p].pc \in Resume /\ at'[p].sock \in {None, s}
    BY <1>1, <1>3, Returning DEF Delete
  <2>2. deleted' = deleted /\ at'[p].pc # "delete"
    BY <1>2, <1>3, <2>1, Typed DEF Resume
  <2>3. TypeOK'
    BY <1>2, <2>1, Typed DEF Delete, Moves, TypeOK, Place
  <2> QED BY <1>1, <2>1, <2>2, <2>3, OwnMoves DEF Delete
<1>4. CASE ~deleted[s] /\ connected[s]
  <2> at \in [Process -> Place]
    BY Typed
  <2> DEFINE w == [at[p] EXCEPT !.pc = "disconnect", !.inner = TRUE]
  <2>1. at' = [at EXCEPT ![p] = w]
    BY <1>4 DEF Delete
  <2>2. /\ w \in Place /\ w.pc = "disconnect" /\ w.sock = s /\ w.then = at[p].then
        /\ w.inner = TRUE
    BY DEF Place, PC
  <2> HIDE DEF w
  <2>3. Moves(p) /\ at'[p] = w
    BY <2>1, <2>2 DEF Moves
  <2>4. TypeOK'
    BY <1>2, <2>3, Typed DEF Delete, Moves, TypeOK, Place
  <2> QED BY <1>1, <1>2, <1>4, <2>2, <2>3, <2>4, DeletesInv DEF Delete
<1>5. CASE ~deleted[s] /\ ~connected[s]
  <2>1. /\ Moves(p) /\ at'[p].pc = "close" /\ at'[p].sock = s
        /\ at'[p].then = at[p].then /\ at'[p].inner = at[p].inner
    BY <1>1, <1>5, Going DEF Delete
  <2>2. TypeOK'
    BY <1>2, <2>1, Typed DEF Delete, Moves, TypeOK, Place
  <2> QED BY <1>1, <1>2, <1>5, <2>1, <2>2, DeletesInv DEF Delete
<1> QED BY <1>3, <1>4, <1>5

-----------------------------------------------------------------------------
\* The descriptor of a socket about to be closed is its own.
LEMMA ClosingOwn ==
  ASSUME Inv, NEW p \in Process, at[p].pc = "close"
  PROVE  owner[fd[at[p].sock]] = at[p].sock
<1>1. at[p].sock \in Sock /\ obj[at[p].sock] = "live"
  BY Busy
<1>2. at[p].sock \notin gc /\ \A q \in Process : q # p /\ Deleting(q) => at[q].sock # at[p].sock
  BY DEF Inv, Deletes, Deleting
<1> QED BY <1>1, <1>2 DEF Inv, Owns, Deleting

LEMMA CloseSocketInv ==
  ASSUME Inv, NEW p \in Process, CloseSocket(p)
  PROVE  Inv'
<1> USE DEF objects, managers
<1>1. PICK s \in Sock : s = at[p].sock /\ s # None /\ fd[s] \in Fd /\ obj[s] = "live"
  BY Busy DEF CloseSocket
<1>2. at[p].pc = "close" /\ "queue" \in PC /\ owner[fd[s]] = s
  BY <1>1, ClosingOwn DEF CloseSocket, PC
<1>3. /\ Moves(p) /\ at'[p].pc = "queue" /\ at'[p].sock = s
      /\ at'[p].then = at[p].then /\ at'[p].inner = at[p].inner
  BY <1>1, <1>2, Going DEF CloseSocket
<1>4. /\ \A g \in Fd : owner'[g] = IF g = fd[s] THEN None ELSE owner[g]
      /\ \A g \in Fd : mask'[g] = IF g = fd[s] THEN "none" ELSE mask[g]
      /\ \A r \in Sock : (peer'[r] = "none") = (peer[r] = "none")
      /\ owner' \in [Fd -> Sock \cup {None}] /\ mask' \in [Fd -> {"none", "IN", "OUT"}]
      /\ peer' \in [Sock -> {"none", "up", "fin", "reset"}] /\ data' \in [Sock -> BOOLEAN]
      /\ ready' \subseteq Fd \cup {Listen}
  BY <1>1, <1>2, Typed DEF CloseSocket, Forget
<1>5. UNCHANGED <<obj, fd, connected, deleted, held, told, asked, table, backlog, gc, closing>>
  BY DEF CloseSocket
<1>6. TypeOK'
  BY <1>3, <1>4, Typed DEF CloseSocket, Moves, TypeOK, Place
<1>7. at'[p] \in Place /\ \A q \in Process : q # p => at'[q] = at[q]
  BY <1>3 DEF Moves
<1>8. /\ \A q \in Process : at[q] \in Place
      /\ ~connected[s] /\ deleted[s] /\ s \notin gc
      /\ \A q \in Process : q # p /\ Deleting(q) => at[q].sock # s
      /\ \A q \in Process : at[q].pc \in {"dial", "add"} => at[q].sock # s
  <2>1. Deletes(p) /\ Deleting(p) /\ \A q \in Process : Starting(q)
    BY <1>2 DEF Inv, Deleting
  <2> QED BY <1>1, <1>2, <2>1, Typed DEF Deletes, Starting
<1>9. ~closing => table[fd[s]] = None
  <2>1. ~closing => told[s] = 1 \/ peer[s] = "none"
    BY <1>8 DEF Inv, Ordered
  <2>2. ~closing => \A q \in Process : at[q].pc = "remove" => at[q].sock # s
    BY <2>1, Typed DEF Inv, Removes, Removing
  <2>3. ~closing => table[fd[s]] # s
    BY <1>1, <1>8, <2>2 DEF Inv, Tabled
  <2> QED BY <1>1, <1>2, <2>3 DEF Inv, Exact
<1>21. \A q \in Process : Placed(q)' /\ Starting(q)' /\ Removes(q)' /\ Deletes(q)'
  <2> SUFFICES ASSUME NEW q \in Process
               PROVE  Placed(q)' /\ Starting(q)' /\ Removes(q)' /\ Deletes(q)'
    OBVIOUS
  <2>1. /\ Placed(q) /\ Starting(q) /\ Removes(q) /\ Deletes(q)
        /\ Placed(p) /\ Starting(p) /\ Removes(p) /\ Deletes(p)
    BY DEF Inv
  <2>2. Placed(q)'
    BY <1>1, <1>2, <1>3, <1>4, <1>5, <1>7, <1>8, NoneApart, <2>1 DEF Placed
  <2>3. Starting(q)'
    BY <1>1, <1>2, <1>3, <1>4, <1>5, <1>7, <1>8, NoneApart, <2>1 DEF Starting, Placed, Place
  <2>4. Removes(q)'
    BY <1>1, <1>2, <1>3, <1>4, <1>5, <1>7, <1>8, NoneApart, <2>1 DEF Removes, Removing, Placed, Place
  <2>5. Deletes(q)'
    BY <1>1, <1>2, <1>3, <1>4, <1>5, <1>7, <1>8, NoneApart, <2>1 DEF Deletes, Deleting, Placed, Place
  <2> QED BY <2>2, <2>3, <2>4, <2>5
<1>22. \A r \in Sock : Made(r)' /\ Connection(r)' /\ Dead(r)' /\ Owns(r)' /\ Ordered(r)' /\ Entered(r)'
  <2> SUFFICES ASSUME NEW r \in Sock
               PROVE  Made(r)' /\ Connection(r)' /\ Dead(r)' /\ Owns(r)' /\ Ordered(r)' /\ Entered(r)'
    OBVIOUS
  <2>1. Made(r) /\ Connection(r) /\ Dead(r) /\ Owns(r) /\ Ordered(r) /\ Entered(r)
    BY DEF Inv
  <2>2. Made(r)'
    BY <1>1, <1>2, <1>3, <1>4, <1>5, <1>7, <1>8, NoneApart, <2>1 DEF Made
  <2>3. Connection(r)'
    BY <1>1, <1>2, <1>3, <1>4, <1>5, <1>7, <1>8, NoneApart, <2>1 DEF Connection, Removing
  <2>4. Dead(r)'
    BY <1>1, <1>2, <1>3, <1>4, <1>5, <1>7, <1>8, NoneApart, <2>1 DEF Dead
  <2>5. Owns(r)'
    BY <1>1, <1>2, <1>3, <1>4, <1>5, <1>7, <1>8, NoneApart, <2>1 DEF Owns, Inv, Made
  <2>6. Ordered(r)'
    BY <1>1, <1>2, <1>3, <1>4, <1>5, <1>7, <1>8, NoneApart, <2>1 DEF Ordered
  <2>7. Entered(r)'
    BY <1>1, <1>2, <1>3, <1>4, <1>5, <1>7, <1>8, NoneApart, <2>1 DEF Entered, At
  <2> QED BY <2>2, <2>3, <2>4, <2>5, <2>6, <2>7
<1>23. \A g \in Fd : Owned(g)' /\ Tabled(g)' /\ Exact(g)' /\ Watched(g)'
  <2> SUFFICES ASSUME NEW g \in Fd PROVE Owned(g)' /\ Tabled(g)' /\ Exact(g)' /\ Watched(g)'
    OBVIOUS
  <2>1. Owned(g) /\ Tabled(g) /\ Exact(g) /\ Watched(g)
    BY DEF Inv
  <2>2. Owned(g)'
    BY <1>1, <1>2, <1>3, <1>4, <1>5, <1>7, <1>8, NoneApart, <2>1 DEF Owned
  <2>3. Tabled(g)'
    BY <1>1, <1>2, <1>3, <1>4, <1>5, <1>7, <1>8, NoneApart, <2>1 DEF Tabled, Removing
  <2>4. Watched(g)'
    BY <1>4, <2>1 DEF Watched
  <2>5. ASSUME ~closing, table[g] # None
        PROVE  /\ owner'[g] = table[g] /\ mask'[g] = mask[g]
               /\ \A q \in Process : At(q, "watch", table[g]) => At(q, "watch", table[g])'
    <3>1. g # fd[s]
      BY <1>9, <2>5
    <3>2. \A q \in Process : At(q, "watch", table[g]) => At(q, "watch", table[g])'
      BY <1>2, <1>5, <1>7 DEF At
    <3> QED BY <1>4, <2>1, <2>5, <3>1, <3>2 DEF Exact
  <2>6. Exact(g)'
    BY <1>5, <2>1, <2>5 DEF Exact
  <2> QED BY <2>2, <2>3, <2>4, <2>6
<1>24. ToldOnce'
  BY <1>1, <1>2, <1>3, <1>4, <1>5, <1>7, <1>8, NoneApart DEF Inv, ToldOnce
<1> QED BY <1>6, <1>21, <1>22, <1>23, <1>24 DEF Inv

LEMMA QueueSocketInv ==
  ASSUME Inv, NEW p \in Process, QueueSocket(p)
  PROVE  Inv'
<1> USE DEF objects, kernel
<1>1. PICK s \in Sock : s = at[p].sock /\ s # None /\ obj[s] = "live"
  BY Busy DEF QueueSocket
<1>2. at[p].pc = "queue"
  BY DEF QueueSocket
<1>3. Moves(p) /\ Light(p)' /\ at'[p].pc \in Resume /\ at'[p].sock \in {None, s}
  BY <1>1, Returning DEF QueueSocket
<1>4. gc' = gc \cup {s}
  BY <1>1 DEF QueueSocket
<1>5. UNCHANGED <<obj, fd, connected, deleted, held, told, asked, table, owner, mask, peer, backlog, closing>>
  BY DEF QueueSocket
<1>6. TypeOK'
  BY <1>3, <1>4, Typed DEF QueueSocket, Moves, TypeOK, Place
<1>7. at'[p] \in Place /\ \A q \in Process : q # p => at'[q] = at[q]
  BY <1>3 DEF Moves
<1>8. /\ \A q \in Process : at[q] \in Place
      /\ ~connected[s] /\ deleted[s]
      /\ \A q \in Process : q # p /\ Deleting(q) => at[q].sock # s
      /\ \A q \in Process : at[q].pc \in {"dial", "add"} => at[q].sock # s
  <2>1. Deletes(p) /\ Deleting(p) /\ \A q \in Process : Starting(q)
    BY <1>2 DEF Inv, Deleting
  <2> QED BY <1>1, <1>2, <2>1, Typed DEF Deletes, Starting
<1>9. ~Removing(p) /\ ~Removing(p)' /\ ~Deleting(p)' /\ at'[p].pc # "delete"
  BY <1>2, <1>3 DEF Removing, Deleting, Light, Resume
<1>21. \A q \in Process : Placed(q)' /\ Starting(q)' /\ Removes(q)' /\ Deletes(q)'
  <2> SUFFICES ASSUME NEW q \in Process
               PROVE  Placed(q)' /\ Starting(q)' /\ Removes(q)' /\ Deletes(q)'
    OBVIOUS
  <2>1. /\ Placed(q) /\ Starting(q) /\ Removes(q) /\ Deletes(q)
        /\ Placed(p) /\ Starting(p) /\ Removes(p) /\ Deletes(p)
    BY DEF Inv
  <2>2. Placed(q)'
    BY <1>1, <1>2, <1>3, <1>4, <1>5, <1>7, <1>8, <1>9, NoneApart, <2>1 DEF Placed, Light
  <2>3. Starting(q)'
    BY <1>1, <1>2, <1>3, <1>4, <1>5, <1>7, <1>8, <1>9, NoneApart, <2>1 DEF Starting, Placed, Light, Place
  <2>4. Removes(q)'
    BY <1>1, <1>2, <1>3, <1>4, <1>5, <1>7, <1>8, <1>9, NoneApart, <2>1 DEF Removes, Removing, Placed
  <2>5. Deletes(q)'
    BY <1>1, <1>2, <1>3, <1>4, <1>5, <1>7, <1>8, <1>9, NoneApart, <2>1 DEF Deletes, Deleting, Placed
  <2> QED BY <2>2, <2>3, <2>4, <2>5
<1>22. \A r \in Sock : Made(r)' /\ Connection(r)' /\ Dead(r)' /\ Owns(r)' /\ Ordered(r)' /\ Entered(r)'
  <2> SUFFICES ASSUME NEW r \in Sock
               PROVE  Made(r)' /\ Connection(r)' /\ Dead(r)' /\ Owns(r)' /\ Ordered(r)' /\ Entered(r)'
    OBVIOUS
  <2>1. Made(r) /\ Connection(r) /\ Dead(r) /\ Owns(r) /\ Ordered(r) /\ Entered(r)
    BY DEF Inv
  <2>2. Made(r)'
    BY <1>1, <1>2, <1>3, <1>4, <1>5, <1>7, <1>8, <1>9, NoneApart, <2>1 DEF Made
  <2>3. Connection(r)'
    BY <1>1, <1>2, <1>3, <1>4, <1>5, <1>7, <1>8, <1>9, NoneApart, <2>1 DEF Connection, Removing
  <2>4. Dead(r)'
    BY <1>1, <1>2, <1>3, <1>4, <1>5, <1>7, <1>8, <1>9, NoneApart, <2>1 DEF Dead
  <2>5. Owns(r)'
    BY <1>1, <1>2, <1>3, <1>4, <1>5, <1>7, <1>8, <1>9, NoneApart, <2>1 DEF Owns, Light
  <2>6. Ordered(r)'
    BY <1>1, <1>2, <1>3, <1>4, <1>5, <1>7, <1>8, <1>9, NoneApart, <2>1 DEF Ordered
  <2>7. Entered(r)'
    BY <1>1, <1>2, <1>3, <1>4, <1>5, <1>7, <1>8, <1>9, NoneApart, <2>1 DEF Entered, At
  <2> QED BY <2>2, <2>3, <2>4, <2>5, <2>6, <2>7
<1>23. \A g \in Fd : Owned(g)' /\ Tabled(g)' /\ Exact(g)' /\ Watched(g)'
  <2> SUFFICES ASSUME NEW g \in Fd PROVE Owned(g)' /\ Tabled(g)' /\ Exact(g)' /\ Watched(g)'
    OBVIOUS
  <2>1. Owned(g) /\ Tabled(g) /\ Exact(g) /\ Watched(g)
    BY DEF Inv
  <2>2. Owned(g)'
    BY <1>1, <1>2, <1>3, <1>4, <1>5, <1>7, <1>8, <1>9, NoneApart, <2>1 DEF Owned, Light, Deleting
  <2>3. Tabled(g)'
    BY <1>1, <1>2, <1>3, <1>4, <1>5, <1>7, <1>8, <1>9, NoneApart, <2>1 DEF Tabled, Removing
  <2>4. Exact(g)' /\ Watched(g)'
    BY <1>1, <1>2, <1>3, <1>4, <1>5, <1>7, <1>8, <1>9, NoneApart, <2>1 DEF Exact, Watched, At
  <2> QED BY <2>2, <2>3, <2>4
<1>24. ToldOnce'
  BY <1>1, <1>2, <1>3, <1>4, <1>5, <1>7, <1>8, <1>9, NoneApart DEF Inv, ToldOnce
<1> QED BY <1>6, <1>21, <1>22, <1>23, <1>24 DEF Inv

-----------------------------------------------------------------------------
\* The garbage collector frees a socket nobody is in.
LEMMA UpdateInv ==
  ASSUME Inv, NEW s \in Sock, Update(s)
  PROVE  Inv'
<1> USE DEF kernel
<1>1. s \in gc /\ \A p \in Process : at[p].sock # s
  BY DEF Update
<1>2. obj[s] = "live" /\ deleted[s] /\ ~connected[s]
  BY <1>1 DEF Inv, Dead
<1>3. told[s] = IF peer[s] = "none" THEN 0 ELSE 1
  BY <1>1, <1>2, Typed DEF Inv, Connection
<1>4. /\ \A g \in Fd : table[g] # s /\ owner[g] # s
  BY <1>1, <1>2, NoneApart DEF Inv, Tabled, Owned
<1>5. /\ \A r \in Sock : obj'[r] = IF r = s THEN "freed" ELSE obj[r]
      /\ \A r \in Sock : held'[r] => held[r]
      /\ obj' \in [Sock -> {"none", "live", "freed"}] /\ held' \in [Sock -> BOOLEAN]
      /\ gc' = gc \ {s}
  BY Typed DEF Update
<1>6. UNCHANGED <<fd, connected, deleted, told, asked, table, owner, mask, ready, peer, data,
                  backlog, events, at, closing>>
  BY DEF Update
<1>7. TypeOK'
  BY <1>5, <1>6, Typed DEF TypeOK, Place
<1>8. \A p \in Process : Placed(p)' /\ Starting(p)' /\ Removes(p)' /\ Deletes(p)'
  <2> SUFFICES ASSUME NEW p \in Process
               PROVE  Placed(p)' /\ Starting(p)' /\ Removes(p)' /\ Deletes(p)'
    OBVIOUS
  <2>1. Placed(p) /\ Starting(p) /\ Removes(p) /\ Deletes(p) /\ at[p] \in Place
    BY Typed DEF Inv
  <2>2. Placed(p)'
    BY <1>1, <1>5, <1>6, <2>1 DEF Placed, Place
  <2>3. Starting(p)'
    BY <1>5, <1>6, <2>1 DEF Starting, Placed, Place
  <2>4. Removes(p)' /\ Deletes(p)'
    BY <1>5, <1>6, <2>1 DEF Removes, Removing, Deletes, Deleting
  <2> QED BY <2>2, <2>3, <2>4
<1>9. \A r \in Sock : Made(r)' /\ Connection(r)' /\ Dead(r)' /\ Owns(r)' /\ Ordered(r)' /\ Entered(r)'
  <2> SUFFICES ASSUME NEW r \in Sock
               PROVE  Made(r)' /\ Connection(r)' /\ Dead(r)' /\ Owns(r)' /\ Ordered(r)' /\ Entered(r)'
    OBVIOUS
  <2>1. Made(r) /\ Connection(r) /\ Dead(r) /\ Owns(r) /\ Ordered(r) /\ Entered(r)
    BY DEF Inv
  <2>2. Made(r)'
    BY <1>2, <1>5, <1>6, <2>1 DEF Made
  <2>3. Connection(r)'
    BY <1>2, <1>3, <1>5, <1>6, <2>1 DEF Connection, Removing
  <2>4. Dead(r)' /\ Owns(r)'
    BY <1>2, <1>5, <1>6, <2>1 DEF Dead, Owns
  <2>5. Ordered(r)' /\ Entered(r)'
    BY <1>6, <2>1 DEF Ordered, Entered, At
  <2> QED BY <2>2, <2>3, <2>4, <2>5
<1>10. \A g \in Fd : Owned(g)' /\ Tabled(g)' /\ Exact(g)' /\ Watched(g)'
  BY <1>4, <1>5, <1>6, Typed DEF Inv, Owned, Tabled, Exact, Watched, At
<1>11. ToldOnce'
  BY <1>3, <1>5, <1>6 DEF Inv, ToldOnce
<1> QED BY <1>7, <1>8, <1>9, <1>10, <1>11 DEF Inv

LEMMA StutterInv ==
  ASSUME Inv, UNCHANGED vars
  PROVE  Inv'
<1>1. UNCHANGED <<objects, table, owner, mask, at, managers, peer, backlog>>
  BY DEF vars, kernel
<1>2. TypeOK'
  BY Typed DEF vars, objects, kernel, managers, TypeOK, Place
<1> QED BY <1>1, <1>2, KernelMoves DEF Inv, Made

LEMMA StepInv ==
  ASSUME Inv, [Next]_vars
  PROVE  Inv'
<1>1. CASE UNCHANGED vars
  BY <1>1, StutterInv
<1>2. ASSUME NEW s \in Sock, PeerConnects(s) \/ PeerSends(s) \/ PeerCloses(s) \/ PeerResets(s)
      PROVE  Inv'
  BY <1>2, PeerInv
<1>3. ASSUME NEW p \in Process, ProcessStep(p) PROVE Inv'
  BY <1>3, AddSocketInv, AddEventInv, OnConnectInv, DisconnectInv, RemoveSocketInv, RemoveEventInv,
     OnDisconnectInv, DeleteInv,
     CloseSocketInv, QueueSocketInv, PostEventInv, ConnectInv DEF ProcessStep
<1>4. ASSUME NEW t \in Thread, NEW s \in Sock, Dial(t, s) \/ Send(t, s) \/ CallDisconnect(t, s)
      PROVE  Inv'
  BY <1>4, DialInv, CallInv
<1>5. ASSUME NEW t \in Thread, NEW f \in Fd, CloseAll(t, f) PROVE Inv'
  BY <1>5, CloseAllInv
<1>6. CASE WorkerStep
  BY <1>6, WaitInv, TakeInv, OnAcceptInv, TestInv, RecvInv, WorkInv DEF WorkerStep
<1>7. ASSUME NEW s \in Sock, Update(s) PROVE Inv'
  BY <1>7, UpdateInv
<1> QED BY <1>1, <1>2, <1>3, <1>4, <1>5, <1>6, <1>7 DEF Next

-----------------------------------------------------------------------------
\* The parts of the invariant hold in every state.
THEOREM LifeInvariance == Spec => []Inv
<1>1. Init => Inv
  BY InvInit
<1>2. Inv /\ [Next]_vars => Inv'
  BY StepInv
<1> QED BY <1>1, <1>2, PTL DEF Spec

\* Between the steps of all threads, for any number of sockets, threads and
\* descriptors: OnDisconnect is called at most once, exactly once before a socket
\* that was connected is freed.  Until CloseAll, though AddSocket and RemoveSocket
\* write the table and the epoll set in two steps and with no lock: an entry stands
\* for the connection of its number, a number with an entry is watched once its
\* AddSocket is through, and one watched without an entry is no connected socket's
\* but one whose AddSocket is about to enter it.
THEOREM LifeConsistent == Spec => []Consistent
<1>1. Inv => TableExact
  <2> SUFFICES ASSUME Inv, ~closing, NEW f \in Fd
               PROVE  /\ table[f] # None =>
                            /\ owner[f] = table[f]
                            /\ mask[f] # "none" \/ \E p \in Process : At(p, "watch", table[f])
                      /\ mask[f] # "none" /\ table[f] = None =>
                            \/ ~connected[owner[f]]
                            \/ \E p \in Process : At(p, "add", owner[f])
    BY DEF TableExact
  <2>1. Exact(f) /\ Watched(f) /\ Owned(f)
    BY DEF Inv
  <2>2. ASSUME mask[f] # "none", table[f] = None, connected[owner[f]]
        PROVE  \E p \in Process : At(p, "add", owner[f])
    <3>1. owner[f] \in Sock /\ fd[owner[f]] = f
      BY <2>1, <2>2, Typed DEF Watched, Owned
    <3> QED BY <2>2, <3>1, NoneApart DEF Inv, Entered
  <2> QED BY <2>1, <2>2 DEF Exact
<1>2. Inv => Consistent
  BY <1>1 DEF Inv, Consistent
<1> QED BY <1>2, LifeInvariance, PTL

\* However many threads delete a socket, CloseSocket is called on a descriptor
\* only by the socket it belongs to.
THEOREM DescriptorsOwn == Spec => ClosesOwn
<1>1. Inv /\ [Next]_vars
        => [\A p \in Process :
              at[p].pc = "close" /\ at'[p].pc = "queue" => owner[fd[at[p].sock]] = at[p].sock]_vars
  BY ClosingOwn
<1> QED BY <1>1, LifeInvariance, PTL DEF Spec, ClosesOwn

==============================================================================
