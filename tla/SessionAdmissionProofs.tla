------------------------ MODULE SessionAdmissionProofs ------------------------
(***************************************************************************)
(* Two results, for any number of sockets and accounts and however logins, *)
(* kicks, disconnections, timeouts and deletions overlap.  On a server     *)
(* with room for every account nobody waits in the queue, and every        *)
(* session in the loop of the world thread is the one its account finds.   *)
(* Whatever the player limit, no session is deleted that the world or its  *)
(* socket can still reach, nobody is in the login queue twice, and nobody  *)
(* stays in it after Disconnect.                                           *)
(***************************************************************************)
EXTENDS SessionAdmission, FiniteSetTheorems, TLAPS

Room == m_playerLimit >= Cardinality(Account)

\* Inside Disconnect; and a newcomer on its way into the world's two maps.
Calling == {"disconnect", "leave", "unrequest", "unqueue"}
Coming == {"create", "count", "authenticate", "addsession"}

WorkerLabel == Calling \cup Coming \cup {"idle", "kick", "timer", "addglobal", "unlock", "undefined"}
WorldLabel == Calling \cup {"idle", "update", "forget", "erase", "delete", "undefined"}
Label == WorkerLabel \cup WorldLabel \cup {"enqueue", "flag", "admit", "guard", "release"}

Place == [pc : Label, sock : Sock \cup {None}, then : Label]

Places ==
    /\ at \in [Process -> Place]
    /\ at[Worker].pc \in WorkerLabel /\ at[World].pc \in WorldLabel
    /\ at[Worker].pc \in Calling => at[Worker].then \in {"idle", "timer"}
    /\ at[Worker].pc \in Coming \cup {"addglobal"} => at[Worker].then = "unlock"
    /\ at[World].pc \in Calling => at[World].then = "forget"
    /\ \A p \in Process : at[p].pc \in Calling \cup {"kick", "forget"} => at[p].sock \in Sock

Typed ==
    /\ asked \in [Sock -> BOOLEAN] /\ account \in [Sock -> Account \cup {None}]
    /\ m_sessions \in [Account -> Sock \cup {None}]
    /\ pending \subseteq Sock /\ Sessions \subseteq Sock /\ doomed \subseteq Sock

Unqueued == queue = <<>> /\ mQueued = [s \in Sock |-> FALSE]

\* A socket that has not been answered is no session of the world.
Fresh ==
    /\ \A s \in pending : asked[s]
    /\ \A s \in Sock : s \in pending \/ ~asked[s] => s \notin Sessions \cup doomed

\* The account of a newcomer is free until the newcomer has it.
Arrival ==
    at[Worker].pc \in Coming \cup {"addglobal"} =>
      /\ at[Worker].sock \in Sock \ (pending \cup Sessions \cup doomed)
      /\ asked[at[Worker].sock] /\ account[at[Worker].sock] \in Account
      /\ m_sessions[account[at[Worker].sock]] =
           IF at[Worker].pc = "addglobal" THEN at[Worker].sock ELSE None

\* A session in the loop, or one that waits for DeleteSessions, has its account.
Books ==
    /\ \A s \in Sessions : account[s] \in Account /\ m_sessions[account[s]] = s
    /\ \A x \in doomed :
         /\ x \notin Sessions /\ account[x] \in Account
         /\ at[World].pc \notin {"delete", "undefined"} => m_sessions[account[x]] = x
    /\ at[World].pc = "idle" => doomed = {}
    /\ at[World].pc \in Calling \cup {"update", "forget"} => todo \subseteq Sessions

Safe == Typed /\ Places /\ Unqueued /\ Fresh /\ Arrival /\ Books

-----------------------------------------------------------------------------
LEMMA Processes ==
    /\ Worker \in Process /\ World \in Process /\ Worker # World
    /\ \A p \in Process : p = Worker \/ p = World
BY AdmissionAssumption DEF Process

LEMMA Idles == Idle \in Place /\ Idle.pc = "idle" /\ Idle.sock = None
BY DEF Idle, Place, Label, WorkerLabel

\* Where a process is after it has moved; the other one stays.
LEMMA Gone ==
    ASSUME at \in [Process -> Place], NEW p \in Process, NEW label \in Label, Goto(p, label)
    PROVE  /\ at' \in [Process -> Place]
           /\ at'[p].pc = label /\ at'[p].sock = at[p].sock /\ at'[p].then = at[p].then
           /\ \A q \in Process \ {p} : at'[q] = at[q]
BY DEF Goto, Place

LEMMA Entered ==
    ASSUME at \in [Process -> Place], NEW p \in Process, NEW label \in Label,
           NEW s \in Sock \cup {None}, NEW then \in Label, Enter(p, label, s, then)
    PROVE  /\ at' \in [Process -> Place]
           /\ at'[p].pc = label /\ at'[p].sock = s /\ at'[p].then = then
           /\ \A q \in Process \ {p} : at'[q] = at[q]
BY DEF Enter, Place

LEMMA Finished ==
    ASSUME at \in [Process -> Place], NEW p \in Process, Finish(p)
    PROVE  /\ at' \in [Process -> Place] /\ at'[p] = Idle
           /\ \A q \in Process \ {p} : at'[q] = at[q]
BY Idles DEF Finish

\* A step of the worker that leaves the world's books alone.
LEMMA WorkerQuiet ==
    ASSUME Safe, Places', Arrival', at'[World] = at[World], pending' \subseteq pending,
           UNCHANGED <<asked, mQueued, account, m_sessions, Sessions, queue, todo, doomed>>
    PROVE  Safe'
BY DEF Safe, Typed, Unqueued, Fresh, Books

\* A step of the world thread that leaves them alone.
LEMMA WorldQuiet ==
    ASSUME Safe, Places', Books', at'[Worker] = at[Worker], pending' \subseteq pending,
           Sessions' \cup doomed' \subseteq Sessions \cup doomed,
           UNCHANGED <<asked, mQueued, account, m_sessions, queue>>
    PROVE  Safe'
<1>1. Typed' /\ Unqueued' /\ Fresh'
  BY DEF Safe, Typed, Unqueued, Fresh
<1>2. Arrival'
  BY DEF Safe, Arrival
<1> QED BY <1>1, <1>2 DEF Safe

LEMMA FaultSafe ==
    ASSUME Safe, NEW kind, Faulty(kind)
    PROVE  Safe'
<1> USE DEF socks, sessions, world, loop
<1>1. at' = [p \in Process |-> [Idle EXCEPT !.pc = "undefined"]]
  BY DEF Faulty
<1>2. /\ at' \in [Process -> Place]
      /\ \A p \in Process : at'[p].pc = "undefined"
  BY <1>1 DEF Idle, Place, Label, WorkerLabel
<1>3. /\ at'[Worker].pc = "undefined" /\ at'[World].pc = "undefined"
  BY <1>2, Processes
<1>4. Places'
  BY <1>2, <1>3 DEF Places, WorkerLabel, WorldLabel, Calling, Coming
<1>5. Typed' /\ Unqueued' /\ Fresh'
  BY DEF Faulty, Safe, Typed, Unqueued, Fresh
<1>6. Arrival' /\ Books'
  BY <1>3 DEF Faulty, Safe, Arrival, Books, Coming, Calling
<1> QED BY <1>4, <1>5, <1>6 DEF Safe

-----------------------------------------------------------------------------
\* Disconnect and Authenticate

\* A process that goes on in Disconnect, or comes back from it.
LEMMA CallMove ==
    ASSUME Safe, NEW p \in Process, at[p].pc \in Calling,
           Return(p) \/ \E label \in Calling : Goto(p, label),
           pending' \subseteq pending,
           UNCHANGED <<asked, mQueued, account, m_sessions, Sessions, queue, todo, doomed>>
    PROVE  Safe'
<1> /\ at \in [Process -> Place] /\ at[p].sock \in Sock
    /\ Calling \subseteq Label /\ {"idle", "timer", "forget"} \subseteq Label
  BY DEF Safe, Places, Label, WorkerLabel, WorldLabel
<1>1. CASE p = Worker
  <2>1. /\ at' \in [Process -> Place]
        /\ at'[World] = at[World]
        /\ \/ at'[Worker] = Idle
           \/ at'[Worker].pc = "timer"
           \/ at'[Worker].pc \in Calling /\ at'[Worker].then = at[Worker].then
        /\ at'[Worker].pc \in Calling => at'[Worker].sock = at[Worker].sock
    <3>1. CASE Return(p) /\ at[p].then = "idle"
      BY <1>1, <3>1, Finished, Processes, Idles DEF Return, Calling
    <3>2. CASE Return(p) /\ at[p].then # "idle"
      BY <1>1, <3>2, Gone, Processes DEF Return, Safe, Places, Calling
    <3>3. ASSUME NEW label \in Calling, Goto(p, label)
          PROVE  /\ at' \in [Process -> Place] /\ at'[World] = at[World]
                 /\ at'[Worker].pc = label /\ at'[Worker].then = at[Worker].then
                 /\ at'[Worker].sock = at[Worker].sock
      BY <1>1, <3>3, Gone, Processes
    <3> QED BY <3>1, <3>2, <3>3
  <2>2. /\ at'[Worker].pc \in Calling \cup {"idle", "timer"}
        /\ at'[Worker].pc \in Calling => at'[Worker].then \in {"idle", "timer"}
    BY <1>1, <2>1, Idles DEF Calling, Safe, Places
  <2>3. Places' /\ Arrival'
    BY <1>1, <2>1, <2>2, Processes
       DEF Safe, Places, Arrival, Calling, Coming, WorkerLabel
  <2> QED BY <2>1, <2>3, WorkerQuiet
<1>2. CASE p = World
  <2>1. /\ at' \in [Process -> Place] /\ at'[Worker] = at[Worker]
        /\ at'[World].pc \in Calling \cup {"forget"}
        /\ at'[World].sock = at[World].sock /\ at'[World].then = "forget"
    <3>1. CASE Return(p)
      BY <1>2, <3>1, Gone, Processes DEF Return, Safe, Places
    <3>2. ASSUME NEW label \in Calling, Goto(p, label)
          PROVE  /\ at' \in [Process -> Place] /\ at'[Worker] = at[Worker]
                 /\ at'[World].pc = label /\ at'[World].then = at[World].then
                 /\ at'[World].sock = at[World].sock
      BY <1>2, <3>2, Gone, Processes
    <3> QED BY <1>2, <3>1, <3>2 DEF Safe, Places
  <2>2. Places'
    BY <1>2, <2>1, Processes DEF Safe, Places, WorldLabel, Calling
  <2>3. Books'
    BY <1>2, <2>1 DEF Safe, Books, Calling
  <2> QED BY <2>1, <2>2, <2>3, WorldQuiet
<1> QED BY <1>1, <1>2, Processes

\* Authenticate is called by the worker alone, as nobody waits in the queue.
LEMMA ComesIn ==
    ASSUME Safe, NEW p \in Process, at[p].pc \in Coming \cup {"addglobal"}
    PROVE  /\ p = Worker /\ at \in [Process -> Place] /\ at[p].then = "unlock"
           /\ Coming \cup {"addglobal", "unlock"} \subseteq Label
BY Processes DEF Safe, Places, WorldLabel, Calling, Coming, Label, WorkerLabel

\* The newcomer goes on, or is in the loop.
LEMMA ComeOn ==
    ASSUME Safe, NEW label \in Coming \cup {"addglobal", "unlock"},
           at[Worker].pc \in Coming \cup {"addglobal"},
           Goto(Worker, label)
    PROVE  /\ Places' /\ at'[World] = at[World]
           /\ at'[Worker].pc = label /\ at'[Worker].sock = at[Worker].sock
<1>1. label \in Label /\ at \in [Process -> Place] /\ at[Worker].then = "unlock"
  BY ComesIn, Processes
<1>2. /\ at' \in [Process -> Place] /\ at'[World] = at[World]
      /\ at'[Worker].pc = label /\ at'[Worker].sock = at[Worker].sock
      /\ at'[Worker].then = "unlock"
  BY <1>1, Gone, Processes
<1>3. Places'
  BY <1>2, Processes DEF Safe, Places, Calling, Coming, WorkerLabel
<1> QED BY <1>2, <1>3

LEMMA CallSafe ==
    ASSUME Safe, NEW p \in Process, Call(p)
    PROVE  Safe'
<1> USE DEF socks, sessions, world, loop
<1>1. CASE Disconnect(p)
  <2>1. at[p].pc \in Calling /\ "leave" \in Calling
    BY <1>1 DEF Disconnect, Calling
  <2>2. Return(p) \/ \E label \in Calling : Goto(p, label)
    BY <1>1, <2>1 DEF Disconnect
  <2> QED BY <1>1, <2>1, <2>2, CallMove DEF Disconnect
<1>2. CASE LeaveSession(p)
  <2>1. at[p].pc \in Calling /\ "unrequest" \in Calling
    BY <1>2 DEF LeaveSession, Calling
  <2>2. CASE Faulty("freed")
    BY <2>2, FaultSafe
  <2>3. CASE ~Faulty("freed")
    <3>1. /\ Goto(p, "unrequest")
          /\ UNCHANGED <<asked, pending, mQueued, account, m_sessions, Sessions, queue, todo, doomed>>
      BY <1>2, <2>3 DEF LeaveSession
    <3>2. \E label \in Calling : Goto(p, label)
      BY <2>1, <3>1
    <3> QED BY <2>1, <3>1, <3>2, CallMove
  <2> QED BY <2>2, <2>3
<1>3. CASE UnauthedSocketClose(p)
  <2>1. at[p].pc \in Calling /\ "unqueue" \in Calling
    BY <1>3 DEF UnauthedSocketClose, Calling
  <2>2. \E label \in Calling : Goto(p, label)
    BY <1>3, <2>1 DEF UnauthedSocketClose
  <2> QED BY <1>3, <2>1, <2>2, CallMove DEF UnauthedSocketClose
<1>4. CASE RemoveQueuedSocket(p)
  <2>1. at[p].pc \in Calling /\ at[p].sock \in Sock
    BY <1>4 DEF RemoveQueuedSocket, Calling, Safe, Places
  <2>2. UNCHANGED <<queue, mQueued>>
    BY <1>4, <2>1 DEF RemoveQueuedSocket, Safe, Unqueued
  <2> QED BY <1>4, <2>1, <2>2, CallMove DEF RemoveQueuedSocket
<1>5. CASE Authenticate(p)
  <2>1. at[p].pc \in Coming /\ p = Worker /\ at[p].then = "unlock"
    BY <1>5, ComesIn DEF Authenticate, Coming
  <2>2. UNCHANGED mQueued
    BY <1>5, <2>1 DEF Authenticate, Safe, Unqueued, Arrival
  <2>3. PICK label \in {"addsession", "unlock"} : Goto(Worker, label)
    BY <1>5, <2>1 DEF Authenticate, Return
  <2>4. /\ Places' /\ at'[World] = at[World]
        /\ at'[Worker].pc = label /\ at'[Worker].sock = at[Worker].sock
    BY <2>1, <2>3, ComeOn DEF Coming
  <2>5. Arrival'
    BY <1>5, <2>1, <2>4 DEF Authenticate, Safe, Arrival, Coming
  <2> QED BY <1>5, <2>2, <2>4, <2>5, WorkerQuiet DEF Authenticate
<1>6. CASE AddSession(p)
  <2>1. at[p].pc \in Coming /\ p = Worker
    BY <1>6, ComesIn DEF AddSession, Coming
  <2>2. CASE Faulty("null")
    BY <2>2, FaultSafe
  <2>3. CASE ~Faulty("null")
    <3> DEFINE s == at[Worker].sock
    <3>1. /\ m_sessions' = [m_sessions EXCEPT ![account[s]] = s]
          /\ Goto(Worker, "addglobal")
          /\ UNCHANGED <<asked, pending, mQueued, account, Sessions, queue, todo, doomed>>
      BY <1>6, <2>1, <2>3 DEF AddSession
    <3>2. /\ Places' /\ at'[World] = at[World]
          /\ at'[Worker].pc = "addglobal" /\ at'[Worker].sock = s
      BY <2>1, <3>1, ComeOn
    <3>3. /\ s \in Sock \ (pending \cup Sessions \cup doomed) /\ asked[s]
          /\ account[s] \in Account /\ m_sessions[account[s]] = None
      BY <2>1 DEF Safe, Arrival, Coming
    <3> HIDE DEF s
    <3>4. Typed' /\ m_sessions'[account[s]] = s
      BY <3>1, <3>3 DEF Safe, Typed
    <3>5. Arrival'
      BY <3>1, <3>2, <3>3, <3>4 DEF Arrival, Coming
    <3>6. \A x \in Sock : account[x] \in Account /\ m_sessions[account[x]] = x
            => m_sessions'[account[x]] = x
      BY <3>1, <3>3, AdmissionAssumption DEF Safe, Typed
    <3>7. Books'
      BY <3>1, <3>2, <3>6 DEF Safe, Books, Typed
    <3> QED BY <3>1, <3>2, <3>4, <3>5, <3>7 DEF Safe, Unqueued, Fresh
  <2> QED BY <2>2, <2>3
<1>7. CASE AddGlobalSession(p)
  <2>1. at[p].pc = "addglobal" /\ p = Worker /\ at[p].then = "unlock"
    BY <1>7, ComesIn DEF AddGlobalSession
  <2>2. CASE Faulty("null")
    BY <2>2, FaultSafe
  <2>3. CASE ~Faulty("null")
    <3> DEFINE s == at[Worker].sock
    <3>1. /\ Sessions' = Sessions \cup {s} /\ Goto(Worker, "unlock")
          /\ UNCHANGED <<asked, pending, mQueued, account, m_sessions, queue, todo, doomed>>
      BY <1>7, <2>1, <2>3 DEF AddGlobalSession, Return
    <3>2. /\ Places' /\ at'[World] = at[World] /\ at'[Worker].pc = "unlock"
      BY <2>1, <3>1, ComeOn
    <3>3. /\ s \in Sock \ (pending \cup Sessions \cup doomed) /\ asked[s]
          /\ account[s] \in Account /\ m_sessions[account[s]] = s
      BY <2>1 DEF Safe, Arrival
    <3> HIDE DEF s
    <3>4. Typed' /\ Fresh' /\ Unqueued' /\ Arrival'
      BY <3>1, <3>2, <3>3 DEF Safe, Typed, Fresh, Unqueued, Arrival, Coming
    <3>5. Books'
      BY <3>1, <3>2, <3>3 DEF Safe, Books
    <3> QED BY <3>2, <3>4, <3>5 DEF Safe
  <2> QED BY <2>2, <2>3
<1> QED BY <1>1, <1>2, <1>3, <1>4, <1>5, <1>6, <1>7 DEF Call

-----------------------------------------------------------------------------
\* The worker

\* A free account leaves room for one session more.
LEMMA OneMore ==
    ASSUME Safe, Room, m_playerLimit \in Nat, NEW a \in Account, m_sessions[a] = None
    PROVE  SessionCount < m_playerLimit
<1> DEFINE used == {b \in Account : m_sessions[b] # None}
<1>1. used \subseteq Account \ {a} /\ IsFiniteSet(Account \ {a})
  BY AdmissionAssumption, FS_RemoveElement
<1>2. Cardinality(used) <= Cardinality(Account \ {a})
  BY <1>1, FS_Subset
<1>3. Cardinality(Account \ {a}) = Cardinality(Account) - 1 /\ Cardinality(Account) \in Nat
  BY AdmissionAssumption, FS_RemoveElement, FS_CardinalityType
<1>4. Cardinality(used) \in Nat
  BY <1>1, FS_Subset, FS_CardinalityType
<1> QED BY <1>2, <1>3, <1>4 DEF Room, SessionCount

\* What the worker does when it is idle, and where it goes.
LEMMA WorkerGoes ==
    ASSUME Safe, NEW label \in WorkerLabel, NEW s \in Sock \cup {None}, NEW then \in Label,
           label \in Calling \cup {"kick"} => s \in Sock,
           label \in Calling => then \in {"idle", "timer"},
           label \in Coming \cup {"addglobal"} => then = "unlock",
           Enter(Worker, label, s, then)
    PROVE  /\ Places' /\ at'[World] = at[World]
           /\ at'[Worker].pc = label /\ at'[Worker].sock = s
<1>1. label \in Label /\ at \in [Process -> Place]
  BY DEF Label, Safe, Places
<1>2. /\ at' \in [Process -> Place] /\ at'[World] = at[World]
      /\ at'[Worker].pc = label /\ at'[Worker].sock = s /\ at'[Worker].then = then
  BY <1>1, Entered, Processes
<1>3. Places'
  BY <1>2, Processes DEF Safe, Places, Calling, Coming, WorkerLabel
<1> QED BY <1>2, <1>3

LEMMA PacketSafe ==
    ASSUME Safe, NEW s \in Sock, HandleAuthSession(s) \/ Drop(s) \/ Expire(s)
    PROVE  Safe'
<1> USE DEF socks, sessions, world, loop
<1>0. /\ "disconnect" \in WorkerLabel /\ "idle" \in Label
      /\ "disconnect" \in Calling /\ "disconnect" \notin Coming \cup {"addglobal"}
  BY DEF WorkerLabel, Label, Calling, Coming
<1>1. CASE HandleAuthSession(s)
  <2>1. Places' /\ Arrival' /\ at'[World] = at[World]
    <3>1. CASE UNCHANGED at
      BY <1>1, <3>1, Idles DEF HandleAuthSession, Safe, Places, Arrival, Coming
    <3>2. CASE Enter(Worker, "disconnect", s, "idle")
      BY <1>0, <3>2, WorkerGoes DEF Arrival
    <3> QED BY <1>1, <3>1, <3>2 DEF HandleAuthSession
  <2>2. Typed' /\ Unqueued' /\ Fresh'
    BY <1>1 DEF HandleAuthSession, Safe, Typed, Unqueued, Fresh
  <2>3. Books'
    BY <1>1, <2>1 DEF HandleAuthSession, Safe, Books
  <2> QED BY <2>1, <2>2, <2>3 DEF Safe
<1>2. CASE Drop(s)
  <2>1. Places' /\ Arrival' /\ at'[World] = at[World]
    BY <1>0, <1>2, WorkerGoes DEF Drop, Arrival
  <2> QED BY <1>2, <2>1, WorkerQuiet DEF Drop
<1>3. CASE Expire(s)
  <2>1. Places' /\ Arrival' /\ at'[World] = at[World]
    BY <1>3 DEF Expire, Safe, Places, Arrival
  <2> QED BY <1>3, <2>1, WorkerQuiet DEF Expire
<1> QED BY <1>1, <1>2, <1>3

\* An answer that lets nobody in, and one that does.
LEMMA AnswerSafe ==
    ASSUME Safe, NEW s \in Sock, NEW a \in Account, HandleSessionInfo(s, a)
    PROVE  Safe'
<1> USE DEF socks, sessions, world, loop
<1>0. /\ at[Worker].pc = "idle" /\ pending' = pending \ {s} /\ s \in pending
      /\ UNCHANGED <<asked, mQueued, m_sessions, Sessions, queue, todo, doomed>>
      /\ {"kick", "create"} \subseteq WorkerLabel /\ {"idle", "unlock"} \subseteq Label
  BY Idles DEF HandleSessionInfo, WorkerLabel, Coming, Label
<1>1. CASE UNCHANGED <<account, at>>
  <2>1. Places' /\ Arrival'
    BY <1>0, <1>1 DEF Safe, Places, Arrival, Coming
  <2> QED BY <1>0, <1>1, <2>1, WorkerQuiet
<1>2. CASE FindSession(a) # None /\ Enter(Worker, "kick", FindSession(a), "idle") /\ UNCHANGED account
  <2>1. FindSession(a) \in Sock
    BY <1>2 DEF FindSession, Safe, Typed
  <2>2. Places' /\ Arrival' /\ at'[World] = at[World]
    BY <1>0, <1>2, <2>1, WorkerGoes DEF Arrival, Coming, Calling
  <2> QED BY <1>0, <1>2, <2>2, WorkerQuiet
<1>3. CASE /\ FindSession(a) = None /\ account' = [account EXCEPT ![s] = a]
           /\ Enter(Worker, "create", s, "unlock")
  <2>1. /\ Places' /\ at'[World] = at[World]
        /\ at'[Worker].pc = "create" /\ at'[Worker].sock = s
    BY <1>0, <1>3, WorkerGoes DEF Coming, Calling
  <2>2. s \notin Sessions \cup doomed /\ asked[s] /\ m_sessions[a] = None
    BY <1>0, <1>3 DEF Safe, Fresh, FindSession
  <2>3. Typed' /\ Unqueued' /\ Fresh' /\ account'[s] = a
    BY <1>0, <1>3 DEF Safe, Typed, Unqueued, Fresh
  <2>4. Arrival'
    BY <1>0, <2>1, <2>2, <2>3 DEF Arrival
  <2>5. \A x \in Sessions \cup doomed : account'[x] = account[x]
    BY <1>3, <2>2 DEF Safe, Typed
  <2>6. Books'
    BY <1>0, <2>1, <2>5 DEF Safe, Books
  <2> QED BY <2>1, <2>3, <2>4, <2>6 DEF Safe
<1> QED BY <1>1, <1>2, <1>3 DEF HandleSessionInfo, InformationRetreiveCallback

LEMMA WorkerSafe ==
    ASSUME Safe, Room, m_playerLimit \in Nat, WorkerStep
    PROVE  Safe'
<1> USE DEF socks, sessions, world, loop
<1> at \in [Process -> Place]
  BY DEF Safe, Places
<1>1. CASE Call(Worker)
  BY <1>1, CallSafe, Processes
<1>2. CASE Kick
  <2>1. CASE Faulty("freed")
    BY <2>1, FaultSafe
  <2>2. CASE ~Faulty("freed")
    <3> DEFINE x == at[Worker].sock
    <3>1. /\ Enter(Worker, "disconnect", x, "timer") \/ Goto(Worker, "timer")
          /\ UNCHANGED <<asked, pending, mQueued, account, m_sessions, Sessions, queue, todo, doomed>>
      BY <1>2, <2>2 DEF Kick
    <3>2. x \in Sock /\ at[Worker].then \in Label
      BY <1>2, Processes DEF Kick, Safe, Places, Place
    <3> HIDE DEF x
    <3>3. {"disconnect", "timer"} \subseteq WorkerLabel /\ "timer" \in Label
      BY DEF WorkerLabel, Calling, Label
    <3>4. Places' /\ Arrival' /\ at'[World] = at[World]
      <4>1. CASE Enter(Worker, "disconnect", x, "timer")
        BY <3>2, <3>3, <4>1, WorkerGoes DEF Arrival, Calling, Coming
      <4>2. CASE Goto(Worker, "timer")
        <5>1. /\ at' \in [Process -> Place] /\ at'[World] = at[World] /\ at'[Worker].pc = "timer"
          BY <3>3, <4>2, Gone, Processes
        <5> QED BY <5>1, Processes DEF Safe, Places, Arrival, Calling, Coming, WorkerLabel
      <4> QED BY <3>1, <4>1, <4>2
    <3> QED BY <3>1, <3>4, WorkerQuiet
  <2> QED BY <2>1, <2>2
<1>3. CASE SetLogoutTimer \/ ReleaseLocks
  <2>1. CASE Faulty("freed")
    BY <2>1, FaultSafe
  <2>2. CASE ~Faulty("freed")
    <3>1. /\ Finish(Worker)
          /\ UNCHANGED <<asked, pending, mQueued, account, m_sessions, Sessions, queue, todo, doomed>>
      BY <1>3, <2>2 DEF SetLogoutTimer, ReleaseLocks
    <3>2. /\ at' \in [Process -> Place] /\ at'[World] = at[World] /\ at'[Worker].pc = "idle"
      BY <3>1, Finished, Processes, Idles
    <3>3. Places' /\ Arrival'
      BY <3>2, Processes DEF Safe, Places, Arrival, Calling, Coming, WorkerLabel
    <3> QED BY <3>1, <3>2, <3>3, WorkerQuiet
  <2> QED BY <2>1, <2>2
<1>4. CASE CreateSession
  <2>1. at[Worker].pc \in Coming /\ Goto(Worker, "count") /\ "count" \in Coming
    BY <1>4 DEF CreateSession, Coming
  <2>2. /\ Places' /\ at'[World] = at[World]
        /\ at'[Worker].pc = "count" /\ at'[Worker].sock = at[Worker].sock
    BY <2>1, ComeOn
  <2>3. Arrival'
    BY <1>4, <2>1, <2>2 DEF CreateSession, Safe, Arrival, Coming
  <2> QED BY <1>4, <2>2, <2>3, WorkerQuiet DEF CreateSession
<1>5. CASE CheckQueue
  <2>1. at[Worker].pc \in Coming /\ "authenticate" \in Coming
    BY <1>5 DEF CheckQueue, Coming
  <2>2. SessionCount < m_playerLimit
    BY <1>5, <2>1, OneMore DEF CheckQueue, Safe, Arrival, Coming
  <2>3. Goto(Worker, "authenticate")
    BY <1>5, <2>2 DEF CheckQueue
  <2>4. /\ Places' /\ at'[World] = at[World]
        /\ at'[Worker].pc = "authenticate" /\ at'[Worker].sock = at[Worker].sock
    BY <2>1, <2>3, ComeOn
  <2>5. Arrival'
    BY <1>5, <2>1, <2>4 DEF CheckQueue, Safe, Arrival, Coming
  <2> QED BY <1>5, <2>4, <2>5, WorkerQuiet DEF CheckQueue
<1>6. CASE AddQueuedSocket \/ SetQueued
  BY <1>6 DEF AddQueuedSocket, SetQueued, Safe, Places, WorkerLabel, Calling, Coming
<1> QED BY <1>1, <1>2, <1>3, <1>4, <1>5, <1>6 DEF WorkerStep

-----------------------------------------------------------------------------
\* The world thread

LEMMA WorldGoes ==
    ASSUME Safe, NEW label \in {"idle", "update", "erase", "delete"},
           (label = "idle" /\ Finish(World)) \/ Goto(World, label)
    PROVE  Places' /\ at'[Worker] = at[Worker] /\ at'[World].pc = label
<1>1. label \in Label /\ label \in WorldLabel /\ at \in [Process -> Place]
  BY DEF Label, WorldLabel, Safe, Places
<1>2. /\ at' \in [Process -> Place] /\ at'[Worker] = at[Worker] /\ at'[World].pc = label
  <2>1. CASE label = "idle" /\ Finish(World)
    BY <1>1, <2>1, Finished, Processes, Idles
  <2>2. CASE Goto(World, label)
    BY <1>1, <2>2, Gone, Processes
  <2> QED BY <2>1, <2>2
<1>3. Places'
  BY <1>1, <1>2, Processes DEF Safe, Places, Calling
<1> QED BY <1>2, <1>3

LEMMA LoopSafe ==
    ASSUME Safe, NEW x \in Sock, UpdateOn(x) \/ UpdateDeleted(x) \/ UpdateTimeout(x) \/ DeleteSession(x)
    PROVE  Safe'
<1> USE DEF socks, sessions, world, loop
<1> at \in [Process -> Place]
  BY DEF Safe, Places
<1>1. CASE UpdateOn(x)
  <2>1. Places' /\ Books'
    BY <1>1 DEF UpdateOn, Safe, Places, Books
  <2> QED BY <1>1, <2>1, WorldQuiet DEF UpdateOn
<1>2. CASE UpdateDeleted(x)
  <2>1. /\ Sessions' = Sessions \ {x} /\ doomed' = doomed \cup {x} /\ todo' = todo \ {x}
        /\ UNCHANGED <<asked, pending, mQueued, account, m_sessions, queue, at>>
        /\ at[World].pc = "update" /\ x \in Sessions
    BY <1>2 DEF UpdateDeleted, Safe, Books
  <2>2. Places' /\ Books'
    BY <2>1 DEF Safe, Places, Books
  <2> QED BY <2>1, <2>2, WorldQuiet
<1>3. CASE UpdateTimeout(x)
  <2>0. {"disconnect", "forget"} \subseteq Label
    BY DEF Label, WorldLabel, Calling
  <2>1. PICK label \in {"disconnect", "forget"} : Enter(World, label, x, "forget")
    BY <1>3 DEF UpdateTimeout
  <2>2. /\ at' \in [Process -> Place] /\ at'[Worker] = at[Worker]
        /\ at'[World].pc = label /\ at'[World].sock = x /\ at'[World].then = "forget"
    BY <2>0, <2>1, Entered, Processes
  <2>3. Places'
    BY <2>2, Processes DEF Safe, Places, WorldLabel, Calling
  <2>4. Books'
    BY <1>3, <2>2 DEF UpdateTimeout, Safe, Books, Calling
  <2> QED BY <1>3, <2>2, <2>3, <2>4, WorldQuiet DEF UpdateTimeout
<1>4. CASE DeleteSession(x)
  <2>1. /\ doomed' = doomed \ {x} /\ at[World].pc = "delete"
        /\ UNCHANGED <<asked, pending, mQueued, account, m_sessions, Sessions, queue, todo>>
    BY <1>4 DEF DeleteSession
  <2>2. /\ Places' /\ at'[Worker] = at[Worker]
        /\ at'[World].pc = "delete" \/ (at'[World].pc = "idle" /\ doomed' = {})
    <3>1. CASE doomed = {x}
      BY <1>4, <3>1, WorldGoes DEF DeleteSession
    <3>2. CASE doomed # {x}
      BY <1>4, <3>2 DEF DeleteSession, Safe, Places
    <3> QED BY <3>1, <3>2
  <2>3. Books'
    BY <2>1, <2>2 DEF Safe, Books, Calling
  <2> QED BY <2>1, <2>2, <2>3, WorldQuiet
<1> QED BY <1>1, <1>2, <1>3, <1>4

LEMMA WorldSafe ==
    ASSUME Safe, WorldStep \/ StartSessions
    PROVE  Safe'
<1> USE DEF socks, sessions, world, loop
<1>1. CASE Call(World)
  BY <1>1, CallSafe, Processes
<1>2. CASE StartQueue \/ Admit \/ Guard \/ Release
  BY <1>2 DEF StartQueue, Admit, Guard, Release, Safe, Unqueued, Places, WorldLabel, Calling
<1>3. ASSUME NEW x \in Sock, UpdateOn(x) \/ UpdateDeleted(x) \/ UpdateTimeout(x) \/ DeleteSession(x)
      PROVE  Safe'
  BY <1>3, LoopSafe
<1>4. CASE ForgetSocket
  <2>1. Places' /\ at'[Worker] = at[Worker] /\ at'[World].pc = "update"
    BY <1>4, WorldGoes DEF ForgetSocket
  <2>2. Books'
    BY <1>4, <2>1 DEF ForgetSocket, Safe, Books
  <2> QED BY <1>4, <2>1, <2>2, WorldQuiet DEF ForgetSocket
<1>5. CASE EndSessions
  <2>1. /\ Places' /\ at'[Worker] = at[Worker]
        /\ at'[World].pc = IF doomed = {} THEN "idle" ELSE "erase"
    BY <1>5, WorldGoes DEF EndSessions
  <2>2. Books'
    BY <1>5, <2>1 DEF EndSessions, Safe, Books, Calling
  <2> QED BY <1>5, <2>1, <2>2, WorldQuiet DEF EndSessions
<1>6. CASE EraseSessions
  <2>1. Places' /\ at'[Worker] = at[Worker] /\ at'[World].pc = "delete"
    BY <1>6, WorldGoes DEF EraseSessions
  <2>2. /\ m_sessions' = [a \in Account |-> IF \E x \in doomed : account[x] = a THEN None
                                            ELSE m_sessions[a]]
        /\ UNCHANGED <<asked, pending, mQueued, account, Sessions, queue, todo, doomed>>
        /\ at[World].pc = "erase"
    BY <1>6 DEF EraseSessions
  <2>3. Typed' /\ Unqueued' /\ Fresh'
    BY <2>2 DEF Safe, Typed, Unqueued, Fresh
  <2>4. \A s \in Sock : /\ s \notin doomed /\ account[s] \in Account /\ m_sessions[account[s]] = s
                        => m_sessions'[account[s]] = s
    BY <2>2 DEF Safe, Books
  <2>5. Books'
    BY <2>1, <2>2, <2>4 DEF Safe, Books, Typed, Calling
  <2>6. \A a \in Account : m_sessions[a] = None => m_sessions'[a] = None
    BY <2>2
  <2>7. Arrival'
    BY <2>1, <2>2, <2>4, <2>6 DEF Safe, Arrival
  <2> QED BY <2>1, <2>3, <2>5, <2>7 DEF Safe
<1>7. CASE StartSessions
  <2>1. Places' /\ at'[Worker] = at[Worker] /\ at'[World].pc = "update"
    BY <1>7, WorldGoes DEF StartSessions
  <2>2. at[World].pc = "idle"
    BY <1>7, Idles DEF StartSessions
  <2>3. Books'
    BY <1>7, <2>1, <2>2 DEF StartSessions, Safe, Books
  <2> QED BY <1>7, <2>1, <2>3, WorldQuiet DEF StartSessions
<1> QED BY <1>1, <1>2, <1>3, <1>4, <1>5, <1>6, <1>7 DEF WorldStep

-----------------------------------------------------------------------------
LEMMA InitSafe == Init => Safe
<1> SUFFICES ASSUME Init PROVE Safe
  OBVIOUS
<1>1. \A p \in Process : at[p] = Idle
  BY DEF Init
<1>2. at \in [Process -> Place] /\ at[Worker].pc = "idle" /\ at[World].pc = "idle"
  BY <1>1, Idles, Processes DEF Init
<1>3. Places
  BY <1>1, <1>2, Idles DEF Places, WorkerLabel, WorldLabel, Calling, Coming
<1>4. Typed /\ Unqueued /\ Fresh
  BY DEF Init, Typed, Unqueued, Fresh
<1>5. Arrival /\ Books
  BY <1>2 DEF Init, Arrival, Books, Coming, Calling
<1> QED BY <1>3, <1>4, <1>5 DEF Safe

LEMMA NextSafe ==
    ASSUME Safe, Room, m_playerLimit \in Nat, [Next]_vars
    PROVE  Safe'
<1>1. ASSUME NEW s \in Sock, HandleAuthSession(s) \/ Drop(s) \/ Expire(s)
      PROVE  Safe'
  BY <1>1, PacketSafe
<1>2. ASSUME NEW s \in Sock, NEW a \in Account, HandleSessionInfo(s, a)
      PROVE  Safe'
  BY <1>2, AnswerSafe
<1>3. CASE WorkerStep
  BY <1>3, WorkerSafe
<1>4. CASE WorldStep \/ StartSessions
  BY <1>4, WorldSafe
<1>5. CASE UNCHANGED vars
  <2>1. UNCHANGED <<at, asked, pending, mQueued, account, m_sessions, Sessions, queue, todo, doomed>>
    BY <1>5 DEF vars, socks, sessions, world, loop
  <2>2. Places' /\ Arrival'
    BY <2>1 DEF Safe, Places, Arrival
  <2> QED BY <2>1, <2>2, WorkerQuiet
<1> QED BY <1>1, <1>2, <1>3, <1>4, <1>5 DEF Next

\* Nobody sets the player limit after the start.
LEMMA LimitStays ==
    ASSUME [Next]_vars
    PROVE  m_playerLimit' = m_playerLimit
<1> USE DEF server
<1>1. \A kind : Faulty(kind) => m_playerLimit' = m_playerLimit
  BY DEF Faulty
<1>2. ASSUME NEW p, Call(p) PROVE m_playerLimit' = m_playerLimit
  BY <1>1, <1>2 DEF Call, Disconnect, LeaveSession, UnauthedSocketClose, RemoveQueuedSocket,
                    Authenticate, AddSession, AddGlobalSession
<1>3. CASE WorkerStep
  BY <1>1, <1>2, <1>3 DEF WorkerStep, Kick, SetLogoutTimer, CreateSession, CheckQueue,
                          AddQueuedSocket, SetQueued, ReleaseLocks
<1>4. CASE WorldStep \/ StartSessions
  BY <1>1, <1>2, <1>4 DEF WorldStep, StartQueue, Admit, Guard, Release, UpdateOn, UpdateDeleted,
                          UpdateTimeout, DeleteSession, ForgetSocket, EndSessions, EraseSessions,
                          StartSessions
<1>5. ASSUME NEW s, NEW a, HandleAuthSession(s) \/ Drop(s) \/ Expire(s) \/ HandleSessionInfo(s, a)
      PROVE  m_playerLimit' = m_playerLimit
  BY <1>5 DEF HandleAuthSession, Drop, Expire, HandleSessionInfo
<1>6. CASE UNCHANGED vars
  BY <1>6 DEF vars
<1> QED BY <1>3, <1>4, <1>5, <1>6 DEF Next

Inv == m_playerLimit \in Nat /\ (Room => Safe)

THEOREM AccountsFree == Spec => []Inv
<1>1. Init => Inv
  BY InitSafe, AdmissionAssumption DEF Init, Inv
<1>2. Inv /\ [Next]_vars => Inv'
  BY NextSafe, LimitStays DEF Inv, Room
<1> QED BY <1>1, <1>2, PTL DEF Spec

\* On a server with room for every account, every session in the loop of the
\* world thread is the one that its account finds, for any number of sockets and
\* accounts.
THEOREM AccountsFindTheirs == Spec => []FoundByAccount
<1>1. Inv => FoundByAccount
  BY DEF Inv, Safe, Books, Room, FoundByAccount
<1> QED BY <1>1, AccountsFree, PTL

-----------------------------------------------------------------------------
\* From here on the server may be full.  First, the queue of those who wait.

\* What leaves at the head of a queue, comes to its end, or goes from its middle.
LEMMA TailQueue ==
    ASSUME NEW S, NEW q \in Seq(S), IsInjective(q), q # <<>>
    PROVE  /\ Tail(q) \in Seq(S) /\ IsInjective(Tail(q))
           /\ Head(q) \in ToSet(q) /\ Head(q) \in S /\ ToSet(Tail(q)) = ToSet(q) \ {Head(q)}
<1>1. /\ Len(q) \in Nat \ {0} /\ DOMAIN q = 1 .. Len(q) /\ Head(q) = q[1] /\ Tail(q) \in Seq(S)
      /\ DOMAIN Tail(q) = 1 .. Len(q) - 1 /\ \A i \in 1 .. Len(q) - 1 : Tail(q)[i] = q[i + 1]
  OBVIOUS
<1>2. IsInjective(Tail(q))
  BY <1>1 DEF IsInjective
<1>3. Head(q) \in ToSet(q) /\ Head(q) \in S
  BY <1>1 DEF ToSet
<1>4. ASSUME NEW x \in ToSet(q), x # Head(q) PROVE x \in ToSet(Tail(q))
  <2>1. PICK i \in 2 .. Len(q) : x = q[i]
    BY <1>1, <1>4 DEF ToSet
  <2>2. i - 1 \in 1 .. Len(q) - 1 /\ Tail(q)[i - 1] = x
    BY <1>1, <2>1
  <2> QED BY <1>1, <2>2 DEF ToSet
<1>5. ASSUME NEW x \in ToSet(Tail(q)) PROVE x \in ToSet(q) /\ x # Head(q)
  <2>1. PICK i \in 1 .. Len(q) - 1 : x = Tail(q)[i]
    BY <1>1, <1>5 DEF ToSet
  <2>2. x = q[i + 1] /\ i + 1 \in DOMAIN q /\ i + 1 # 1 /\ 1 \in DOMAIN q
    BY <1>1, <2>1
  <2> QED BY <1>1, <2>2 DEF ToSet, IsInjective
<1> QED BY <1>1, <1>2, <1>3, <1>4, <1>5

LEMMA AppendQueue ==
    ASSUME NEW S, NEW q \in Seq(S), IsInjective(q), NEW x \in S, x \notin ToSet(q)
    PROVE  /\ Append(q, x) \in Seq(S) /\ IsInjective(Append(q, x))
           /\ ToSet(Append(q, x)) = ToSet(q) \cup {x}
<1>1. /\ Len(q) \in Nat /\ DOMAIN q = 1 .. Len(q) /\ Append(q, x) \in Seq(S)
      /\ DOMAIN Append(q, x) = 1 .. Len(q) + 1 /\ Append(q, x)[Len(q) + 1] = x
      /\ \A i \in 1 .. Len(q) : Append(q, x)[i] = q[i]
  OBVIOUS
<1>2. \A i \in 1 .. Len(q) : q[i] # x
  BY <1>1 DEF ToSet
<1>3. IsInjective(Append(q, x))
  BY <1>1, <1>2 DEF IsInjective
<1>4. \A i \in 1 .. Len(q) + 1 : i \in 1 .. Len(q) \/ i = Len(q) + 1
  BY <1>1
<1>5. ToSet(Append(q, x)) = ToSet(q) \cup {x}
  BY <1>1, <1>4 DEF ToSet
<1> QED BY <1>1, <1>3, <1>5

LEMMA EraseQueue ==
    ASSUME NEW S, NEW q \in Seq(S), IsInjective(q), NEW i \in DOMAIN q
    PROVE  /\ RemoveAt(q, i) \in Seq(S) /\ IsInjective(RemoveAt(q, i))
           /\ ToSet(RemoveAt(q, i)) = ToSet(q) \ {q[i]}
<1> DEFINE r == RemoveAt(q, i)
           f == SubSeq(q, 1, i - 1)
           g == SubSeq(q, i + 1, Len(q))
<1>1. Len(q) \in Nat /\ DOMAIN q = 1 .. Len(q) /\ i \in 1 .. Len(q)
  OBVIOUS
<1>2. /\ f \in Seq(S) /\ Len(f) = i - 1 /\ \A j \in 1 .. i - 1 : f[j] = q[j]
  BY <1>1
<1>3. /\ g \in Seq(S) /\ Len(g) = Len(q) - i /\ \A j \in 1 .. Len(q) - i : g[j] = q[i + j]
  BY <1>1
<1>4. r = f \o g
  BY DEF RemoveAt
<1> HIDE DEF r, f, g
<1>5. /\ r \in Seq(S) /\ Len(r) = Len(q) - 1 /\ DOMAIN r = 1 .. Len(q) - 1
      /\ \A j \in 1 .. Len(q) - 1 : r[j] = IF j < i THEN q[j] ELSE q[j + 1]
  <2>1. r \in Seq(S) /\ Len(r) = Len(f) + Len(g) /\ DOMAIN r = 1 .. Len(f) + Len(g)
    BY <1>2, <1>3, <1>4
  <2>2. Len(f) + Len(g) = Len(q) - 1
    BY <1>1, <1>2, <1>3
  <2>3. ASSUME NEW j \in 1 .. Len(q) - 1
        PROVE  r[j] = IF j < i THEN q[j] ELSE q[j + 1]
    <3>1. r[j] = IF j <= Len(f) THEN f[j] ELSE g[j - Len(f)]
      BY <1>2, <1>3, <1>4, <2>2
    <3>2. CASE j < i
      BY <1>1, <1>2, <3>1, <3>2
    <3>3. CASE ~(j < i)
      <4>1. j - Len(f) \in 1 .. Len(q) - i /\ i + (j - Len(f)) = j + 1 /\ ~(j <= Len(f))
        BY <1>1, <1>2, <3>3
      <4> QED BY <1>3, <3>1, <3>3, <4>1
    <3> QED BY <3>2, <3>3
  <2> QED BY <2>1, <2>2, <2>3
<1>6. IsInjective(r)
  <2> SUFFICES ASSUME NEW a \in 1 .. Len(q) - 1, NEW b \in 1 .. Len(q) - 1, r[a] = r[b]
               PROVE  a = b
    BY <1>5 DEF IsInjective
  <2> DEFINE old(j) == IF j < i THEN j ELSE j + 1
  <2>1. \A j \in 1 .. Len(q) - 1 : old(j) \in DOMAIN q /\ r[j] = q[old(j)]
    BY <1>1, <1>5
  <2>2. old(a) = old(b)
    BY <2>1 DEF IsInjective
  <2> QED BY <1>1, <2>2
<1>7. ASSUME NEW x \in ToSet(q), x # q[i] PROVE x \in ToSet(r)
  <2>1. PICK j \in 1 .. Len(q) : x = q[j] /\ j # i
    BY <1>1, <1>7 DEF ToSet
  <2>2. \E k \in 1 .. Len(q) - 1 : r[k] = x
    <3>1. CASE j < i
      BY <1>1, <1>5, <2>1, <3>1
    <3>2. CASE j > i
      <4>1. j - 1 \in 1 .. Len(q) - 1 /\ ~(j - 1 < i) /\ (j - 1) + 1 = j
        BY <1>1, <3>2
      <4> QED BY <1>5, <2>1, <4>1
    <3> QED BY <1>1, <2>1, <3>1, <3>2
  <2> QED BY <1>5, <2>2 DEF ToSet
<1>8. ASSUME NEW x \in ToSet(r) PROVE x \in ToSet(q) /\ x # q[i]
  <2>1. PICK j \in 1 .. Len(q) - 1 : x = r[j]
    BY <1>5, <1>8 DEF ToSet
  <2>2. PICK k \in 1 .. Len(q) : x = q[k] /\ k # i
    BY <1>1, <1>5, <2>1
  <2> QED BY <1>1, <2>2 DEF ToSet, IsInjective
<1>9. ToSet(r) = ToSet(q) \ {q[i]}
  BY <1>7, <1>8
<1> QED BY <1>5, <1>6, <1>9 DEF r

-----------------------------------------------------------------------------
\* The labels at which a session is on its way into the loop, or into the queue.
Takes == {"count", "enqueue", "guard", "authenticate", "addsession", "addglobal"}

Departs == {"leave", "unrequest", "unqueue"}

Fits(p) ==
    LET l == at[p]
    IN  /\ l.pc \in Calling => l.then \in IF p = World THEN {"forget"} ELSE {"idle", "timer", "unlock"}
        /\ l.pc \in Takes \cup {"create", "flag"} => l.then = IF p = World THEN "release" ELSE "unlock"
        /\ l.pc \in Calling \cup Takes \cup {"create", "flag", "kick", "timer", "forget"}
             => l.sock \in Sock

Placed == at \in [Process -> Place] /\ \A p \in Process : Fits(p)

Kinds ==
    /\ asked \in [Sock -> BOOLEAN] /\ mRequestID \in [Sock -> BOOLEAN] /\ mQueued \in [Sock -> BOOLEAN]
    /\ account \in [Sock -> Account \cup {None}]
    /\ m_sessions \in [Account -> Sock \cup {None}]
    /\ pending \subseteq Sock /\ Sessions \subseteq Sock /\ todo \subseteq Sock /\ doomed \subseteq Sock
    /\ queue \in Seq(Sock)
    /\ pendingLock \in Process \cup {None} /\ queueMutex \in Process \cup {None}
    /\ SessionsMutex \in Process \cup {None}
    /\ deleteMutex \in [Sock -> Process \cup {None}]
    /\ m_playerLimit \in PlayerLimits /\ fault \in {"none", "null", "freed"}

\* A session that is in no list of the world.
Outside(s) == s \in Sock /\ session[s] = "live" /\ s \notin ToSet(queue) \cup Sessions \cup doomed

\* A session waits in the queue, then is in the loop, then waits for DeleteSessions,
\* and is nowhere twice; on the way from one to the next it is in one thread's hands.
Stages ==
    /\ IsInjective(queue)
    /\ \A s \in ToSet(queue) \cup Sessions \cup doomed : session[s] = "live"
    /\ Sessions \cap doomed = {} /\ ToSet(queue) \cap (Sessions \cup doomed) = {}
    /\ at[World].pc \in Calling \cup {"forget"} => at[World].sock \in Sessions
    /\ at[World].pc \in Calling \cup {"update", "forget"} => todo \subseteq Sessions
    /\ \A p \in Process : at[p].pc \in Takes => Outside(at[p].sock)
    /\ at[Worker].pc \in Takes /\ at[World].pc \in Takes => at[Worker].sock # at[World].sock

\* Who waits is flagged, or will be at once; and who is gone is about to be taken out.
Waiting ==
    at[Worker].pc # "undefined" =>
      \A s \in ToSet(queue) :
        /\ mQueued[s] \/ (at[Worker].pc = "flag" /\ at[Worker].sock = s)
        /\ connected[s] \/ \E p \in Process : at[p].sock = s /\ at[p].pc \in Departs

Sound == Kinds /\ Placed /\ Stages /\ Waiting

-----------------------------------------------------------------------------
\* The objects: no session is deleted that can still be reached.

LiveTyped ==
    /\ connected \in [Sock -> BOOLEAN] /\ mSession \in [Sock -> BOOLEAN]
    /\ socket \in [Sock -> BOOLEAN] /\ session \in [Sock -> {"none", "live", "deleted"}]
    /\ logout \in [Sock -> {"no", "set", "due"}]

\* Before it is made a session has no state; a session in a map is of that account;
\* one that waits for DeleteSessions is not its socket's any more.
Objects ==
    /\ \A s \in Sock : session[s] = "none" => ~mSession[s] /\ ~socket[s] /\ logout[s] = "no"
    /\ \A s \in pending : asked[s]
    /\ \A s \in Sock : s \in pending \/ ~asked[s] => session[s] = "none"
    /\ \A s \in Sock : logout[s] = "set" => ~socket[s]
    /\ \A a \in Account : m_sessions[a] \in Sock => account[m_sessions[a]] = a
    /\ \A x \in doomed : ~mSession[x]
    /\ at[World].pc = "delete" => \A x \in doomed, a \in Account : m_sessions[a] # x

\* The socket that a process disconnects.
Spot(p) ==
    /\ at[p].pc \in Departs => ~connected[at[p].sock]
    /\ at[p].pc \in {"unrequest", "unqueue"} => ~mSession[at[p].sock]

WorkerSpot ==
    LET s == at[Worker].sock
    IN  /\ at[Worker].pc \in {"kick", "timer"} \/ (at[Worker].pc \in Calling /\ at[Worker].then = "timer")
             => session[s] # "none"
        /\ at[Worker].pc = "timer" => ~(connected[s] /\ socket[s])
        /\ at[Worker].pc = "create" => session[s] = "none" /\ s \notin pending /\ asked[s]
        /\ at[Worker].pc \in {"create", "count", "enqueue"} => connected[s]

WorldSpot ==
    LET x == at[World].sock
    IN  /\ at[World].pc = "forget" => ~(connected[x] /\ socket[x])
        /\ at[World].pc \in {"disconnect", "forget"} /\ mSession[x] => logout[x] # "due"

\* A socket that has its session though it was disconnected is about to let go of
\* it; and if the session has let go of it first, the worker is about to.
Leaving(x) ==
    mSession[x] =>
      /\ ~connected[x] => \E p \in Process : at[p].pc = "leave" /\ at[p].sock = x
      /\ ~socket[x] => at[Worker].pc = "leave" /\ at[Worker].sock = x /\ logout[x] # "due"

Left == at[Worker].pc # "undefined" => \A x \in Sock : Leaving(x)

\* A fault stops both threads.
Together ==
    /\ at[Worker].pc = "undefined" <=> at[World].pc = "undefined"
    /\ fault = "none" => at[Worker].pc # "undefined"

Live ==
    /\ LiveTyped /\ ReachableLive /\ Objects /\ (\A p \in Process : Spot(p))
    /\ WorkerSpot /\ WorldSpot /\ Left /\ Together

objects == <<connected, mSession, session, socket, logout, fault>>

-----------------------------------------------------------------------------
\* Types

LEMMA FaultKinds ==
    ASSUME Kinds, NEW kind \in {"null", "freed"}, Faulty(kind)
    PROVE  Kinds'
BY DEF Faulty, Kinds, socks, sessions, world, locks, loop

LEMMA CallKinds ==
    ASSUME Sound, NEW p \in Process, Call(p)
    PROVE  Kinds'
<1> USE DEF socks, sessions, world, locks, loop, server
<1>0. Kinds /\ IsInjective(queue)
  BY DEF Sound, Stages
<1>1. CASE Disconnect(p) \/ UnauthedSocketClose(p) \/ Authenticate(p)
  BY <1>0, <1>1 DEF Disconnect, UnauthedSocketClose, Authenticate, Kinds
<1>2. CASE LeaveSession(p)
  BY <1>0, <1>2, FaultKinds DEF LeaveSession, Kinds
<1>3. CASE RemoveQueuedSocket(p)
  <2>1. queue' \in Seq(Sock)
    BY <1>0, <1>3, EraseQueue DEF RemoveQueuedSocket, Kinds
  <2> QED BY <1>0, <1>3, <2>1 DEF RemoveQueuedSocket, Kinds
<1>4. CASE AddSession(p)
  <2>1. at[p].sock \in Sock
    BY <1>4 DEF AddSession, Sound, Placed, Fits, Takes
  <2> QED BY <1>0, <1>4, <2>1, FaultKinds DEF AddSession, Kinds
<1>5. CASE AddGlobalSession(p)
  <2>1. at[p].sock \in Sock
    BY <1>5 DEF AddGlobalSession, Sound, Placed, Fits, Takes
  <2> QED BY <1>0, <1>5, <2>1, FaultKinds DEF AddGlobalSession, Kinds
<1> QED BY <1>1, <1>2, <1>3, <1>4, <1>5 DEF Call

LEMMA WorkerKinds ==
    ASSUME Sound, WorkerStep
    PROVE  Kinds'
<1> USE DEF socks, sessions, world, locks, loop, server
<1>0. Kinds /\ Worker \in Process
  BY Processes DEF Sound
<1>1. CASE Call(Worker)
  BY <1>0, <1>1, CallKinds
<1>2. CASE Kick \/ SetLogoutTimer
  BY <1>0, <1>2, FaultKinds DEF Kick, SetLogoutTimer, Kinds
<1>3. CASE CreateSession \/ CheckQueue \/ SetQueued \/ ReleaseLocks
  BY <1>0, <1>3 DEF CreateSession, CheckQueue, SetQueued, ReleaseLocks, Kinds
<1>4. CASE AddQueuedSocket
  <2>1. at[Worker].sock \in Sock
    BY <1>0, <1>4 DEF AddQueuedSocket, Sound, Placed, Fits, Takes
  <2>2. queue' \in Seq(Sock)
    BY <1>0, <1>4, <2>1 DEF AddQueuedSocket, Kinds
  <2> QED BY <1>0, <1>4, <2>2 DEF AddQueuedSocket, Kinds
<1> QED BY <1>1, <1>2, <1>3, <1>4 DEF WorkerStep

LEMMA WorldKinds ==
    ASSUME Sound, WorldStep \/ StartSessions
    PROVE  Kinds'
<1> USE DEF socks, sessions, world, locks, loop, server
<1>0. Kinds /\ World \in Process
  BY Processes DEF Sound
<1>1. CASE Call(World)
  BY <1>0, <1>1, CallKinds
<1>2. CASE StartQueue \/ StartSessions \/ EndSessions \/ ForgetSocket
  BY <1>0, <1>2 DEF StartQueue, StartSessions, EndSessions, ForgetSocket, Kinds
<1>3. CASE Admit
  <2>1. queue' \in Seq(Sock)
    BY <1>0, <1>3 DEF Admit, Kinds
  <2>2. queueMutex' \in Process \cup {None}
    BY <1>0, <1>3 DEF Admit, Kinds
  <2> QED BY <1>0, <1>3, <2>1, <2>2 DEF Admit, Kinds
<1>4. CASE Guard \/ Release
  BY <1>0, <1>4, FaultKinds DEF Guard, Release, Kinds
<1>5. ASSUME NEW x \in Sock, UpdateOn(x) \/ UpdateDeleted(x) \/ UpdateTimeout(x) \/ DeleteSession(x)
      PROVE  Kinds'
  BY <1>0, <1>5 DEF UpdateOn, UpdateDeleted, UpdateTimeout, DeleteSession, Kinds
<1>6. CASE EraseSessions
  <2>1. m_sessions' \in [Account -> Sock \cup {None}]
    BY <1>0, <1>6 DEF EraseSessions, Kinds
  <2> QED BY <1>0, <1>6, <2>1 DEF EraseSessions, Kinds
<1> QED BY <1>1, <1>2, <1>3, <1>4, <1>5, <1>6 DEF WorldStep

LEMMA KindsNext ==
    ASSUME Sound, [Next]_vars
    PROVE  Kinds'
<1> USE DEF socks, sessions, world, locks, loop, server
<1>0. Kinds
  BY DEF Sound
<1>1. ASSUME NEW s \in Sock, HandleAuthSession(s) \/ Drop(s) \/ Expire(s)
      PROVE  Kinds'
  BY <1>0, <1>1 DEF HandleAuthSession, Drop, Expire, Kinds
<1>2. ASSUME NEW s \in Sock, NEW a \in Account, HandleSessionInfo(s, a)
      PROVE  Kinds'
  <2>1. InformationRetreiveCallback(s, a)
    BY <1>2 DEF HandleSessionInfo
  <2>2. account' \in [Sock -> Account \cup {None}]
    BY <1>0, <2>1 DEF InformationRetreiveCallback, Kinds
  <2>3. mRequestID' \in [Sock -> BOOLEAN]
    BY <1>0, <2>1 DEF InformationRetreiveCallback, Kinds
  <2>4. pendingLock' \in Process \cup {None}
    BY <1>0, <2>1, Processes DEF InformationRetreiveCallback, Kinds
  <2> QED BY <1>0, <1>2, <2>2, <2>3, <2>4 DEF HandleSessionInfo, Kinds
<1>3. CASE WorkerStep
  BY <1>3, WorkerKinds
<1>4. CASE WorldStep \/ StartSessions
  BY <1>4, WorldKinds
<1>5. CASE UNCHANGED vars
  BY <1>0, <1>5 DEF vars, Kinds
<1> QED BY <1>1, <1>2, <1>3, <1>4, <1>5 DEF Next

-----------------------------------------------------------------------------
\* Where the threads are, and where the sessions are

LEMMA Labels ==
    /\ Calling \subseteq Label /\ Takes \subseteq Label /\ Departs \subseteq Calling
    /\ {"idle", "timer", "unlock", "flag", "create", "kick", "admit", "guard", "release",
        "update", "forget", "erase", "delete", "undefined"} \subseteq Label
    /\ "undefined" \notin Calling \cup Takes
BY DEF Label, WorkerLabel, WorldLabel, Calling, Coming, Takes, Departs

LEMMA Stands ==
    ASSUME Sound, NEW p \in Process
    PROVE  /\ at \in [Process -> Place] /\ Fits(p) /\ at[p].then \in Label
           /\ at[p].sock \in Sock \cup {None} /\ queue \in Seq(Sock)
BY DEF Sound, Placed, Place, Kinds

LEMMA Waiters ==
    ASSUME Kinds
    PROVE  ToSet(queue) \subseteq Sock
BY DEF Kinds, ToSet

LEMMA PlacedOn ==
    ASSUME Sound, NEW p \in Process, at' \in [Process -> Place], Fits(p)',
           \A q \in Process \ {p} : at'[q] = at[q]
    PROVE  Placed'
<1>1. ASSUME NEW q \in Process PROVE Fits(q)'
  <2>1. CASE q = p
    BY <2>1
  <2>2. CASE q # p
    BY <2>2, Stands DEF Fits
  <2> QED BY <2>1, <2>2
<1> QED BY <1>1 DEF Placed

\* A move of a thread that leaves the sessions where they are.
LEMMA Moves ==
    ASSUME Sound, NEW p \in Process, at' \in [Process -> Place], Fits(p)',
           \A q \in Process \ {p} : at'[q] = at[q],
           UNCHANGED <<session, Sessions, queue, doomed>>,
           at'[p].pc \in Takes => at[p].pc \in Takes /\ at'[p].sock = at[p].sock,
           p = Worker => todo' = todo,
           p = World => /\ at'[p].pc \in Calling \cup {"forget"} => at'[p].sock \in Sessions
                        /\ at'[p].pc \in Calling \cup {"update", "forget"} => todo' \subseteq Sessions
    PROVE  Placed' /\ Stages'
<1>1. Placed'
  BY PlacedOn
<1>2. \A q \in Process : at'[q].pc \in Takes => at[q].pc \in Takes /\ at'[q].sock = at[q].sock
  OBVIOUS
<1>3. /\ at'[World].pc \in Calling \cup {"forget"} => at'[World].sock \in Sessions
      /\ at'[World].pc \in Calling \cup {"update", "forget"} => todo' \subseteq Sessions
  BY Processes DEF Sound, Stages
<1>4. Stages'
  <2>1. \A q \in Process : at'[q].pc \in Takes => Outside(at[q].sock)'
    BY <1>2 DEF Sound, Stages, Outside
  <2>2. at'[Worker].pc \in Takes /\ at'[World].pc \in Takes => at'[Worker].sock # at'[World].sock
    BY <1>2, Processes DEF Sound, Stages
  <2> QED BY <1>3, <2>1, <2>2 DEF Sound, Stages
<1> QED BY <1>1, <1>4

\* A move of a thread that leaves those who wait as they are, but for the one
\* whom it takes out, flags or disconnects.
LEMMA Waits ==
    ASSUME Sound, NEW p \in Process, at[p].pc # "undefined",
           \A q \in Process \ {p} : at'[q] = at[q],
           ToSet(queue') \subseteq ToSet(queue),
           \A s \in ToSet(queue') :
             /\ mQueued[s] \/ (p = Worker /\ at[p].pc = "flag" /\ at[p].sock = s) => mQueued'[s]
             /\ connected[s] => connected'[s] \/ (at'[p].pc \in Departs /\ at'[p].sock = s)
             /\ at[p].pc \in Departs /\ at[p].sock = s => at'[p].pc \in Departs /\ at'[p].sock = s
    PROVE  Waiting'
<1> SUFFICES ASSUME at'[Worker].pc # "undefined", NEW s \in ToSet(queue')
             PROVE  /\ mQueued'[s] \/ (at'[Worker].pc = "flag" /\ at'[Worker].sock = s)
                    /\ connected'[s] \/ \E q \in Process : at'[q].sock = s /\ at'[q].pc \in Departs
  BY DEF Waiting
<1>1. at[Worker].pc # "undefined"
  BY Processes
<1>2. /\ mQueued[s] \/ (at[Worker].pc = "flag" /\ at[Worker].sock = s)
      /\ connected[s] \/ \E q \in Process : at[q].sock = s /\ at[q].pc \in Departs
  BY <1>1 DEF Sound, Waiting
<1>3. mQueued'[s] \/ (at'[Worker].pc = "flag" /\ at'[Worker].sock = s)
  BY <1>2, Processes
<1>4. CASE connected[s]
  BY <1>3, <1>4
<1>5. ASSUME NEW q \in Process, at[q].sock = s, at[q].pc \in Departs
      PROVE  at'[q].sock = s /\ at'[q].pc \in Departs
  BY <1>5
<1> QED BY <1>2, <1>3, <1>4, <1>5

\* In particular one that is in no departure and flags nobody.
LEMMA MoveWaits ==
    ASSUME Sound, NEW p \in Process, at[p].pc \notin Departs \cup {"undefined", "flag"},
           \A q \in Process \ {p} : at'[q] = at[q],
           UNCHANGED <<queue, mQueued, connected>>
    PROVE  Waiting'
BY Waits

LEMMA FaultSound ==
    ASSUME Sound, NEW kind, Faulty(kind)
    PROVE  Placed' /\ Stages' /\ Waiting'
<1> USE DEF socks, sessions, world, loop
<1>1. at' = [p \in Process |-> [Idle EXCEPT !.pc = "undefined"]]
  BY DEF Faulty
<1>2. at' \in [Process -> Place] /\ \A p \in Process : at'[p].pc = "undefined"
  BY <1>1, Labels DEF Idle, Place
<1>3. Placed' /\ Waiting'
  BY <1>2, Processes, Labels DEF Placed, Fits, Waiting
<1>4. UNCHANGED <<session, Sessions, queue, doomed, todo>>
  BY DEF Faulty
<1>5. Stages'
  BY <1>2, <1>4, Processes, Labels DEF Sound, Stages
<1> QED BY <1>3, <1>5

-----------------------------------------------------------------------------
\* Disconnect and Authenticate

\* A process that goes on in Disconnect, or comes back from it.
LEMMA CallMoves ==
    ASSUME Sound, NEW p \in Process, at[p].pc \in Calling,
           Return(p) \/ \E label \in Calling : Goto(p, label)
    PROVE  /\ at' \in [Process -> Place] /\ Fits(p)' /\ at'[p].pc \notin Takes
           /\ \A q \in Process \ {p} : at'[q] = at[q]
           /\ at'[p].pc \in Calling => at'[p].sock = at[p].sock
           /\ p = World => at'[p].pc \in Calling \cup {"forget"} /\ at'[p].sock = at[p].sock
<1>1. /\ at \in [Process -> Place] /\ at[p].sock \in Sock
      /\ at[p].then \in IF p = World THEN {"forget"} ELSE {"idle", "timer", "unlock"}
  BY Stands DEF Fits
<1>0. Calling \cap Takes = {} /\ {"idle", "timer", "unlock", "forget"} \cap (Calling \cup Takes) = {}
  BY DEF Calling, Takes
<1>2. CASE Return(p) /\ at[p].then = "idle"
  <2>1. /\ at' \in [Process -> Place] /\ at'[p] = Idle /\ p # World
        /\ \A q \in Process \ {p} : at'[q] = at[q]
    BY <1>1, <1>2, Finished DEF Return
  <2>2. Fits(p)'
    BY <2>1, Idles DEF Fits, Calling, Takes
  <2> QED BY <1>0, <2>1, <2>2, Idles
<1>3. CASE Return(p) /\ at[p].then # "idle"
  <2>1. /\ at' \in [Process -> Place] /\ at'[p].pc = at[p].then /\ at'[p].sock = at[p].sock
        /\ \A q \in Process \ {p} : at'[q] = at[q]
    BY <1>1, <1>3, Gone, Stands DEF Return
  <2>2. Fits(p)'
    BY <1>1, <2>1 DEF Fits, Calling, Takes
  <2> QED BY <1>0, <1>1, <2>1, <2>2
<1>4. ASSUME NEW label \in Calling, Goto(p, label)
      PROVE  /\ at' \in [Process -> Place] /\ Fits(p)' /\ at'[p].pc \notin Takes
             /\ \A q \in Process \ {p} : at'[q] = at[q]
             /\ at'[p].sock = at[p].sock /\ at'[p].pc \in Calling
  <2>1. /\ at' \in [Process -> Place] /\ at'[p].pc = label /\ at'[p].sock = at[p].sock
        /\ at'[p].then = at[p].then /\ \A q \in Process \ {p} : at'[q] = at[q]
    BY <1>1, <1>4, Gone, Labels
  <2>2. Fits(p)'
    BY <1>0, <1>1, <2>1 DEF Fits, Calling, Takes
  <2> QED BY <1>0, <2>1, <2>2
<1> QED BY <1>2, <1>3, <1>4

LEMMA CallStages ==
    ASSUME Sound, NEW p \in Process, at[p].pc \in Calling,
           Return(p) \/ \E label \in Calling : Goto(p, label),
           UNCHANGED <<session, Sessions, queue, doomed, todo>>
    PROVE  Placed' /\ Stages'
<1>1. /\ at' \in [Process -> Place] /\ Fits(p)' /\ at'[p].pc \notin Takes
      /\ \A q \in Process \ {p} : at'[q] = at[q]
      /\ p = World => at'[p].sock = at[p].sock
  BY CallMoves
<1>2. p = World => at[p].sock \in Sessions /\ todo \subseteq Sessions
  BY DEF Sound, Stages
<1> QED BY <1>1, <1>2, Moves

\* The sockets that the world thread disconnects are not in the queue.
LEMMA NotWaiting ==
    ASSUME Sound, at[World].pc \in Calling
    PROVE  at[World].sock \notin ToSet(queue)
BY DEF Sound, Stages

LEMMA DisconnectSound ==
    ASSUME Sound, NEW p \in Process, Disconnect(p)
    PROVE  Placed' /\ Stages' /\ Waiting'
<1> USE DEF sessions, world, loop
<1> DEFINE s == at[p].sock
<1>1. /\ at[p].pc = "disconnect" /\ at[p].pc \in Calling /\ s \in Sock
      /\ connected' = [connected EXCEPT ![s] = FALSE]
      /\ IF connected[s] THEN Goto(p, "leave") ELSE Return(p)
      /\ UNCHANGED <<session, Sessions, queue, doomed, todo, mQueued>>
  BY Stands DEF Disconnect, Calling, Fits
<1>2. Return(p) \/ \E label \in Calling : Goto(p, label)
  BY <1>1 DEF Calling
<1>3. Placed' /\ Stages'
  BY <1>1, <1>2, CallStages
<1>4. Waiting'
  <2>1. \A q \in Process \ {p} : at'[q] = at[q]
    BY <1>1, <1>2, CallMoves
  <2>2. connected[s] => at'[p].pc = "leave" /\ at'[p].sock = s
    BY <1>1, Gone, Labels, Stands DEF Calling
  <2>3. \A x \in Sock : connected[x] => connected'[x] \/ x = s
    BY <1>1
  <2>4. ToSet(queue') = ToSet(queue) /\ ToSet(queue) \subseteq Sock
    BY <1>1, Waiters DEF Sound
  <2>5. at[p].pc \notin Departs \cup {"undefined", "flag"} /\ "leave" \in Departs
    BY <1>1 DEF Departs
  <2> HIDE DEF s
  <2> QED BY <1>1, <2>1, <2>2, <2>3, <2>4, <2>5, Waits
<1> QED BY <1>3, <1>4

LEMMA LeaveSound ==
    ASSUME Sound, NEW p \in Process, LeaveSession(p) \/ UnauthedSocketClose(p)
    PROVE  Placed' /\ Stages' /\ Waiting'
<1> USE DEF socks, sessions, world, loop
<1>1. CASE \E kind : Faulty(kind)
  BY <1>1, FaultSound
<1>2. CASE ~ \E kind : Faulty(kind)
  <2>1. /\ at[p].pc \in Departs
        /\ UNCHANGED <<session, Sessions, queue, doomed, todo, mQueued, connected>>
    BY <1>2 DEF LeaveSession, UnauthedSocketClose, Departs
  <2>2. PICK label \in Departs : Goto(p, label)
    BY <1>2 DEF LeaveSession, UnauthedSocketClose, Departs
  <2>3. at[p].pc \in Calling /\ label \in Calling /\ at[p].pc # "undefined"
    BY <2>1, <2>2, Labels
  <2>4. Placed' /\ Stages'
    BY <2>1, <2>2, <2>3, CallStages
  <2>5. /\ at'[p].pc = label /\ at'[p].sock = at[p].sock
        /\ \A q \in Process \ {p} : at'[q] = at[q]
    BY <2>2, <2>3, Gone, Labels, Stands
  <2>6. at[p].pc # "flag"
    BY <2>1 DEF Departs
  <2> QED BY <2>1, <2>3, <2>4, <2>5, <2>6, Waits
<1> QED BY <1>1, <1>2

LEMMA RemoveQueuedSocketSound ==
    ASSUME Sound, NEW p \in Process, RemoveQueuedSocket(p)
    PROVE  Placed' /\ Stages' /\ Waiting'
<1> USE DEF sessions, loop
<1> DEFINE s == at[p].sock
<1>1. /\ at[p].pc = "unqueue" /\ at[p].pc \in Calling /\ s \in Sock /\ Return(p)
      /\ mQueued' = [mQueued EXCEPT ![s] = FALSE]
      /\ UNCHANGED <<session, Sessions, doomed, todo, connected>>
  BY Stands DEF RemoveQueuedSocket, Calling, Fits
<1>2. queue \in Seq(Sock) /\ IsInjective(queue) /\ mQueued \in [Sock -> BOOLEAN]
  BY DEF Sound, Stages, Kinds
<1>3. IsInjective(queue') /\ ToSet(queue') = ToSet(queue) \ {s}
  <2>1. CASE mQueued[s] /\ s \in ToSet(queue)
    <3>1. PICK i \in DOMAIN queue : queue[i] = s /\ queue' = RemoveAt(queue, i)
      BY <2>1 DEF RemoveQueuedSocket
    <3> QED BY <1>2, <3>1, EraseQueue
  <2>2. CASE ~(mQueued[s] /\ s \in ToSet(queue))
    <3>1. queue' = queue
      BY <2>2 DEF RemoveQueuedSocket, ToSet
    <3>2. s \notin ToSet(queue)
      <4>1. CASE p = Worker
        BY <1>1, <2>2, <4>1 DEF Sound, Waiting
      <4>2. CASE p = World
        BY <1>1, <4>2, NotWaiting
      <4> QED BY <4>1, <4>2, Processes
    <3> QED BY <1>2, <3>1, <3>2
  <2> QED BY <2>1, <2>2
<1>4. /\ at' \in [Process -> Place] /\ Fits(p)' /\ at'[p].pc \notin Takes
      /\ \A q \in Process \ {p} : at'[q] = at[q]
      /\ p = World => at'[p].sock = at[p].sock
  BY <1>1, CallMoves
<1>5. Placed'
  BY <1>4, PlacedOn
<1>6. Stages'
  <2>1. \A q \in Process : at'[q].pc \in Takes => Outside(at[q].sock)'
    BY <1>1, <1>3, <1>4 DEF Sound, Stages, Outside
  <2>2. at'[Worker].pc \in Takes /\ at'[World].pc \in Takes => at'[Worker].sock # at'[World].sock
    BY <1>4, Processes
  <2>3. /\ at'[World].pc \in Calling \cup {"forget"} => at'[World].sock \in Sessions
        /\ at'[World].pc \in Calling \cup {"update", "forget"} => todo \subseteq Sessions
    <3>1. CASE p = World
      BY <1>1, <1>4, <3>1 DEF Sound, Stages
    <3>2. CASE p # World
      BY <1>4, <3>2, Processes DEF Sound, Stages
    <3> QED BY <3>1, <3>2
  <2>4. /\ \A x \in ToSet(queue') \cup Sessions' \cup doomed' : session'[x] = "live"
        /\ Sessions' \cap doomed' = {} /\ ToSet(queue') \cap (Sessions' \cup doomed') = {}
    BY <1>1, <1>3 DEF Sound, Stages
  <2> QED BY <1>1, <1>3, <2>1, <2>2, <2>3, <2>4 DEF Stages
<1>7. Waiting'
  <2>1. \A x \in ToSet(queue') : x # s /\ x \in Sock /\ mQueued'[x] = mQueued[x]
    BY <1>1, <1>2, <1>3, Waiters DEF Sound
  <2>2. /\ at[p].pc # "flag" /\ at[p].pc # "undefined" /\ ToSet(queue') \subseteq ToSet(queue)
        /\ connected' = connected /\ \A q \in Process \ {p} : at'[q] = at[q]
    BY <1>1, <1>3, <1>4
  <2>3. \A x \in ToSet(queue') : at[p].sock # x /\ mQueued'[x] = mQueued[x]
    BY <2>1
  <2> QED BY <2>2, <2>3, Waits
<1> QED BY <1>5, <1>6, <1>7

\* A newcomer goes on, or is in the loop or, one whom the world thread let in, in nobody's hands.
LEMMA TakeMoves ==
    ASSUME Sound, NEW p \in Process, at[p].pc \in Takes \cup {"create", "flag"},
           NEW label \in Takes \cup {"unlock", "flag", "disconnect", "admit", "release"},
           Goto(p, label), p = World => label # "disconnect" /\ label # "flag"
    PROVE  /\ at' \in [Process -> Place] /\ Fits(p)' /\ at'[p].pc = label
           /\ at'[p].sock = at[p].sock /\ at'[p].then = at[p].then
           /\ \A q \in Process \ {p} : at'[q] = at[q]
<1>1. /\ label \in Label /\ at \in [Process -> Place]
      /\ at[p].sock \in Sock /\ at[p].then = IF p = World THEN "release" ELSE "unlock"
  BY Labels, Stands DEF Fits, Calling
<1>2. /\ at' \in [Process -> Place] /\ at'[p].pc = label
      /\ at'[p].sock = at[p].sock /\ at'[p].then = at[p].then
      /\ \A q \in Process \ {p} : at'[q] = at[q]
  BY <1>1, Gone
<1>3. Fits(p)'
  BY <1>1, <1>2 DEF Fits, Calling, Takes
<1> QED BY <1>2, <1>3

LEMMA TakeStages ==
    ASSUME Sound, NEW p \in Process, at[p].pc \in Takes \cup {"flag"},
           NEW label \in Takes \cup {"unlock", "disconnect", "admit", "release"},
           Goto(p, label), p = World => label # "disconnect",
           at[p].pc = "flag" => label = "unlock",
           UNCHANGED <<session, Sessions, queue, doomed, todo>>
    PROVE  Placed' /\ Stages'
<1>1. /\ at' \in [Process -> Place] /\ Fits(p)' /\ at'[p].pc = label
      /\ at'[p].sock = at[p].sock /\ \A q \in Process \ {p} : at'[q] = at[q]
  BY TakeMoves DEF Takes
<1>2. p = World => at'[p].pc \notin Calling \cup {"forget", "update"}
  BY <1>1 DEF Calling, Takes
<1>3. "unlock" \notin Takes
  BY DEF Takes
<1> QED BY <1>1, <1>2, <1>3, Moves

\* A newcomer is not in the queue, nor in the hands of the other thread.
LEMMA TakesOutside ==
    ASSUME Sound, NEW p \in Process, at[p].pc \in Takes
    PROVE  /\ Outside(at[p].sock) /\ at[p].then = IF p = World THEN "release" ELSE "unlock"
           /\ \A q \in Process \ {p} : at[q].pc \in Takes => at[q].sock # at[p].sock
BY Stands, Processes DEF Sound, Stages, Fits

LEMMA AuthenticateSound ==
    ASSUME Sound, NEW p \in Process, Authenticate(p) \/ AddSession(p)
    PROVE  Placed' /\ Stages' /\ Waiting'
<1> USE DEF socks, sessions, world, loop
<1>1. CASE \E kind : Faulty(kind)
  BY <1>1, FaultSound
<1>2. CASE ~ \E kind : Faulty(kind)
  <2>1. /\ at[p].pc \in Takes
        /\ UNCHANGED <<session, Sessions, queue, doomed, todo, connected>>
        /\ mQueued' \in {mQueued, [mQueued EXCEPT ![at[p].sock] = FALSE]}
    BY <1>2 DEF Authenticate, AddSession, Takes
  <2>2. Outside(at[p].sock) /\ at[p].then = IF p = World THEN "release" ELSE "unlock"
    BY <2>1, TakesOutside
  <2>3. PICK label \in Takes \cup {"unlock", "release"} :
          Goto(p, label) /\ label \in {"addsession", "addglobal", at[p].then}
    BY <1>2, <2>2 DEF Authenticate, AddSession, Return, Takes
  <2>4. Placed' /\ Stages'
    BY <2>1, <2>3, TakeStages DEF Takes
  <2>5. \A q \in Process \ {p} : at'[q] = at[q]
    BY <2>1, <2>3, TakeMoves DEF Takes
  <2>6. \A s \in ToSet(queue) : s # at[p].sock /\ mQueued'[s] = mQueued[s]
    BY <2>1, <2>2, Waiters DEF Outside, Sound, Kinds
  <2>7. at[p].pc \notin Departs \cup {"undefined", "flag"}
    BY <2>1 DEF Takes, Departs
  <2> QED BY <2>1, <2>4, <2>5, <2>6, <2>7, Waits
<1> QED BY <1>1, <1>2

LEMMA AddGlobalSessionSound ==
    ASSUME Sound, NEW p \in Process, AddGlobalSession(p)
    PROVE  Placed' /\ Stages' /\ Waiting'
<1> USE DEF socks, sessions, world, loop
<1>1. CASE Faulty("null")
  BY <1>1, FaultSound
<1>2. CASE ~Faulty("null")
  <2> DEFINE s == at[p].sock
  <2>1. /\ at[p].pc = "addglobal" /\ Sessions' = Sessions \cup {s} /\ Return(p)
        /\ UNCHANGED <<session, queue, doomed, todo, connected, mQueued>>
    BY <1>2 DEF AddGlobalSession
  <2>2. /\ Outside(s) /\ at[p].then = IF p = World THEN "release" ELSE "unlock"
        /\ \A q \in Process \ {p} : at[q].pc \in Takes => at[q].sock # s
    BY <2>1, TakesOutside DEF Takes
  <2>3. PICK label \in {"unlock", "release"} : Goto(p, label)
    BY <2>1, <2>2 DEF Return
  <2>4. /\ at' \in [Process -> Place] /\ Fits(p)' /\ at'[p].pc \in {"unlock", "release"}
        /\ \A q \in Process \ {p} : at'[q] = at[q]
    BY <2>1, <2>3, TakeMoves DEF Takes
  <2> HIDE DEF s
  <2>5. Placed'
    BY <2>4, PlacedOn
  <2>6. \A q \in Process : at'[q].pc \in Takes => at[q].pc \in Takes /\ q # p /\ at'[q] = at[q]
    BY <2>4 DEF Takes
  <2>7. Stages'
    <3>1. \A q \in Process : at'[q].pc \in Takes => Outside(at[q].sock)'
      BY <2>1, <2>2, <2>6, TakesOutside DEF Outside
    <3>2. at'[World].pc \in Calling \cup {"forget", "update"} => at'[World] = at[World]
      BY <2>4, Processes DEF Calling
    <3>3. /\ \A x \in ToSet(queue) \cup Sessions' \cup doomed : session[x] = "live"
          /\ Sessions' \cap doomed = {} /\ ToSet(queue) \cap (Sessions' \cup doomed) = {}
      BY <2>1, <2>2 DEF Sound, Stages, Outside
    <3> QED BY <2>1, <2>6, <3>1, <3>2, <3>3, Processes DEF Sound, Stages
  <2>8. Waiting'
    BY <2>1, <2>4, MoveWaits DEF Departs
  <2> QED BY <2>5, <2>7, <2>8
<1> QED BY <1>1, <1>2

LEMMA CallSound ==
    ASSUME Sound, NEW p \in Process, Call(p)
    PROVE  Placed' /\ Stages' /\ Waiting'
BY DisconnectSound, LeaveSound, RemoveQueuedSocketSound, AuthenticateSound, AddGlobalSessionSound
   DEF Call

-----------------------------------------------------------------------------
\* The worker

\* The worker begins something that is no part of a login.
LEMMA WorkerBegins ==
    ASSUME Sound, NEW label \in {"disconnect", "kick", "create", "timer"}, NEW s \in Sock, NEW then \in Label,
           Enter(Worker, label, s, then), then \in {"idle", "timer", "unlock"},
           label = "create" => then = "unlock",
           at[Worker].pc \notin Departs \cup {"undefined", "flag"},
           UNCHANGED <<session, Sessions, queue, doomed, todo, mQueued, connected>>
    PROVE  /\ Placed' /\ Stages' /\ Waiting'
           /\ at'[Worker].pc = label /\ at'[Worker].sock = s /\ at'[Worker].then = then
           /\ at'[World] = at[World]
<1>1. label \in Label /\ at \in [Process -> Place] /\ Worker \in Process /\ Worker # World
  BY Labels, Stands, Processes DEF Calling
<1>2. /\ at' \in [Process -> Place] /\ at'[Worker].pc = label /\ at'[Worker].sock = s
      /\ at'[Worker].then = then /\ \A q \in Process \ {Worker} : at'[q] = at[q]
  BY <1>1, Entered
<1>3. Fits(Worker)' /\ at'[Worker].pc \notin Takes
  BY <1>1, <1>2 DEF Fits, Calling, Takes
<1>4. Placed' /\ Stages'
  BY <1>1, <1>2, <1>3, Moves
<1>5. Waiting'
  BY <1>1, <1>2, MoveWaits
<1> QED BY <1>2, <1>4, <1>5, Processes

\* A process is done.
LEMMA Ends ==
    ASSUME Sound, NEW p \in Process, Finish(p), at[p].pc \notin Departs \cup {"undefined", "flag"},
           UNCHANGED <<session, Sessions, queue, doomed, todo, mQueued, connected>>
    PROVE  Placed' /\ Stages' /\ Waiting'
<1>1. /\ at' \in [Process -> Place] /\ at'[p] = Idle /\ \A q \in Process \ {p} : at'[q] = at[q]
  BY Stands, Finished
<1>2. Fits(p)' /\ at'[p].pc \notin Takes \cup Calling \cup {"update", "forget"}
  BY <1>1, Idles DEF Fits, Calling, Takes
<1>3. Placed' /\ Stages'
  BY <1>1, <1>2, Moves
<1> QED BY <1>1, <1>3, MoveWaits

LEMMA PacketSound ==
    ASSUME Sound, NEW s \in Sock, HandleAuthSession(s) \/ Drop(s) \/ Expire(s)
    PROVE  Placed' /\ Stages' /\ Waiting'
<1> USE DEF socks, sessions, world, loop
<1>1. /\ at[Worker].pc = "idle"
      /\ UNCHANGED <<session, Sessions, queue, doomed, todo, mQueued, connected>>
      /\ UNCHANGED at \/ Enter(Worker, "disconnect", s, "idle")
  BY Idles DEF HandleAuthSession, Drop, Expire
<1>2. "idle" \notin Departs \cup {"undefined", "flag"} /\ Worker \in Process
  BY Processes DEF Departs
<1>3. CASE UNCHANGED at
  <2>1. at' \in [Process -> Place] /\ Fits(Worker)'
    BY <1>2, <1>3, Stands DEF Fits
  <2>2. Placed' /\ Stages'
    BY <1>1, <1>2, <1>3, <2>1, Processes, Moves
  <2> QED BY <1>1, <1>2, <1>3, <2>2, MoveWaits
<1>4. CASE Enter(Worker, "disconnect", s, "idle")
  BY <1>1, <1>2, <1>4, WorkerBegins, Labels
<1> QED BY <1>1, <1>3, <1>4

LEMMA AnswerSound ==
    ASSUME Sound, NEW s \in Sock, NEW a \in Account, HandleSessionInfo(s, a)
    PROVE  Placed' /\ Stages' /\ Waiting'
<1> USE DEF socks, sessions, world, loop
<1>1. /\ at[Worker].pc = "idle"
      /\ UNCHANGED <<session, Sessions, queue, doomed, todo, mQueued, connected>>
      /\ InformationRetreiveCallback(s, a)
  BY Idles DEF HandleSessionInfo
<1>2. "idle" \notin Departs \cup {"undefined", "flag"} /\ Worker \in Process
  BY Processes DEF Departs
<1>3. CASE UNCHANGED at
  <2>1. at' \in [Process -> Place] /\ Fits(Worker)'
    BY <1>2, <1>3, Stands DEF Fits
  <2>2. Placed' /\ Stages'
    BY <1>1, <1>2, <1>3, <2>1, Processes, Moves
  <2> QED BY <1>1, <1>2, <1>3, <2>2, MoveWaits
<1>4. CASE FindSession(a) # None /\ Enter(Worker, "kick", FindSession(a), "idle")
  <2>1. FindSession(a) \in Sock
    BY <1>4 DEF FindSession, Sound, Kinds
  <2> QED BY <1>1, <1>2, <1>4, <2>1, WorkerBegins, Labels
<1>5. CASE Enter(Worker, "create", s, "unlock")
  BY <1>1, <1>2, <1>5, WorkerBegins, Labels
<1> QED BY <1>1, <1>3, <1>4, <1>5 DEF InformationRetreiveCallback

LEMMA KickSound ==
    ASSUME Sound, Kick
    PROVE  Placed' /\ Stages' /\ Waiting'
<1> USE DEF socks, sessions, world, loop
<1> DEFINE x == at[Worker].sock
<1>1. CASE Faulty("freed")
  BY <1>1, FaultSound
<1>2. CASE ~Faulty("freed")
  <2>1. /\ at[Worker].pc = "kick"
        /\ Enter(Worker, "disconnect", x, "timer") \/ Goto(Worker, "timer")
        /\ UNCHANGED <<session, Sessions, queue, doomed, todo, mQueued, connected>>
    BY <1>2 DEF Kick
  <2>2. /\ x \in Sock /\ "kick" \notin Departs \cup {"undefined", "flag"} /\ Worker \in Process
        /\ at \in [Process -> Place]
    BY <2>1, Processes, Stands DEF Departs, Fits
  <2>3. CASE Enter(Worker, "disconnect", x, "timer")
    BY <2>1, <2>2, <2>3, WorkerBegins, Labels
  <2>4. CASE Goto(Worker, "timer")
    <3>1. /\ at' \in [Process -> Place] /\ at'[Worker].pc = "timer" /\ at'[Worker].sock = x
          /\ \A q \in Process \ {Worker} : at'[q] = at[q]
      BY <2>2, <2>4, Gone, Labels
    <3>2. Fits(Worker)' /\ at'[Worker].pc \notin Takes
      BY <2>2, <3>1 DEF Fits, Calling, Takes
    <3>3. Placed' /\ Stages'
      BY <2>1, <2>2, <3>1, <3>2, Moves, Processes
    <3> QED BY <2>1, <2>2, <3>1, <3>3, MoveWaits
  <2> QED BY <2>1, <2>3, <2>4
<1> QED BY <1>1, <1>2

\* The session of a socket that has none yet is in no list.
LEMMA CreateSessionSound ==
    ASSUME Sound, LiveTyped, CreateSession, session[at[Worker].sock] = "none"
    PROVE  Placed' /\ Stages' /\ Waiting'
<1> USE DEF socks, sessions, world, loop
<1> DEFINE s == at[Worker].sock
<1>1. /\ at[Worker].pc = "create" /\ session' = [session EXCEPT ![s] = "live"] /\ Goto(Worker, "count")
      /\ UNCHANGED <<Sessions, queue, doomed, todo, mQueued, connected>>
  BY DEF CreateSession
<1>2. /\ at' \in [Process -> Place] /\ Fits(Worker)' /\ at'[Worker].pc = "count" /\ at'[Worker].sock = s
      /\ \A q \in Process \ {Worker} : at'[q] = at[q]
  BY <1>1, TakeMoves, Processes DEF Takes
<1>3. s \in Sock
  BY <1>1, Stands, Processes DEF Fits
<1>4. session[s] = "none"
  OBVIOUS
<1> HIDE DEF s
<1>5. s \notin ToSet(queue) \cup Sessions \cup doomed
  BY <1>4 DEF Sound, Stages
<1>6. ASSUME NEW y \in Sock, session[y] = "live"
      PROVE  session'[y] = "live"
  BY <1>1, <1>4, <1>6 DEF LiveTyped
<1>7. Placed'
  BY <1>2, PlacedOn, Processes
<1>8. Outside(at[Worker].sock)' /\ session'[s] = "live"
  BY <1>1, <1>2, <1>3, <1>5 DEF Outside, LiveTyped, s
<1>9. at[World].pc \in Takes => Outside(at[World].sock) /\ at[World].sock # s
  BY <1>4, Processes DEF Sound, Stages, Outside
<1>10. Stages'
  <2>1. at'[World] = at[World]
    BY <1>2, Processes
  <2>2. \A q \in Process : at'[q].pc \in Takes => Outside(at[q].sock)'
    <3>1. at[World].pc \in Takes => Outside(at[World].sock)'
      BY <1>1, <1>2, <1>6, <1>9, Processes DEF Outside
    <3> QED BY <1>2, <1>8, <2>1, <3>1, Processes
  <2>3. \A x \in ToSet(queue) \cup Sessions \cup doomed : session'[x] = "live"
    BY <1>6, Waiters DEF Sound, Stages, Kinds
  <2> QED BY <1>1, <1>2, <1>9, <2>1, <2>2, <2>3 DEF Sound, Stages
<1>11. Waiting'
  BY <1>1, <1>2, MoveWaits, Processes DEF Departs
<1> QED BY <1>7, <1>10, <1>11

\* The worker puts a newcomer into the queue, and then flags it.
LEMMA AddQueuedSocketSound ==
    ASSUME Sound, AddQueuedSocket, connected[at[Worker].sock]
    PROVE  Placed' /\ Stages' /\ Waiting'
<1> USE DEF socks, sessions, world, loop
<1> DEFINE s == at[Worker].sock
<1>1. /\ at[Worker].pc = "enqueue" /\ at[Worker].pc \in Takes
      /\ queue' = Append(queue, s) /\ Goto(Worker, "flag")
      /\ UNCHANGED <<session, Sessions, doomed, todo, mQueued, connected>>
  BY DEF AddQueuedSocket, Takes
<1>2. /\ at' \in [Process -> Place] /\ Fits(Worker)' /\ at'[Worker].pc = "flag" /\ at'[Worker].sock = s
      /\ \A q \in Process \ {Worker} : at'[q] = at[q]
  BY <1>1, TakeMoves, Processes
<1>3. Outside(s) /\ \A q \in Process \ {Worker} : at[q].pc \in Takes => at[q].sock # s
  BY <1>1, TakesOutside, Processes
<1>4. IsInjective(queue') /\ ToSet(queue') = ToSet(queue) \cup {s}
  BY <1>1, <1>3, AppendQueue DEF Sound, Stages, Kinds, Outside
<1>5. Placed'
  BY <1>2, PlacedOn, Processes
<1>6. at'[World] = at[World] /\ connected[s]
  BY <1>2, Processes
<1> HIDE DEF s
<1>7. Stages'
  <2>1. \A q \in Process : at'[q].pc \in Takes => at[q].pc \in Takes /\ q # Worker /\ at'[q] = at[q]
    BY <1>2 DEF Takes
  <2>2. \A q \in Process : at'[q].pc \in Takes => Outside(at[q].sock)'
    BY <1>1, <1>3, <1>4, <2>1, TakesOutside DEF Outside
  <2>3. /\ \A x \in ToSet(queue') \cup Sessions \cup doomed : session[x] = "live"
        /\ Sessions \cap doomed = {} /\ ToSet(queue') \cap (Sessions \cup doomed) = {}
    BY <1>3, <1>4 DEF Sound, Stages, Outside
  <2> QED BY <1>1, <1>4, <1>6, <2>1, <2>2, <2>3, Processes DEF Sound, Stages
<1>8. Waiting'
  <2>1. ASSUME NEW x \in ToSet(queue), at[Worker].pc # "undefined"
        PROVE  /\ mQueued[x]
               /\ connected[x] \/ \E q \in Process : at'[q].sock = x /\ at'[q].pc \in Departs
    <3>1. /\ mQueued[x]
          /\ connected[x] \/ \E q \in Process : at[q].sock = x /\ at[q].pc \in Departs
      BY <1>1, <2>1 DEF Sound, Waiting
    <3>2. \A q \in Process : at[q].pc \in Departs => at'[q] = at[q]
      BY <1>1, <1>2 DEF Departs
    <3> QED BY <3>1, <3>2
  <2> QED BY <1>1, <1>2, <1>4, <1>6, <2>1 DEF Waiting
<1> QED BY <1>5, <1>7, <1>8

LEMMA WorkerSound ==
    ASSUME Sound, LiveTyped, WorkerSpot, WorkerStep
    PROVE  Placed' /\ Stages' /\ Waiting'
<1> USE DEF socks, sessions, world, loop
<1>0. Worker \in Process /\ Worker # World
  BY Processes
<1>1. CASE Call(Worker)
  BY <1>0, <1>1, CallSound
<1>2. CASE Kick
  BY <1>2, KickSound
<1>3. CASE SetLogoutTimer \/ ReleaseLocks
  <2>1. CASE Faulty("freed")
    BY <2>1, FaultSound
  <2>2. CASE ~Faulty("freed")
    <3>1. /\ Finish(Worker) /\ at[Worker].pc \in {"timer", "unlock"}
          /\ UNCHANGED <<session, Sessions, queue, doomed, todo, mQueued, connected>>
      BY <1>3, <2>2 DEF SetLogoutTimer, ReleaseLocks
    <3> QED BY <1>0, <3>1, Ends DEF Departs
  <2> QED BY <2>1, <2>2
<1>4. CASE CreateSession
  BY <1>4, CreateSessionSound DEF CreateSession, WorkerSpot
<1>5. CASE CheckQueue
  <2>1. /\ at[Worker].pc = "count"
        /\ UNCHANGED <<session, Sessions, queue, doomed, todo, mQueued, connected>>
    BY <1>5 DEF CheckQueue
  <2>2. PICK label \in {"authenticate", "enqueue", "disconnect"} : Goto(Worker, label)
    BY <1>5 DEF CheckQueue
  <2>3. Placed' /\ Stages'
    BY <1>0, <2>1, <2>2, TakeStages DEF Takes
  <2>4. \A q \in Process \ {Worker} : at'[q] = at[q]
    BY <1>0, <2>1, <2>2, TakeMoves DEF Takes
  <2> QED BY <1>0, <2>1, <2>3, <2>4, MoveWaits DEF Departs
<1>6. CASE AddQueuedSocket
  BY <1>6, AddQueuedSocketSound DEF AddQueuedSocket, WorkerSpot
<1>7. CASE SetQueued
  <2>1. /\ at[Worker].pc = "flag" /\ Goto(Worker, "unlock")
        /\ mQueued' = [mQueued EXCEPT ![at[Worker].sock] = TRUE]
        /\ UNCHANGED <<session, Sessions, queue, doomed, todo, connected>>
    BY <1>7 DEF SetQueued
  <2>2. Placed' /\ Stages'
    BY <1>0, <2>1, TakeStages
  <2>3. \A q \in Process \ {Worker} : at'[q] = at[q]
    BY <1>0, <2>1, TakeMoves
  <2>4. \A s \in ToSet(queue) : mQueued[s] \/ at[Worker].sock = s => mQueued'[s]
    BY <2>1, Waiters DEF Sound, Kinds
  <2> QED BY <1>0, <2>1, <2>2, <2>3, <2>4, Waits DEF Departs
<1> QED BY <1>1, <1>2, <1>3, <1>4, <1>5, <1>6, <1>7 DEF WorkerStep

-----------------------------------------------------------------------------
\* The world thread

\* Where the world thread goes between the sessions.
LEMMA WorldTurns ==
    ASSUME Sound, NEW label \in {"idle", "admit", "update", "erase", "delete"},
           (label = "idle" /\ Finish(World)) \/ Goto(World, label)
    PROVE  /\ at' \in [Process -> Place] /\ Fits(World)' /\ at'[World].pc = label
           /\ at'[Worker] = at[Worker] /\ \A q \in Process \ {World} : at'[q] = at[q]
<1>1. label \in Label /\ at \in [Process -> Place]
  BY Labels, Stands, Processes
<1>2. /\ at' \in [Process -> Place] /\ at'[World].pc = label
      /\ \A q \in Process \ {World} : at'[q] = at[q]
  <2>1. CASE label = "idle" /\ Finish(World)
    BY <1>1, <2>1, Finished, Processes, Idles
  <2>2. CASE Goto(World, label)
    BY <1>1, <2>2, Gone, Processes
  <2> QED BY <2>1, <2>2
<1>3. Fits(World)'
  BY <1>2 DEF Fits, Calling, Takes
<1> QED BY <1>2, <1>3, Processes

LEMMA AdmitSound ==
    ASSUME Sound, Admit
    PROVE  Placed' /\ Stages' /\ Waiting'
<1> USE DEF socks, sessions, world, loop
<1>0. World \in Process /\ Worker # World /\ at \in [Process -> Place] /\ at[World].pc = "admit"
  BY Processes, Stands DEF Admit
<1>1. CASE SessionCount < m_playerLimit /\ queue # <<>>
  <2> DEFINE h == Head(queue)
  <2>1. /\ queue' = Tail(queue)
        /\ Enter(World, IF mSession[h] THEN "guard" ELSE "admit", h, "release")
        /\ UNCHANGED <<session, Sessions, doomed, todo, mQueued, connected>>
    BY <1>1 DEF Admit
  <2>2. /\ IsInjective(queue') /\ h \in ToSet(queue) /\ h \in Sock
        /\ ToSet(queue') = ToSet(queue) \ {h}
    BY <1>1, <2>1, TailQueue DEF Sound, Stages, Kinds
  <2>3. PICK label \in {"guard", "admit"} : Enter(World, label, h, "release")
    BY <2>1
  <2> HIDE DEF h
  <2>4. /\ at' \in [Process -> Place] /\ at'[World].pc = label /\ at'[World].sock = h
        /\ at'[World].then = "release" /\ \A q \in Process \ {World} : at'[q] = at[q]
    BY <1>0, <2>2, <2>3, Entered, Labels DEF Takes
  <2>5. Fits(World)'
    BY <2>2, <2>4 DEF Fits, Calling, Takes
  <2>6. Placed'
    BY <1>0, <2>4, <2>5, PlacedOn
  <2>7. Stages'
    <3>1. /\ at[Worker].pc \in Takes => Outside(at[Worker].sock) /\ at[Worker].sock # h
          /\ at'[Worker] = at[Worker]
      BY <1>0, <2>2, <2>4, Processes, TakesOutside DEF Outside
    <3>2. \A q \in Process : at'[q].pc \in Takes => Outside(at[q].sock)'
      <4>1. at[Worker].pc \in Takes => Outside(at[Worker].sock)'
        BY <2>1, <2>2, <2>4, <3>1, Processes DEF Outside
      <4>2. Outside(at[World].sock)'
        BY <2>1, <2>2, <2>4 DEF Outside, Sound, Stages
      <4> QED BY <3>1, <4>1, <4>2, Processes
    <3>3. /\ \A x \in ToSet(queue') \cup Sessions \cup doomed : session[x] = "live"
          /\ Sessions \cap doomed = {} /\ ToSet(queue') \cap (Sessions \cup doomed) = {}
      BY <2>2 DEF Sound, Stages
    <3>4. at'[World].pc \notin Calling \cup {"update", "forget"}
      BY <2>4 DEF Calling
    <3> QED BY <2>1, <2>2, <2>4, <3>1, <3>2, <3>3, <3>4 DEF Stages
  <2>8. Waiting'
    BY <1>0, <2>1, <2>2, <2>4, Waits DEF Departs
  <2> QED BY <2>6, <2>7, <2>8
<1>2. CASE ~(SessionCount < m_playerLimit /\ queue # <<>>)
  <2>1. Finish(World) /\ UNCHANGED <<session, Sessions, queue, doomed, todo, mQueued, connected>>
    BY <1>2 DEF Admit
  <2> QED BY <1>0, <2>1, Ends DEF Departs
<1> QED BY <1>1, <1>2

LEMMA UpdateSound ==
    ASSUME Sound, NEW x \in Sock, UpdateOn(x) \/ UpdateDeleted(x) \/ UpdateTimeout(x)
    PROVE  Placed' /\ Stages' /\ Waiting'
<1> USE DEF socks, sessions, world, loop
<1>0. /\ World \in Process /\ Worker # World /\ at \in [Process -> Place] /\ Fits(World)
      /\ at[World].pc = "update" /\ x \in todo
      /\ x \in Sessions /\ todo \subseteq Sessions /\ todo' = todo \ {x}
      /\ UNCHANGED <<session, queue, mQueued, connected>>
      /\ "update" \notin Departs \cup Takes \cup Calling \cup {"undefined", "flag"}
  BY Processes, Stands DEF UpdateOn, UpdateDeleted, UpdateTimeout, Sound, Stages, Departs, Takes, Calling
<1>1. CASE UpdateOn(x)
  <2>1. UNCHANGED <<at, Sessions, doomed>>
    BY <1>1 DEF UpdateOn
  <2>2. Fits(World)'
    BY <1>0, <2>1 DEF Fits
  <2>3. Placed' /\ Stages'
    BY <1>0, <2>1, <2>2, Moves
  <2> QED BY <1>0, <2>1, <2>3, MoveWaits
<1>2. CASE UpdateDeleted(x)
  <2>1. Sessions' = Sessions \ {x} /\ doomed' = doomed \cup {x} /\ UNCHANGED at
    BY <1>2 DEF UpdateDeleted
  <2>2. Placed'
    BY <2>1 DEF Sound, Placed, Fits
  <2>3. Stages'
    <3>1. \A q \in Process : at[q].pc \in Takes => at[q].sock # x /\ Outside(at[q].sock)
      BY <1>0, TakesOutside DEF Outside
    <3>2. \A q \in Process : at'[q].pc \in Takes => Outside(at[q].sock)'
      BY <1>0, <2>1, <3>1 DEF Outside
    <3>3. /\ \A y \in ToSet(queue) \cup Sessions' \cup doomed' : session[y] = "live"
          /\ Sessions' \cap doomed' = {} /\ ToSet(queue) \cap (Sessions' \cup doomed') = {}
      BY <1>0, <2>1 DEF Sound, Stages
    <3> QED BY <1>0, <2>1, <3>2, <3>3 DEF Sound, Stages
  <2>4. Waiting'
    BY <1>0, <2>1, MoveWaits
  <2> QED BY <2>2, <2>3, <2>4
<1>3. CASE UpdateTimeout(x)
  <2>1. UNCHANGED <<Sessions, doomed>>
    BY <1>3 DEF UpdateTimeout
  <2>2. PICK label \in {"disconnect", "forget"} : Enter(World, label, x, "forget")
    BY <1>3 DEF UpdateTimeout
  <2>3. /\ at' \in [Process -> Place] /\ at'[World].pc = label /\ at'[World].sock = x
        /\ at'[World].then = "forget" /\ \A q \in Process \ {World} : at'[q] = at[q]
    BY <1>0, <2>2, Entered, Labels DEF Calling
  <2>4. Fits(World)' /\ at'[World].pc \notin Takes
    BY <2>3 DEF Fits, Calling, Takes
  <2>5. Placed' /\ Stages'
    BY <1>0, <2>1, <2>3, <2>4, Moves
  <2> QED BY <1>0, <2>3, <2>5, MoveWaits
<1> QED BY <1>1, <1>2, <1>3

LEMMA DeleteSessionSound ==
    ASSUME Sound, LiveTyped, NEW x \in Sock, DeleteSession(x)
    PROVE  Placed' /\ Stages' /\ Waiting'
<1> USE DEF socks, sessions, world, loop
<1>1. /\ at[World].pc = "delete" /\ x \in doomed /\ session' = [session EXCEPT ![x] = "deleted"]
      /\ doomed' = doomed \ {x} /\ (Finish(World) \/ UNCHANGED at)
      /\ UNCHANGED <<Sessions, queue, todo, mQueued, connected>>
  BY DEF DeleteSession
<1>2. /\ at' \in [Process -> Place] /\ Fits(World)' /\ at'[World].pc \in {"delete", "idle"}
      /\ at'[Worker] = at[Worker] /\ \A q \in Process \ {World} : at'[q] = at[q]
  <2>1. CASE Finish(World)
    BY <2>1, WorldTurns
  <2>2. CASE UNCHANGED at
    BY <1>1, <2>2, Stands, Processes DEF Fits
  <2> QED BY <1>1, <2>1, <2>2
<1>3. /\ x \notin ToSet(queue) \cup Sessions
      /\ \A y \in Sock \ {x} : session'[y] = session[y]
  BY <1>1 DEF LiveTyped, Sound, Stages
<1>4. Placed'
  BY <1>2, PlacedOn, Processes
<1>5. Stages'
  <2>1. at'[World].pc \notin Takes \cup Calling \cup {"update", "forget"}
    BY <1>2 DEF Takes, Calling
  <2>2. at[Worker].pc \in Takes => Outside(at[Worker].sock) /\ at[Worker].sock # x
    BY <1>1, TakesOutside, Processes DEF Outside
  <2>3. at[Worker].pc \in Takes => Outside(at[Worker].sock)'
    BY <1>1, <1>2, <1>3, <2>2, Processes DEF Outside
  <2>4. \A q \in Process : at'[q].pc \in Takes => Outside(at[q].sock)'
    BY <1>2, <2>1, <2>3, Processes
  <2>5. \A y \in ToSet(queue) \cup Sessions \cup doomed' : session'[y] = "live"
    BY <1>1, <1>3, Waiters DEF Sound, Stages, Kinds
  <2> QED BY <1>1, <2>1, <2>4, <2>5 DEF Sound, Stages
<1>6. Waiting'
  BY <1>1, <1>2, MoveWaits, Processes DEF Departs
<1> QED BY <1>4, <1>5, <1>6

LEMMA WorldSound ==
    ASSUME Sound, LiveTyped, WorldStep \/ StartSessions
    PROVE  Placed' /\ Stages' /\ Waiting'
<1> USE DEF socks, sessions, world, loop
<1>0. World \in Process /\ Worker # World
  BY Processes
<1>1. CASE Call(World)
  BY <1>0, <1>1, CallSound
<1>2. CASE StartQueue \/ EndSessions \/ EraseSessions \/ ForgetSocket \/ StartSessions
  <2>1. /\ at[World].pc \in {"idle", "update", "erase", "forget"}
        /\ UNCHANGED <<session, Sessions, queue, doomed, mQueued, connected>>
        /\ \/ Finish(World) /\ todo' = todo
           \/ \E label \in {"admit", "update", "erase", "delete"} :
                Goto(World, label) /\ (label = "update" => (at[World].pc = "forget" /\ todo' = todo) \/ todo' = Sessions)
    BY <1>2, Idles DEF StartQueue, EndSessions, EraseSessions, ForgetSocket, StartSessions
  <2>2. /\ at' \in [Process -> Place] /\ Fits(World)'
        /\ at'[World].pc \in {"idle", "admit", "update", "erase", "delete"}
        /\ \A q \in Process \ {World} : at'[q] = at[q]
        /\ at'[World].pc = "update" => todo' \subseteq Sessions
    <3>1. CASE Finish(World)
      BY <3>1, WorldTurns
    <3>2. ASSUME NEW label \in {"admit", "update", "erase", "delete"}, Goto(World, label),
                 label = "update" => (at[World].pc = "forget" /\ todo' = todo) \/ todo' = Sessions
          PROVE  /\ at' \in [Process -> Place] /\ Fits(World)' /\ at'[World].pc = label
                 /\ \A q \in Process \ {World} : at'[q] = at[q]
                 /\ at'[World].pc = "update" => todo' \subseteq Sessions
      BY <3>2, WorldTurns DEF Sound, Stages
    <3> QED BY <2>1, <3>1, <3>2
  <2>3. at'[World].pc \notin Takes \cup Calling \cup {"forget"}
    BY <2>2 DEF Takes, Calling
  <2>4. Placed' /\ Stages'
    BY <1>0, <2>1, <2>2, <2>3, Moves
  <2> QED BY <1>0, <2>1, <2>2, <2>4, MoveWaits DEF Departs
<1>3. CASE Admit
  BY <1>3, AdmitSound
<1>4. CASE Guard \/ Release
  <2>1. CASE Faulty("null")
    BY <2>1, FaultSound
  <2>2. CASE ~Faulty("null")
    <3>1. UNCHANGED <<session, Sessions, queue, doomed, todo, mQueued, connected>>
      BY <1>4, <2>2 DEF Guard, Release
    <3>2. CASE Guard
      <4>1. at[World].pc = "guard" /\ Goto(World, "authenticate")
        BY <2>2, <3>2 DEF Guard
      <4>2. Placed' /\ Stages'
        BY <1>0, <3>1, <4>1, TakeStages DEF Takes
      <4>3. \A q \in Process \ {World} : at'[q] = at[q]
        BY <1>0, <4>1, TakeMoves DEF Takes
      <4> QED BY <1>0, <3>1, <4>1, <4>2, <4>3, MoveWaits DEF Departs
    <3>3. CASE Release
      <4>1. at[World].pc = "release" /\ Goto(World, "admit")
        BY <2>2, <3>3 DEF Release
      <4>2. /\ at' \in [Process -> Place] /\ Fits(World)' /\ at'[World].pc = "admit"
            /\ \A q \in Process \ {World} : at'[q] = at[q]
        BY <4>1, WorldTurns
      <4>3. at'[World].pc \notin Takes \cup Calling \cup {"forget", "update"}
        BY <4>2 DEF Takes, Calling
      <4>4. Placed' /\ Stages'
        BY <1>0, <3>1, <4>2, <4>3, Moves
      <4> QED BY <1>0, <3>1, <4>1, <4>2, <4>4, MoveWaits DEF Departs
    <3> QED BY <1>4, <3>2, <3>3
  <2> QED BY <2>1, <2>2
<1>5. ASSUME NEW x \in Sock, UpdateOn(x) \/ UpdateDeleted(x) \/ UpdateTimeout(x)
      PROVE  Placed' /\ Stages' /\ Waiting'
  BY <1>5, UpdateSound
<1>6. ASSUME NEW x \in Sock, DeleteSession(x)
      PROVE  Placed' /\ Stages' /\ Waiting'
  BY <1>6, DeleteSessionSound
<1> QED BY <1>1, <1>2, <1>3, <1>4, <1>5, <1>6 DEF WorldStep

LEMMA InitSound == Init => Sound
<1> SUFFICES ASSUME Init PROVE Sound
  OBVIOUS
<1>1. \A p \in Process : at[p] = Idle /\ at[p].pc = "idle"
  BY Idles DEF Init
<1>2. at \in [Process -> Place]
  BY Idles DEF Init
<1>3. Placed
  BY <1>1, <1>2 DEF Placed, Fits, Calling, Takes
<1>4. ToSet(queue) = {} /\ IsInjective(queue) /\ queue \in Seq(Sock)
  BY DEF Init, ToSet, IsInjective
<1>5. Kinds
  BY <1>4 DEF Init, Kinds
<1>6. Stages /\ Waiting
  BY <1>1, <1>4, Processes DEF Init, Stages, Waiting, Calling, Takes
<1> QED BY <1>3, <1>5, <1>6 DEF Sound

LEMMA NextSound ==
    ASSUME Sound, LiveTyped, WorkerSpot, [Next]_vars
    PROVE  Sound'
<1>1. CASE UNCHANGED vars
  <2>1. Kinds'
    BY <1>1, KindsNext
  <2>2. UNCHANGED <<at, session, Sessions, queue, doomed, todo, mQueued, connected>>
    BY <1>1 DEF vars, socks, sessions, world, loop
  <2>3. Placed' /\ Waiting'
    BY <2>2 DEF Sound, Placed, Fits, Waiting
  <2>4. Stages'
    BY <2>2 DEF Sound, Stages, Outside
  <2> QED BY <2>1, <2>3, <2>4 DEF Sound
<1>2. CASE Next
  <2>1. Placed' /\ Stages' /\ Waiting'
    BY <1>2, PacketSound, AnswerSound, WorkerSound, WorldSound DEF Next
  <2> QED BY <2>1, KindsNext DEF Sound
<1> QED BY <1>1, <1>2

-----------------------------------------------------------------------------
\* No session is deleted that can still be reached.

\* The session that the world thread disconnects is live.
LEMMA WorldCalls ==
    ASSUME Sound, at[World].pc \in Calling \cup {"forget"}
    PROVE  /\ at[World].sock \in Sessions /\ at[World].sock \in Sock
           /\ session[at[World].sock] = "live"
BY DEF Sound, Kinds, Stages

\* A newcomer whose Disconnect has not begun is not the one the world disconnects.
LEMMA NotTheNewcomer ==
    ASSUME Sound, WorkerSpot, at[World].pc \in Calling \cup {"forget"},
           at[Worker].pc \in Takes \cup {"create"}
    PROVE  at[Worker].sock \in Sock /\ at[Worker].sock # at[World].sock
<1>1. at[Worker].sock \in Sock
  BY Stands, Processes DEF Fits
<1>2. CASE at[Worker].pc = "create"
  BY <1>1, <1>2, WorldCalls DEF WorkerSpot
<1>3. CASE at[Worker].pc \in Takes
  BY <1>1, <1>3, WorldCalls, TakesOutside, Processes DEF Outside
<1> QED BY <1>2, <1>3

\* A move that starts no departure and ends none, and touches no object.
LEMMA StillLeft ==
    ASSUME Live, NEW p \in Process, at[p].pc \notin {"leave", "undefined"},
           \A q \in Process \ {p} : at'[q] = at[q], UNCHANGED objects
    PROVE  Left'
<1> USE DEF objects
<1>1. at[Worker].pc # "undefined" /\ \A x \in Sock : Leaving(x)
  BY Processes DEF Live, Left, Together
<1>2. \A q \in Process : at[q].pc = "leave" => at'[q] = at[q]
  OBVIOUS
<1>3. \A x \in Sock : Leaving(x)'
  BY <1>1, <1>2, Processes DEF Leaving
<1> QED BY <1>3 DEF Left

LEMMA WorkerMoves ==
    ASSUME Live, at[Worker].pc \notin {"leave", "undefined"}, at'[World] = at[World],
           at'[Worker].pc # "undefined",
           UNCHANGED objects, ReachableLive', Objects', Spot(Worker)', WorkerSpot'
    PROVE  Live'
<1> USE DEF objects
<1>1. LiveTyped' /\ Together'
  BY DEF Live, LiveTyped, Together
<1>2. WorldSpot' /\ Spot(World)'
  <2>1. WorldSpot /\ Spot(World)
    BY Processes DEF Live
  <2> QED BY <2>1 DEF WorldSpot, Spot
<1>3. Left'
  BY Processes, StillLeft
<1> QED BY <1>1, <1>2, <1>3, Processes DEF Live

LEMMA WorldMoves ==
    ASSUME Live, at[World].pc \notin {"leave", "undefined"}, at'[Worker] = at[Worker],
           at'[World].pc # "undefined", UNCHANGED <<objects, asked>>, pending' \subseteq pending,
           ReachableLive', Objects', Spot(World)', WorldSpot'
    PROVE  Live'
<1> USE DEF objects
<1>1. LiveTyped' /\ Together'
  BY DEF Live, LiveTyped, Together
<1>2. WorkerSpot' /\ Spot(Worker)'
  <2>1. WorkerSpot /\ Spot(Worker)
    BY Processes DEF Live
  <2> QED BY <2>1 DEF WorkerSpot, Spot
<1>3. Left'
  BY Processes, StillLeft
<1> QED BY <1>1, <1>2, <1>3, Processes DEF Live

LEMMA FaultLive ==
    ASSUME Live, NEW kind \in {"null", "freed"}, Faulty(kind)
    PROVE  Live'
<1> USE DEF socks, sessions, world, loop
<1>1. \A p \in Process : at'[p].pc = "undefined"
  BY DEF Faulty, Idle
<1>2. at'[Worker].pc = "undefined" /\ at'[World].pc = "undefined" /\ fault' # "none"
  BY <1>1, Processes DEF Faulty
<1>3. LiveTyped' /\ ReachableLive'
  BY DEF Faulty, Live, LiveTyped, ReachableLive
<1>4. Objects' /\ Left' /\ Together'
  BY <1>1, <1>2 DEF Faulty, Live, Objects, Left, Together
<1>5. WorkerSpot' /\ WorldSpot' /\ \A p \in Process : Spot(p)'
  BY <1>1, <1>2 DEF WorkerSpot, WorldSpot, Spot, Calling, Departs
<1> QED BY <1>3, <1>4, <1>5 DEF Live

\* What leaves the objects and the maps alone.
LEMMA Still ==
    ASSUME Live, UNCHANGED <<objects, asked, account, m_sessions, Sessions>>,
           pending' \subseteq pending, doomed' \subseteq doomed,
           at'[World].pc = "delete" => at[World].pc = "delete"
    PROVE  ReachableLive' /\ Objects'
<1> USE DEF objects
<1>1. ReachableLive'
  BY DEF Live, ReachableLive
<1>2. Objects'
  BY DEF Live, Objects
<1> QED BY <1>1, <1>2

-----------------------------------------------------------------------------
\* Disconnect and Authenticate

LEMMA Returned ==
    ASSUME Sound, NEW p \in Process, at[p].pc \in Calling, Return(p)
    PROVE  /\ \A q \in Process \ {p} : at'[q] = at[q]
           /\ p = Worker => \/ at'[p].pc \in {"idle", "unlock"}
                            \/ /\ at'[p].pc = "timer" /\ at[p].then = "timer"
                               /\ at'[p].sock = at[p].sock
           /\ p = World => at'[p].pc = "forget" /\ at'[p].sock = at[p].sock
<1>1. /\ at \in [Process -> Place] /\ at[p].then \in Label
      /\ at[p].then \in IF p = World THEN {"forget"} ELSE {"idle", "timer", "unlock"}
  BY Stands DEF Fits
<1>2. CASE at[p].then = "idle"
  BY <1>1, <1>2, Finished, Processes, Idles DEF Return
<1>3. CASE at[p].then # "idle"
  BY <1>1, <1>3, Gone, Processes DEF Return
<1> QED BY <1>2, <1>3

\* A process comes back from Disconnect.
LEMMA ReturnLive ==
    ASSUME Sound, Live, NEW p \in Process, at[p].pc \in Calling \ {"leave"}, Return(p),
           ~connected[at[p].sock],
           p = World /\ mSession[at[p].sock] => logout[at[p].sock] # "due",
           UNCHANGED <<objects, asked, account, m_sessions, Sessions, doomed>>,
           pending' \subseteq pending
    PROVE  Live'
<1> USE DEF objects
<1>0. "undefined" \notin Calling /\ "delete" \notin Calling
  BY DEF Calling
<1>1. CASE p = Worker
  <2>1. /\ at'[World] = at[World]
        /\ \/ at'[Worker].pc \in {"idle", "unlock"}
           \/ /\ at'[Worker].pc = "timer" /\ at[Worker].then = "timer"
              /\ at'[Worker].sock = at[Worker].sock
    BY <1>1, Returned, Processes
  <2>2. ReachableLive' /\ Objects'
    BY <2>1, Still
  <2>3. WorkerSpot' /\ Spot(Worker)' /\ at'[Worker].pc # "undefined"
    BY <1>1, <2>1 DEF Live, WorkerSpot, Spot, Calling, Departs
  <2> QED BY <1>0, <1>1, <2>1, <2>2, <2>3, WorkerMoves
<1>2. CASE p = World
  <2>1. at'[Worker] = at[Worker] /\ at'[World].pc = "forget" /\ at'[World].sock = at[World].sock
    BY <1>2, Returned, Processes
  <2>2. ReachableLive' /\ Objects'
    BY <2>1, Still
  <2>3. WorldSpot' /\ Spot(World)' /\ at'[World].pc # "undefined"
    BY <1>2, <2>1 DEF Live, WorldSpot, Spot, Departs
  <2> QED BY <1>0, <1>2, <2>1, <2>2, <2>3, WorldMoves
<1> QED BY <1>1, <1>2, Processes

\* A process goes on in Disconnect.
LEMMA CallOn ==
    ASSUME Sound, NEW p \in Process, NEW label \in Calling, Goto(p, label)
    PROVE  /\ at'[p].pc = label /\ at'[p].sock = at[p].sock /\ at'[p].then = at[p].then
           /\ \A q \in Process \ {p} : at'[q] = at[q]
BY Labels, Stands, Gone

LEMMA DisconnectLive ==
    ASSUME Sound, Live, NEW p \in Process, Disconnect(p)
    PROVE  Live'
<1> USE DEF objects, sessions, world, loop, server
<1> DEFINE s == at[p].sock
<1>1. s \in Sock /\ at[p].pc \in Calling \ {"leave"}
  BY Stands DEF Disconnect, Calling, Fits
<1>2. CASE ~connected[s]
  <2>1. /\ UNCHANGED <<objects, asked, account, m_sessions, Sessions, doomed, pending>>
        /\ Return(p)
    BY <1>1, <1>2 DEF Disconnect, Live, LiveTyped
  <2>2. p = World /\ mSession[s] => logout[s] # "due"
    BY DEF Disconnect, Live, WorldSpot
  <2> QED BY <1>1, <1>2, <2>1, <2>2, ReturnLive
<1>3. CASE connected[s]
  <2>1. /\ connected' = [connected EXCEPT ![s] = FALSE] /\ Goto(p, "leave") /\ at[p].pc = "disconnect"
        /\ UNCHANGED <<mSession, socket, session, logout, asked, pending, account, m_sessions,
                       Sessions, doomed, fault>>
    BY <1>3 DEF Disconnect
  <2>2. /\ at'[p].pc = "leave" /\ at'[p].sock = s /\ at'[p].then = at[p].then
        /\ \A q \in Process \ {p} : at'[q] = at[q]
    BY <2>1, CallOn DEF Calling
  <2>0. p = World => /\ at[Worker].pc \in Takes \cup {"create"} => at[Worker].sock \in Sock \ {s}
                     /\ session[s] = "live"
    BY <1>1, WorldCalls, NotTheNewcomer DEF Live
  <2> HIDE DEF s
  <2>3. /\ ~connected'[s] /\ \A x \in Sock \ {s} : connected'[x] = connected[x]
        /\ connected' \in [Sock -> BOOLEAN]
    BY <1>1, <2>1 DEF Live, LiveTyped
  <2>4. LiveTyped' /\ ReachableLive'
    BY <2>1, <2>3 DEF Live, LiveTyped, ReachableLive
  <2>5. Objects'
    BY <2>1, <2>2, Processes DEF Live, Objects
  <2>6. ASSUME NEW q \in Process PROVE Spot(q)'
    <3>1. CASE q = p
      BY <2>2, <2>3, <3>1 DEF Spot
    <3>2. CASE q # p
      <4>1. at'[q] = at[q] /\ Spot(q) /\ (at[q].pc \in Departs => at[q].sock \in Sock)
        BY <2>2, <3>2, Stands, Labels DEF Live, Fits
      <4> QED BY <2>1, <2>3, <4>1 DEF Spot, Departs
    <3> QED BY <3>1, <3>2
  <2>7. WorkerSpot' /\ WorldSpot'
    <3>1. CASE p = Worker
      <4>1. WorkerSpot'
        BY <2>1, <2>2, <3>1 DEF s, Live, WorkerSpot, Calling
      <4>2. at'[World] = at[World] /\ (at[World].pc = "forget" => at[World].sock \in Sock)
        BY <2>2, <3>1, Processes, WorldCalls
      <4> QED BY <2>1, <2>3, <4>1, <4>2 DEF Live, WorldSpot
    <3>2. CASE p = World
      <4>1. at'[Worker] = at[Worker]
        BY <2>2, <3>2, Processes
      <4>2. at[Worker].pc = "timer" => at[Worker].sock \in Sock
        BY Stands, Processes DEF Fits
      <4>3. WorkerSpot'
        BY <2>0, <2>1, <2>3, <3>2, <4>1, <4>2 DEF Live, WorkerSpot, Takes
      <4>4. WorldSpot'
        BY <2>2, <3>2 DEF WorldSpot
      <4> QED BY <4>3, <4>4
    <3> QED BY <3>1, <3>2, Processes
  <2>8. Left'
    <3>1. at[Worker].pc # "undefined" /\ \A x \in Sock : Leaving(x)
      BY <2>1, Processes DEF Live, Left, Together
    <3>2. \A q \in Process : at[q].pc = "leave" => at'[q] = at[q]
      BY <2>1, <2>2
    <3>3. ASSUME NEW x \in Sock PROVE Leaving(x)'
      BY <2>1, <2>2, <2>3, <3>1, <3>2, Processes DEF Leaving
    <3> QED BY <3>3 DEF Left
  <2>9. Together'
    BY <2>1, <2>2, Processes DEF Live, Together
  <2> QED BY <2>4, <2>5, <2>6, <2>7, <2>8, <2>9 DEF Live
<1> QED BY <1>2, <1>3

LEMMA LeaveLive ==
    ASSUME Sound, Live, NEW p \in Process, LeaveSession(p)
    PROVE  Live'
<1> USE DEF objects, world, loop, server
<1> DEFINE s == at[p].sock
<1>1. s \in Sock /\ at[p].pc = "leave"
  BY Stands DEF LeaveSession, Calling, Fits
<1>2. CASE Faulty("freed")
  BY <1>2, FaultLive
<1>3. CASE ~Faulty("freed")
  <2>1. /\ socket' = [socket EXCEPT ![s] = @ /\ ~mSession[s]]
        /\ mSession' = [mSession EXCEPT ![s] = FALSE] /\ Goto(p, "unrequest")
        /\ UNCHANGED <<connected, session, logout, asked, pending, account, m_sessions,
                       Sessions, doomed, fault>>
    BY <1>3 DEF LeaveSession
  <2>2. /\ at'[p].pc = "unrequest" /\ at'[p].sock = s /\ at'[p].then = at[p].then
        /\ \A q \in Process \ {p} : at'[q] = at[q]
    BY <2>1, CallOn DEF Calling
  <2>0. ~connected[s]
    BY <1>1 DEF Live, Spot, Departs
  <2>00. p = Worker /\ at[p].then = "timer" => session[s] # "none"
    BY <1>1 DEF Live, WorkerSpot, Calling
  <2> HIDE DEF s
  <2>3. /\ ~mSession'[s] /\ (socket'[s] => socket[s])
        /\ \A x \in Sock \ {s} : socket'[x] = socket[x] /\ mSession'[x] = mSession[x]
        /\ socket' \in [Sock -> BOOLEAN] /\ mSession' \in [Sock -> BOOLEAN]
    BY <1>1, <2>1 DEF Live, LiveTyped
  <2>4. \A x \in Sock : (socket'[x] => socket[x]) /\ (mSession'[x] => mSession[x])
    BY <2>3
  <2>5. LiveTyped' /\ ReachableLive'
    BY <2>1, <2>3, <2>4 DEF Live, LiveTyped, ReachableLive
  <2>6. Objects'
    BY <2>1, <2>2, <2>4, Processes DEF Live, Objects, Sound, Kinds
  <2>7. ASSUME NEW q \in Process PROVE Spot(q)'
    <3>1. CASE q = p
      BY <2>0, <2>1, <2>2, <2>3, <3>1 DEF Spot
    <3>2. CASE q # p
      <4>1. at'[q] = at[q] /\ Spot(q) /\ (at[q].pc \in Departs => at[q].sock \in Sock)
        BY <2>2, <3>2, Stands, Labels DEF Live, Fits
      <4> QED BY <2>1, <2>4, <4>1 DEF Spot, Departs
    <3> QED BY <3>1, <3>2
  <2>8. WorkerSpot'
    <3>1. CASE p = Worker
      BY <2>00, <2>1, <2>2, <3>1 DEF WorkerSpot
    <3>2. CASE p # Worker
      <4>1. at'[Worker] = at[Worker] /\ (at[Worker].pc = "timer" => at[Worker].sock \in Sock)
        BY <2>2, <3>2, Processes, Stands DEF Fits
      <4> QED BY <2>1, <2>4, <4>1 DEF Live, WorkerSpot
    <3> QED BY <3>1, <3>2
  <2>9. WorldSpot'
    <3>1. CASE p = World
      BY <2>2, <3>1 DEF WorldSpot
    <3>2. CASE p # World
      <4>1. at'[World] = at[World] /\ (at[World].pc \in {"disconnect", "forget"} => at[World].sock \in Sock)
        BY <2>2, <3>2, Processes, WorldCalls DEF Calling
      <4> QED BY <2>1, <2>4, <4>1 DEF Live, WorldSpot
    <3> QED BY <3>1, <3>2
  <2>10. Left'
    <3>1. at[Worker].pc # "undefined" /\ \A x \in Sock : Leaving(x)
      BY <1>1, Processes DEF Live, Left, Together
    <3>2. \A q \in Process : at[q].sock # s => at'[q] = at[q]
      BY <2>2 DEF s
    <3>3. ASSUME NEW x \in Sock PROVE Leaving(x)'
      BY <2>1, <2>3, <3>1, <3>2, Processes DEF Leaving
    <3> QED BY <3>3 DEF Left
  <2>11. Together'
    BY <1>1, <2>1, <2>2, Processes DEF Live, Together
  <2> QED BY <2>5, <2>6, <2>7, <2>8, <2>9, <2>10, <2>11 DEF Live
<1> QED BY <1>2, <1>3

\* A newcomer goes on.
LEMMA TakeLive ==
    ASSUME Sound, Live, NEW p \in Process, at[p].pc \in Takes \cup {"flag"},
           NEW label \in {"enqueue", "authenticate", "addsession", "addglobal", "unlock", "flag",
                          "disconnect", "release", "admit"},
           Goto(p, label), p = World => label \notin {"disconnect", "flag"},
           label = "enqueue" => connected[at[p].sock],
           UNCHANGED <<objects, asked, pending>>, ReachableLive', Objects'
    PROVE  Live'
<1>1. /\ at'[p].pc = label /\ at'[p].sock = at[p].sock /\ at'[p].then = at[p].then
      /\ \A q \in Process \ {p} : at'[q] = at[q]
  BY TakeMoves DEF Takes
<1>2. /\ label # "undefined" /\ at[p].pc \notin {"leave", "undefined"}
      /\ at[p].then = IF p = World THEN "release" ELSE "unlock"
  BY Stands DEF Fits, Takes
<1>3. Spot(p)'
  BY <1>1 DEF Spot, Departs
<1>4. CASE p = Worker
  <2>1. WorkerSpot'
    BY <1>1, <1>2, <1>4, Processes DEF WorkerSpot, objects, Calling
  <2> QED BY <1>1, <1>2, <1>3, <1>4, <2>1, WorkerMoves, Processes
<1>5. CASE p = World
  <2>1. WorldSpot'
    BY <1>1, <1>5 DEF WorldSpot
  <2> QED BY <1>1, <1>2, <1>3, <1>5, <2>1, WorldMoves, Processes
<1> QED BY <1>4, <1>5, Processes

LEMMA AuthenticateLive ==
    ASSUME Sound, Live, NEW p \in Process, Authenticate(p)
    PROVE  Live'
<1> USE DEF objects, sessions, world, loop, server
<1>1. /\ at[p].pc = "authenticate" /\ at[p].pc \in Takes
      /\ UNCHANGED <<objects, asked, pending, account, m_sessions, Sessions, doomed>>
  BY DEF Authenticate, Takes
<1>2. at[p].then = IF p = World THEN "release" ELSE "unlock"
  BY <1>1, TakesOutside
<1>3. PICK label \in {"addsession", "unlock", "release"} : Goto(p, label)
  BY <1>2 DEF Authenticate, Return
<1>4. at'[World].pc = "delete" => at[World].pc = "delete"
  BY <1>1, <1>3, TakeMoves, Processes DEF Takes
<1>5. ReachableLive' /\ Objects'
  BY <1>1, <1>4, Still
<1> QED BY <1>1, <1>3, <1>5, TakeLive

LEMMA AddSessionLive ==
    ASSUME Sound, Live, NEW p \in Process, AddSession(p)
    PROVE  Live'
<1> USE DEF objects, socks, sessions, world, loop, server
<1>1. CASE Faulty("null")
  BY <1>1, FaultLive
<1>2. CASE ~Faulty("null")
  <2> DEFINE s == at[p].sock
  <2>1. /\ at[p].pc = "addsession" /\ at[p].pc \in Takes
        /\ m_sessions' = [m_sessions EXCEPT ![account[s]] = s] /\ Goto(p, "addglobal")
        /\ UNCHANGED <<objects, asked, pending, account, Sessions, doomed>>
    BY <1>2 DEF AddSession, Takes
  <2>2. Outside(s)
    BY <2>1, TakesOutside
  <2>3. at'[World].pc = "delete" => at[World].pc = "delete"
    BY <2>1, TakeMoves, Processes DEF Takes
  <2> HIDE DEF s
  <2>4. \A a \in Account : m_sessions'[a] = IF a = account[s] THEN s ELSE m_sessions[a]
    BY <2>1 DEF Sound, Kinds
  <2>5. ReachableLive'
    BY <2>1, <2>2, <2>4 DEF Live, ReachableLive, Outside
  <2>6. Objects'
    BY <2>1, <2>2, <2>3, <2>4 DEF Live, Objects, Outside
  <2> QED BY <2>1, <2>5, <2>6, TakeLive
<1> QED BY <1>1, <1>2

LEMMA AddGlobalSessionLive ==
    ASSUME Sound, Live, NEW p \in Process, AddGlobalSession(p)
    PROVE  Live'
<1> USE DEF objects, socks, sessions, world, loop, server
<1>1. CASE Faulty("null")
  BY <1>1, FaultLive
<1>2. CASE ~Faulty("null")
  <2> DEFINE s == at[p].sock
  <2>1. /\ at[p].pc = "addglobal" /\ at[p].pc \in Takes
        /\ Sessions' = Sessions \cup {s} /\ Return(p)
        /\ UNCHANGED <<objects, asked, pending, account, m_sessions, doomed>>
    BY <1>2 DEF AddGlobalSession, Takes
  <2>2. Outside(s) /\ at[p].then = IF p = World THEN "release" ELSE "unlock"
    BY <2>1, TakesOutside
  <2>3. PICK label \in {"unlock", "release"} : Goto(p, label)
    BY <2>1, <2>2 DEF Return
  <2>4. at'[World].pc = "delete" => at[World].pc = "delete"
    BY <2>1, <2>3, TakeMoves, Processes DEF Takes
  <2> HIDE DEF s
  <2>5. ReachableLive'
    BY <2>1, <2>2 DEF Live, ReachableLive, Outside
  <2>6. Objects'
    BY <2>1, <2>4 DEF Live, Objects
  <2> QED BY <2>1, <2>3, <2>5, <2>6, TakeLive
<1> QED BY <1>1, <1>2

LEMMA CallLive ==
    ASSUME Sound, Live, NEW p \in Process, Call(p)
    PROVE  Live'
<1> USE DEF objects, socks, sessions, world, loop, server
<1>1. CASE Disconnect(p)
  BY <1>1, DisconnectLive
<1>2. CASE LeaveSession(p)
  BY <1>2, LeaveLive
<1>3. CASE UnauthedSocketClose(p)
  <2>1. /\ at[p].pc = "unrequest" /\ Goto(p, "unqueue") /\ pending' \subseteq pending
        /\ UNCHANGED <<objects, asked, account, m_sessions, Sessions, doomed>>
    BY <1>3 DEF UnauthedSocketClose
  <2>2. /\ at'[p].pc = "unqueue" /\ at'[p].sock = at[p].sock /\ at'[p].then = at[p].then
        /\ \A q \in Process \ {p} : at'[q] = at[q]
    BY <2>1, CallOn DEF Calling
  <2>3. ReachableLive' /\ Objects'
    BY <2>1, <2>2, Still, Processes
  <2>4. Spot(p)'
    BY <2>1, <2>2 DEF Live, Spot, Departs
  <2>5. CASE p = Worker
    <3>1. WorkerSpot'
      BY <2>1, <2>2, <2>5 DEF Live, WorkerSpot, Calling
    <3> QED BY <2>1, <2>2, <2>3, <2>4, <2>5, <3>1, Processes, WorkerMoves
  <2>6. CASE p = World
    <3>1. WorldSpot'
      BY <2>2, <2>6 DEF WorldSpot
    <3> QED BY <2>1, <2>2, <2>3, <2>4, <2>6, <3>1, Processes, WorldMoves
  <2> QED BY <2>5, <2>6, Processes
<1>4. CASE RemoveQueuedSocket(p)
  <2>1. /\ at[p].pc \in Calling \ {"leave"} /\ Return(p)
        /\ UNCHANGED <<objects, asked, account, m_sessions, Sessions, doomed, pending>>
    BY <1>4 DEF RemoveQueuedSocket, Calling
  <2>2. ~connected[at[p].sock] /\ ~mSession[at[p].sock]
    BY <1>4 DEF RemoveQueuedSocket, Live, Spot, Departs
  <2> QED BY <2>1, <2>2, ReturnLive
<1> QED BY <1>1, <1>2, <1>3, <1>4, AuthenticateLive, AddSessionLive, AddGlobalSessionLive DEF Call

-----------------------------------------------------------------------------
\* The worker

\* The worker begins something in some socket.
LEMMA BeginLive ==
    ASSUME Sound, Live, NEW label \in {"disconnect", "kick", "create"}, NEW s \in Sock,
           NEW then \in {"idle", "timer", "unlock"}, Enter(Worker, label, s, then),
           at[Worker].pc \in {"idle", "kick"}, UNCHANGED objects, ReachableLive', Objects',
           label = "kick" \/ then = "timer" => session[s] # "none",
           label = "create" => session[s] = "none" /\ s \notin pending' /\ asked'[s] /\ connected[s]
    PROVE  Live'
<1>1. label \in Label /\ then \in Label /\ at \in [Process -> Place]
  BY Labels, Stands, Processes DEF Calling
<1>2. /\ at'[World] = at[World]
      /\ at'[Worker].pc = label /\ at'[Worker].sock = s /\ at'[Worker].then = then
  BY <1>1, Entered, Processes
<1>3. WorkerSpot' /\ Spot(Worker)'
  BY <1>2 DEF WorkerSpot, Spot, Departs, objects
<1> QED BY <1>2, <1>3, WorkerMoves

LEMMA PacketLive ==
    ASSUME Sound, Live, NEW s \in Sock, HandleAuthSession(s) \/ Drop(s) \/ Expire(s)
    PROVE  Live'
<1> USE DEF objects, socks, sessions, world, loop, server
<1>0. at[Worker] = Idle /\ at[Worker].pc = "idle"
  BY Idles DEF HandleAuthSession, Drop, Expire
<1>1. CASE HandleAuthSession(s)
  <2>1. /\ pending' \subseteq pending \cup {s} /\ ~asked[s] /\ asked' = [asked EXCEPT ![s] = TRUE]
        /\ UNCHANGED at \/ Enter(Worker, "disconnect", s, "idle")
        /\ UNCHANGED <<objects, account, m_sessions, Sessions, doomed>>
    BY <1>1 DEF HandleAuthSession
  <2>2. at'[World] = at[World]
    BY <2>1, Entered, Processes, Stands, Labels DEF Calling
  <2>3. ReachableLive'
    BY <2>1 DEF Live, ReachableLive
  <2>4. asked'[s] /\ \A x \in Sock \ {s} : asked'[x] = asked[x]
    BY <2>1 DEF Sound, Kinds
  <2>5. Objects'
    <3>1. \A x \in Sock : x \in pending' \/ ~asked'[x] => session[x] = "none"
      BY <2>1, <2>4 DEF Live, Objects
    <3>2. \A x \in pending' : asked'[x]
      BY <2>1, <2>4 DEF Live, Objects, Sound, Kinds
    <3> QED BY <2>1, <2>2, <3>1, <3>2 DEF Live, Objects
  <2>6. CASE UNCHANGED at
    <3>1. WorkerSpot' /\ Spot(Worker)'
      BY <1>0, <2>6 DEF WorkerSpot, Spot, Calling, Departs
    <3> QED BY <1>0, <2>1, <2>3, <2>5, <2>6, <3>1, WorkerMoves
  <2>7. CASE Enter(Worker, "disconnect", s, "idle")
    BY <1>0, <2>1, <2>3, <2>5, <2>7, BeginLive
  <2> QED BY <2>1, <2>6, <2>7
<1>2. CASE Drop(s)
  <2>1. /\ Enter(Worker, "disconnect", s, "idle")
        /\ UNCHANGED <<objects, asked, pending, account, m_sessions, Sessions, doomed>>
    BY <1>2 DEF Drop
  <2>2. at'[World] = at[World]
    BY <2>1, Entered, Processes, Stands, Labels DEF Calling
  <2>3. ReachableLive' /\ Objects'
    BY <2>1, <2>2, Still
  <2> QED BY <1>0, <2>1, <2>3, BeginLive
<1>3. CASE Expire(s)
  <2>1. /\ logout' = [logout EXCEPT ![s] = "due"] /\ logout[s] = "set" /\ session[s] = "live"
        /\ UNCHANGED <<connected, mSession, session, socket, at, asked, pending, account,
                       m_sessions, Sessions, doomed, fault>>
    BY <1>3 DEF Expire
  <2>2. ~mSession[s]
    BY <1>0, <2>1 DEF Live, Objects, Left, Leaving
  <2>3. \A x \in Sock \ {s} : logout'[x] = logout[x]
    BY <2>1 DEF Live, LiveTyped
  <2>4. LiveTyped' /\ ReachableLive'
    BY <2>1 DEF Live, LiveTyped, ReachableLive
  <2>5. Objects'
    BY <2>1, <2>3 DEF Live, LiveTyped, Objects
  <2>6. WorkerSpot' /\ Together' /\ \A p \in Process : Spot(p)'
    BY <2>1 DEF Live, WorkerSpot, Together, Spot
  <2>7. WorldSpot'
    <3>1. at[World].pc \in {"disconnect", "forget"} => at[World].sock \in Sock
      BY WorldCalls DEF Calling
    <3> QED BY <2>1, <2>2, <2>3, <3>1 DEF Live, WorldSpot
  <2>8. Left'
    BY <1>0, <2>1, <2>2, <2>3 DEF Live, Left, Leaving
  <2> QED BY <2>4, <2>5, <2>6, <2>7, <2>8 DEF Live
<1> QED BY <1>1, <1>2, <1>3

LEMMA AnswerLive ==
    ASSUME Sound, Live, NEW s \in Sock, NEW a \in Account, HandleSessionInfo(s, a)
    PROVE  Live'
<1> USE DEF objects, socks, sessions, world, loop, server
<1>0. /\ at[Worker].pc = "idle" /\ pending' = pending \ {s} /\ s \in pending /\ connected[s]
      /\ UNCHANGED <<objects, asked, m_sessions, Sessions, doomed>>
      /\ InformationRetreiveCallback(s, a)
      /\ {"kick", "create"} \subseteq Label /\ {"idle", "unlock"} \subseteq Label
      /\ at \in [Process -> Place]
  BY Idles, Labels, Stands, Processes DEF HandleSessionInfo
<1>1. CASE UNCHANGED <<account, at>>
  <2>1. ReachableLive' /\ Objects'
    BY <1>0, <1>1, Still
  <2>2. WorkerSpot' /\ Spot(Worker)'
    BY <1>0, <1>1 DEF WorkerSpot, Spot, Calling, Departs
  <2> QED BY <1>0, <1>1, <2>1, <2>2, WorkerMoves
<1>2. CASE FindSession(a) # None /\ Enter(Worker, "kick", FindSession(a), "idle") /\ UNCHANGED account
  <2>1. FindSession(a) \in Sock /\ session[FindSession(a)] = "live"
    BY <1>2 DEF FindSession, Sound, Kinds, Live, ReachableLive
  <2>2. at'[World] = at[World]
    BY <1>0, <1>2, <2>1, Entered, Processes
  <2>3. ReachableLive' /\ Objects'
    BY <1>0, <1>2, <2>2, Still
  <2> QED BY <1>0, <1>2, <2>1, <2>3, BeginLive
<1>3. CASE account' = [account EXCEPT ![s] = a] /\ Enter(Worker, "create", s, "unlock")
  <2>1. at'[World] = at[World]
    BY <1>0, <1>3, Entered, Processes
  <2>2. session[s] = "none" /\ asked[s] /\ \A b \in Account : m_sessions[b] # s
    BY <1>0 DEF Live, Objects, ReachableLive
  <2>3. ReachableLive'
    BY <1>0 DEF Live, ReachableLive
  <2>4. \A x \in Sock \ {s} : account'[x] = account[x]
    BY <1>3 DEF Sound, Kinds
  <2>5. Objects'
    BY <1>0, <2>1, <2>2, <2>4 DEF Live, Objects
  <2> QED BY <1>0, <1>3, <2>2, <2>3, <2>5, BeginLive
<1> QED BY <1>0, <1>1, <1>2, <1>3 DEF InformationRetreiveCallback

LEMMA TimerLive ==
    ASSUME Sound, Live, SetLogoutTimer
    PROVE  Live'
<1> USE DEF objects, socks, world, loop, server
<1> DEFINE x == at[Worker].sock
<1>1. CASE Faulty("freed")
  BY <1>1, FaultLive
<1>2. CASE ~Faulty("freed")
  <2>1. /\ at[Worker].pc = "timer" /\ logout' = [logout EXCEPT ![x] = "due"] /\ Finish(Worker)
        /\ UNCHANGED <<connected, mSession, session, socket, asked, pending, account,
                       m_sessions, Sessions, doomed, fault>>
    BY <1>2 DEF SetLogoutTimer
  <2>2. at'[World] = at[World] /\ at'[Worker].pc = "idle"
    BY <2>1, Finished, Processes, Idles, Stands
  <2>3. x \in Sock /\ session[x] # "none" /\ ~(connected[x] /\ socket[x])
    BY <2>1, Stands, Processes DEF Live, WorkerSpot, Fits
  <2>4. at[Worker].pc # "undefined" /\ \A y \in Sock : Leaving(y)
    BY <2>1 DEF Live, Left
  <2>5. mSession[x] => socket[x] /\ at[World].pc = "leave"
    BY <2>1, <2>3, <2>4, Processes DEF Leaving
  <2> HIDE DEF x
  <2>6. logout'[x] = "due" /\ \A y \in Sock \ {x} : logout'[y] = logout[y]
    BY <2>1, <2>3 DEF Live, LiveTyped
  <2>7. LiveTyped' /\ ReachableLive'
    BY <2>1 DEF Live, LiveTyped, ReachableLive
  <2>8. Objects'
    BY <2>1, <2>2, <2>3, <2>6 DEF Live, Objects
  <2>9. \A p \in Process : Spot(p)'
    BY <2>1, <2>2, Processes DEF Live, Spot, Departs
  <2>10. WorkerSpot' /\ Together'
    BY <2>1, <2>2 DEF Live, WorkerSpot, Together, Calling
  <2>11. WorldSpot'
    <3>1. at[World].pc \in {"disconnect", "forget"} => at[World].sock \in Sock
      BY WorldCalls DEF Calling
    <3> QED BY <2>1, <2>2, <2>5, <2>6, <3>1 DEF Live, WorldSpot
  <2>12. Left'
    <3>1. ASSUME NEW y \in Sock PROVE Leaving(y)'
      BY <2>1, <2>2, <2>4, <2>5, <2>6, Processes DEF Leaving
    <3> QED BY <3>1 DEF Left
  <2> QED BY <2>7, <2>8, <2>9, <2>10, <2>11, <2>12 DEF Live
<1> QED BY <1>1, <1>2

LEMMA CreateLive ==
    ASSUME Sound, Live, CreateSession
    PROVE  Live'
<1> USE DEF objects, world, loop, server
<1> DEFINE s == at[Worker].sock
<1>1. /\ at[Worker].pc = "create" /\ Goto(Worker, "count")
      /\ session' = [session EXCEPT ![s] = "live"] /\ socket' = [socket EXCEPT ![s] = TRUE]
      /\ mSession' = [mSession EXCEPT ![s] = TRUE]
      /\ UNCHANGED <<connected, logout, asked, pending, account, m_sessions, Sessions, doomed, fault>>
  BY DEF CreateSession
<1>2. /\ at'[World] = at[World]
      /\ at'[Worker].pc = "count" /\ at'[Worker].sock = s
  BY <1>1, TakeMoves, Processes DEF Takes
<1>3. s \in Sock /\ s \notin pending /\ asked[s] /\ session[s] = "none" /\ connected[s]
  BY <1>1, Stands, Processes DEF Live, WorkerSpot, Fits
<1>4. logout[s] = "no" /\ s \notin doomed
  BY <1>3 DEF Live, Objects, Sound, Stages
<1>8. at[World].pc \in Calling \cup {"forget"} => at[World].sock \in Sock \ {s}
  BY <1>1, WorldCalls, NotTheNewcomer DEF Live
<1> HIDE DEF s
<1>5. /\ session'[s] = "live" /\ socket'[s] /\ mSession'[s]
      /\ \A x \in Sock \ {s} : session'[x] = session[x] /\ socket'[x] = socket[x] /\ mSession'[x] = mSession[x]
      /\ LiveTyped'
  BY <1>1, <1>3 DEF Live, LiveTyped
<1>6. ReachableLive'
  BY <1>1, <1>5 DEF Live, ReachableLive
<1>7. Objects'
  BY <1>1, <1>2, <1>3, <1>4, <1>5 DEF Live, Objects, Sound, Kinds
<1>9. Spot(Worker)' /\ WorkerSpot' /\ Together'
  BY <1>1, <1>2, <1>3, <1>5 DEF Spot, WorkerSpot, Together, Live, Calling, Departs
<1>10. Spot(World)'
  BY <1>1, <1>2, <1>5, <1>8, Processes DEF Live, Spot, Calling, Departs
<1>11. WorldSpot'
  BY <1>1, <1>2, <1>5, <1>8 DEF Live, WorldSpot, Calling
<1>12. Left'
  <2>1. at[Worker].pc # "undefined" /\ \A y \in Sock : Leaving(y)
    BY <1>1 DEF Live, Left
  <2>2. ASSUME NEW y \in Sock PROVE Leaving(y)'
    BY <1>1, <1>2, <1>3, <1>5, <2>1, Processes DEF Leaving
  <2> QED BY <2>2 DEF Left
<1> QED BY <1>5, <1>6, <1>7, <1>9, <1>10, <1>11, <1>12, Processes DEF Live

LEMMA KickLive ==
    ASSUME Sound, Live, Kick
    PROVE  Live'
<1> USE DEF objects, socks, sessions, world, loop, server
<1> DEFINE x == at[Worker].sock
<1>1. CASE Faulty("freed")
  BY <1>1, FaultLive
<1>2. CASE ~Faulty("freed")
  <2>1. /\ \/ Enter(Worker, "disconnect", x, "timer")
           \/ Goto(Worker, "timer") /\ ~(socket[x] /\ connected[x])
        /\ UNCHANGED <<objects, asked, pending, account, m_sessions, Sessions, doomed>>
    BY <1>2 DEF Kick
  <2>2. x \in Sock /\ session[x] # "none" /\ at[Worker].pc = "kick" /\ at \in [Process -> Place]
    BY Processes, Stands DEF Kick, Live, WorkerSpot, Fits
  <2>3. at'[World] = at[World]
    BY <2>1, <2>2, Gone, Entered, Processes, Labels DEF Calling
  <2>4. ReachableLive' /\ Objects'
    BY <2>1, <2>3, Still
  <2>5. CASE Enter(Worker, "disconnect", x, "timer")
    BY <2>1, <2>2, <2>4, <2>5, BeginLive
  <2>6. CASE Goto(Worker, "timer") /\ ~(socket[x] /\ connected[x])
    <3>1. at'[Worker].pc = "timer" /\ at'[Worker].sock = x
      BY <2>2, <2>6, Gone, Processes, Labels
    <3> HIDE DEF x
    <3>2. WorkerSpot' /\ Spot(Worker)' /\ at'[Worker].pc # "undefined"
      BY <2>1, <2>2, <2>6, <3>1 DEF WorkerSpot, Spot, Departs
    <3> QED BY <2>1, <2>2, <2>3, <2>4, <3>2, WorkerMoves
  <2> QED BY <2>1, <2>5, <2>6
<1> QED BY <1>1, <1>2

LEMMA WorkerLive ==
    ASSUME Sound, Live, WorkerStep
    PROVE  Live'
<1> USE DEF objects, socks, sessions, world, loop, server
<1>0. Worker \in Process /\ Worker # World /\ at \in [Process -> Place]
  BY Processes, Stands
<1>1. CASE Call(Worker)
  BY <1>0, <1>1, CallLive
<1>2. CASE ReleaseLocks
  <2>1. /\ Finish(Worker) /\ at[Worker].pc = "unlock"
        /\ UNCHANGED <<objects, asked, pending, account, m_sessions, Sessions, doomed>>
    BY <1>2 DEF ReleaseLocks
  <2>2. at'[World] = at[World] /\ at'[Worker].pc = "idle"
    BY <1>0, <2>1, Finished, Processes, Idles
  <2>3. ReachableLive' /\ Objects'
    BY <2>1, <2>2, Still
  <2>4. WorkerSpot' /\ Spot(Worker)'
    BY <2>2 DEF WorkerSpot, Spot, Calling, Departs
  <2> QED BY <2>1, <2>2, <2>3, <2>4, WorkerMoves
<1>3. CASE CheckQueue \/ AddQueuedSocket \/ SetQueued
  <2>1. /\ at[Worker].pc \in {"count", "enqueue", "flag"} /\ at[Worker].pc \in Takes \cup {"flag"}
        /\ UNCHANGED <<objects, asked, pending, account, m_sessions, Sessions, doomed>>
    BY <1>3 DEF CheckQueue, AddQueuedSocket, SetQueued, Takes
  <2>2. PICK label \in {"enqueue", "authenticate", "disconnect", "flag", "unlock"} :
          Goto(Worker, label) /\ (label = "enqueue" => at[Worker].pc = "count")
    BY <1>3 DEF CheckQueue, AddQueuedSocket, SetQueued
  <2>3. at'[World] = at[World]
    BY <1>0, <2>1, <2>2, TakeMoves, Processes DEF Takes
  <2>4. ReachableLive' /\ Objects'
    BY <2>1, <2>3, Still
  <2>5. label = "enqueue" => connected[at[Worker].sock]
    BY <2>2 DEF Live, WorkerSpot
  <2> QED BY <1>0, <2>1, <2>2, <2>4, <2>5, TakeLive
<1> QED BY <1>1, <1>2, <1>3, KickLive, TimerLive, CreateLive DEF WorkerStep

-----------------------------------------------------------------------------
\* The world thread

\* World::UpdateSessions gives a session a logout time that is not over.
LEMMA TimedLive ==
    ASSUME Sound, Live, NEW x \in Sock, session[x] # "none", at[World].pc = "update",
           logout' = [logout EXCEPT ![x] = IF @ = "due" THEN "no" ELSE Timed(x)],
           at'[Worker] = at[Worker],
           \/ at'[World] = at[World]
           \/ /\ at'[World].pc \in {"disconnect", "forget"} /\ at'[World].sock = x
              /\ at'[World].pc = "forget" => ~(connected[x] /\ socket[x]),
           UNCHANGED <<connected, mSession, session, socket, asked, pending, account, m_sessions,
                       Sessions, doomed, fault>>
    PROVE  Live'
<1>1. /\ logout'[x] \in {"no", "set"} /\ (logout'[x] = "set" => ~socket[x])
      /\ \A y \in Sock \ {x} : logout'[y] = logout[y]
      /\ LiveTyped'
  BY DEF Live, LiveTyped, Objects, Timed
<1>2. ReachableLive' /\ WorkerSpot'
  BY DEF Live, ReachableLive, WorkerSpot
<1>3. Objects'
  BY <1>1 DEF Live, Objects
<1>4. Spot(Worker)' /\ Spot(World)'
  BY Processes DEF Live, Spot, Departs
<1>5. WorldSpot' /\ Together'
  BY <1>1 DEF Live, WorldSpot, Together, Calling
<1>6. Left'
  <2>1. ASSUME at[Worker].pc # "undefined", NEW y \in Sock PROVE Leaving(y)'
    <3>1. Leaving(y)
      BY <2>1 DEF Live, Left
    <3>2. \A p \in Process : at[p].pc = "leave" => at'[p] = at[p]
      BY Processes
    <3> QED BY <1>1, <3>1, <3>2 DEF Leaving
  <2> QED BY <2>1 DEF Left
<1> QED BY <1>1, <1>2, <1>3, <1>4, <1>5, <1>6, Processes DEF Live

LEMMA DeleteLive ==
    ASSUME Sound, Live, NEW x \in Sock, DeleteSession(x)
    PROVE  Live'
<1> USE DEF world, server
<1>1. /\ at[World].pc = "delete" /\ x \in doomed /\ session' = [session EXCEPT ![x] = "deleted"]
      /\ mSession' = [mSession EXCEPT ![x] = @ /\ ~socket[x]] /\ doomed' = doomed \ {x}
      /\ Finish(World) \/ UNCHANGED at
      /\ UNCHANGED <<connected, logout, socket, asked, pending, account, m_sessions, Sessions, fault>>
  BY DEF DeleteSession
<1>2. /\ at'[Worker] = at[Worker] /\ at'[World].pc \in {"delete", "idle"}
      /\ at'[World].pc = "delete" => at[World].pc = "delete"
  BY <1>1, Finished, Processes, Idles, Stands
<1>3. /\ session[x] = "live" /\ x \notin Sessions
      /\ ~mSession[x] /\ asked[x] /\ x \notin pending /\ \A a \in Account : m_sessions[a] # x
  BY <1>1 DEF Sound, Stages, Live, Objects
<1>4. /\ session'[x] = "deleted" /\ mSession' = mSession /\ LiveTyped'
      /\ \A y \in Sock \ {x} : session'[y] = session[y]
  BY <1>1, <1>3 DEF Live, LiveTyped
<1>5. ReachableLive'
  BY <1>1, <1>3, <1>4 DEF Live, ReachableLive
<1>6. Objects'
  BY <1>1, <1>2, <1>3, <1>4 DEF Live, Objects
<1>7. Spot(Worker)' /\ Spot(World)'
  BY <1>1, <1>2, <1>4, Processes DEF Live, Spot, Departs
<1>8. WorkerSpot'
  <2>1. at[Worker].pc = "create" => at[Worker].sock # x
    BY <1>3 DEF Live, WorkerSpot
  <2>2. at[Worker].pc \in Calling \cup {"create", "kick", "timer"} => at[Worker].sock \in Sock
    BY Processes, Stands DEF Fits
  <2>3. \A y \in Sock : session[y] # "none" => session'[y] # "none"
    BY <1>4
  <2> QED BY <1>1, <1>2, <1>4, <2>1, <2>2, <2>3 DEF Live, WorkerSpot
<1>9. WorldSpot' /\ Together'
  BY <1>1, <1>2 DEF Live, WorldSpot, Together
<1>10. Left'
  <2>1. ASSUME at[Worker].pc # "undefined", NEW y \in Sock PROVE Leaving(y)'
    <3>1. Leaving(y)
      BY <2>1 DEF Live, Left
    <3>2. \A p \in Process : at[p].pc = "leave" => at'[p] = at[p]
      BY <1>1, <1>2, Processes
    <3> QED BY <1>1, <1>2, <1>4, <3>1, <3>2 DEF Leaving
  <2> QED BY <1>2, <2>1 DEF Left
<1> QED BY <1>4, <1>5, <1>6, <1>7, <1>8, <1>9, <1>10, Processes DEF Live

LEMMA ForgetLive ==
    ASSUME Sound, Live, ForgetSocket
    PROVE  Live'
<1> USE DEF socks, world, loop, server
<1> DEFINE x == at[World].sock
<1>1. /\ at[World].pc = "forget" /\ socket' = [socket EXCEPT ![x] = FALSE] /\ Goto(World, "update")
      /\ logout' = [logout EXCEPT ![x] = IF @ = "no" THEN "set" ELSE @]
      /\ UNCHANGED <<connected, mSession, session, asked, pending, account, m_sessions, Sessions,
                     doomed, fault>>
  BY DEF ForgetSocket
<1>2. at'[Worker] = at[Worker] /\ at'[World].pc = "update"
  BY <1>1, WorldTurns
<1>3. /\ x \in Sock /\ session[x] # "none" /\ ~(connected[x] /\ socket[x])
      /\ mSession[x] => logout[x] # "due"
  BY <1>1, WorldCalls DEF Live, WorldSpot
<1>4. /\ at[Worker].pc # "undefined" /\ \A y \in Sock : Leaving(y)
      /\ \A p \in Process : at[p].pc = "leave" => p = Worker
  BY <1>1, Processes DEF Live, Left, Together
<1>5. mSession[x] => at[Worker].pc = "leave" /\ at[Worker].sock = x
  BY <1>3, <1>4 DEF Leaving
<1> HIDE DEF x
<1>6. /\ ~socket'[x] /\ (logout'[x] = "due" => logout[x] = "due") /\ LiveTyped'
      /\ \A y \in Sock \ {x} : socket'[y] = socket[y] /\ logout'[y] = logout[y]
  BY <1>1, <1>3 DEF Live, LiveTyped
<1>7. ReachableLive'
  BY <1>1 DEF Live, ReachableLive
<1>8. Objects'
  BY <1>1, <1>2, <1>3, <1>6 DEF Live, Objects
<1>9. Spot(Worker)' /\ Spot(World)'
  BY <1>1, <1>2, Processes DEF Live, Spot, Departs
<1>10. WorkerSpot' /\ WorldSpot' /\ Together'
  <2>1. at[Worker].pc = "timer" => at[Worker].sock \in Sock
    BY Stands, Processes DEF Fits
  <2> QED BY <1>1, <1>2, <1>6, <2>1 DEF Live, WorkerSpot, WorldSpot, Together, Calling
<1>11. Left'
  <2>1. ASSUME NEW y \in Sock PROVE Leaving(y)'
    <3>1. \A p \in Process : at[p].pc = "leave" => at'[p] = at[p]
      BY <1>2, <1>4
    <3> QED BY <1>1, <1>2, <1>3, <1>4, <1>5, <1>6, <3>1 DEF Leaving
  <2> QED BY <2>1 DEF Left
<1> QED BY <1>6, <1>7, <1>8, <1>9, <1>10, <1>11, Processes DEF Live

\* The world thread lets in the first of the queue.
LEMMA QueueLive ==
    ASSUME Sound, Live, StartQueue \/ Admit \/ Guard \/ Release
    PROVE  Live'
<1> USE DEF objects, socks, sessions, world, loop, server
<1>0. World \in Process /\ Worker # World /\ at \in [Process -> Place]
  BY Processes, Stands
<1>1. CASE Faulty("null")
  BY <1>1, FaultLive
<1>2. CASE ~Faulty("null")
  <2>1. /\ at[World].pc \in {"idle", "admit", "guard", "release"}
        /\ UNCHANGED <<objects, asked, pending, account, m_sessions, Sessions, doomed>>
    BY <1>2, Idles DEF StartQueue, Admit, Guard, Release
  <2>2. /\ at'[Worker] = at[Worker]
        /\ at'[World].pc \in {"idle", "admit", "guard", "authenticate"}
    <3>1. CASE StartQueue \/ Guard \/ Release
      <4>1. PICK label \in {"admit", "authenticate"} : Goto(World, label)
        BY <1>2, <3>1 DEF StartQueue, Guard, Release
      <4> QED BY <1>0, <4>1, Gone, Labels, Processes DEF Takes
    <3>2. CASE Admit
      <4>1. CASE SessionCount < m_playerLimit /\ queue # <<>>
        <5>1. Head(queue) \in Sock
          BY <4>1, TailQueue DEF Sound, Stages, Kinds
        <5>2. PICK label \in {"admit", "guard"} : Enter(World, label, Head(queue), "release")
          BY <3>2, <4>1 DEF Admit
        <5> QED BY <1>0, <5>1, <5>2, Entered, Labels, Processes DEF Takes
      <4>2. CASE ~(SessionCount < m_playerLimit /\ queue # <<>>)
        <5>1. Finish(World)
          BY <3>2, <4>2 DEF Admit
        <5> QED BY <1>0, <5>1, Finished, Idles, Processes
      <4> QED BY <4>1, <4>2
    <3> QED BY <3>1, <3>2
  <2>3. ReachableLive' /\ Objects'
    BY <2>1, <2>2, Still
  <2>4. WorldSpot' /\ Spot(World)'
    BY <2>2 DEF WorldSpot, Spot, Departs
  <2> QED BY <2>1, <2>2, <2>3, <2>4, WorldMoves
<1> QED BY <1>1, <1>2

LEMMA WorldLive ==
    ASSUME Sound, Live, WorldStep \/ StartSessions
    PROVE  Live'
<1> USE DEF objects, socks, sessions, world, loop, server
<1>1. CASE Call(World)
  BY <1>1, CallLive, Processes
<1>2. CASE StartQueue \/ Admit \/ Guard \/ Release
  BY <1>2, QueueLive
<1>3. ASSUME NEW x \in Sock, UpdateOn(x) PROVE Live'
  <2>1. session[x] # "none" /\ at[World].pc = "update"
    BY <1>3 DEF UpdateOn, Sound, Stages
  <2> QED BY <1>3, <2>1, TimedLive DEF UpdateOn
<1>4. ASSUME NEW x \in Sock, UpdateTimeout(x) PROVE Live'
  <2>1. session[x] # "none" /\ at[World].pc = "update"
    BY <1>4 DEF UpdateTimeout, Sound, Stages
  <2>2. PICK label \in {"disconnect", "forget"} :
          /\ Enter(World, label, x, "forget")
          /\ label = "forget" => ~(connected[x] /\ socket[x])
    BY <1>4 DEF UpdateTimeout
  <2>3. label \in Label /\ "forget" \in Label /\ at \in [Process -> Place]
    BY Labels, Stands, Processes DEF Calling
  <2>4. at'[Worker] = at[Worker] /\ at'[World].pc = label /\ at'[World].sock = x
    BY <2>2, <2>3, Entered, Processes
  <2> QED BY <1>4, <2>1, <2>2, <2>4, TimedLive DEF UpdateTimeout
<1>5. ASSUME NEW x \in Sock, UpdateDeleted(x) PROVE Live'
  <2>1. /\ Sessions' = Sessions \ {x} /\ doomed' = doomed \cup {x} /\ at[World].pc = "update"
        /\ UNCHANGED <<objects, asked, pending, account, m_sessions, at>>
        /\ logout[x] = "due" /\ ~socket[x]
    BY <1>5 DEF UpdateDeleted, Timed
  <2>2. ~mSession[x]
    BY <2>1 DEF Live, Left, Leaving, Together
  <2>3. ReachableLive'
    BY <2>1 DEF Live, ReachableLive
  <2>4. Objects'
    BY <2>1, <2>2 DEF Live, Objects
  <2>5. WorldSpot' /\ Spot(World)'
    BY <2>1, Processes DEF Live, WorldSpot, Spot
  <2> QED BY <2>1, <2>3, <2>4, <2>5, WorldMoves
<1>6. ASSUME NEW x \in Sock, DeleteSession(x) PROVE Live'
  BY <1>6, DeleteLive
<1>7. CASE ForgetSocket
  BY <1>7, ForgetLive
<1>8. CASE EndSessions \/ StartSessions
  <2>1. /\ at[World].pc \in {"update", "idle"}
        /\ UNCHANGED <<objects, asked, pending, account, m_sessions, Sessions, doomed>>
    BY <1>8, Idles DEF EndSessions, StartSessions
  <2>2. at'[Worker] = at[Worker] /\ at'[World].pc \in {"idle", "erase", "update"}
    BY <1>8, WorldTurns DEF EndSessions, StartSessions
  <2>3. ReachableLive' /\ Objects'
    BY <2>1, <2>2, Still
  <2>4. WorldSpot' /\ Spot(World)'
    BY <2>2 DEF WorldSpot, Spot, Departs
  <2> QED BY <2>1, <2>2, <2>3, <2>4, WorldMoves
<1>9. CASE EraseSessions
  <2>1. at'[Worker] = at[Worker] /\ at'[World].pc = "delete"
    BY <1>9, WorldTurns DEF EraseSessions
  <2>2. /\ m_sessions' = [a \in Account |-> IF \E x \in doomed : account[x] = a THEN None
                                            ELSE m_sessions[a]]
        /\ UNCHANGED <<objects, asked, pending, account, Sessions, doomed>>
        /\ at[World].pc = "erase"
    BY <1>9 DEF EraseSessions
  <2>3. \A a \in Account : m_sessions'[a] # None =>
          m_sessions'[a] = m_sessions[a] /\ \A x \in doomed : account[x] # a
    BY <2>2
  <2>4. ReachableLive'
    BY <2>2, <2>3, AdmissionAssumption DEF Live, ReachableLive
  <2>5. Objects'
    BY <2>1, <2>2, <2>3, AdmissionAssumption DEF Live, Objects, Sound, Kinds
  <2>6. WorldSpot' /\ Spot(World)'
    BY <2>1 DEF WorldSpot, Spot, Departs
  <2> QED BY <2>1, <2>2, <2>4, <2>5, <2>6, WorldMoves
<1> QED BY <1>1, <1>2, <1>3, <1>4, <1>5, <1>6, <1>7, <1>8, <1>9 DEF WorldStep

LEMMA InitLive == Init => Live
<1> SUFFICES ASSUME Init PROVE Live
  OBVIOUS
<1>1. \A p \in Process : at[p] = Idle
  BY DEF Init
<1>2. \A p \in Process : at[p].pc = "idle"
  BY <1>1, Idles
<1>3. LiveTyped /\ Objects
  BY <1>2, Processes, AdmissionAssumption DEF Init, LiveTyped, Objects
<1>4. ReachableLive
  BY AdmissionAssumption DEF Init, ReachableLive
<1>5. \A p \in Process : Spot(p)
  BY <1>2 DEF Spot, Departs
<1>6. WorkerSpot /\ WorldSpot /\ Left /\ Together
  BY <1>2, Processes DEF Init, WorkerSpot, WorldSpot, Left, Leaving, Together, Calling
<1> QED BY <1>3, <1>4, <1>5, <1>6 DEF Live

LEMMA NextLive ==
    ASSUME Sound, Live, [Next]_vars
    PROVE  Live'
<1>1. CASE Next
  BY <1>1, PacketLive, AnswerLive, WorkerLive, WorldLive DEF Next
<1>2. CASE UNCHANGED vars
  <2>1. UNCHANGED <<objects, asked, pending, account, m_sessions, Sessions, doomed, at>>
    BY <1>2 DEF vars, socks, sessions, world, loop, server, objects
  <2>2. ReachableLive' /\ Objects'
    BY <2>1, Still
  <2>3. (\A p \in Process : Spot(p)') /\ LiveTyped' /\ Together'
    BY <2>1 DEF objects, Live, Spot, LiveTyped, Together
  <2>4. WorkerSpot' /\ WorldSpot' /\ Left'
    BY <2>1 DEF objects, Live, WorkerSpot, WorldSpot, Left, Leaving
  <2> QED BY <2>2, <2>3, <2>4 DEF Live
<1> QED BY <1>1, <1>2

\* No list of the world and no socket reaches a deleted session, nobody is in the
\* login queue twice, and nobody stays there after Disconnect: for any number of
\* sockets and accounts, any player limit, and however logins, the queue, kicks,
\* disconnections, timeouts and deletions overlap.
THEOREM AdmissionConsistent == Spec => []Consistent
<1>1. Init => Sound /\ Live
  BY InitSound, InitLive
<1>2. Sound /\ Live /\ [Next]_vars => Sound' /\ Live'
  BY NextSound, NextLive DEF Live
<1>3. Sound /\ Live => Consistent
  <2> SUFFICES ASSUME Sound, Live PROVE Consistent
    OBVIOUS
  <2>1. TypeOK
    <3>1. \A p \in Process : at[p].sock \in Sock \cup {None}
      BY Stands
    <3> QED BY <3>1, Waiters DEF TypeOK, Sound, Kinds, Stages, Live, LiveTyped
  <2>2. QueueConnected
    BY DEF QueueConnected, Sound, Waiting, Live, Together, Departs
  <2> QED BY <2>1, <2>2 DEF Consistent, Live
<1> QED BY <1>1, <1>2, <1>3, PTL DEF Spec
===============================================================================
