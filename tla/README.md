# Verification of the ArcEmu server core

TLA+ specifications of the parts of ArcEmu that many threads share: the network
layer, the thread pool, the admission of sessions and their way between the maps, the
events of objects, the link between the two servers, and the database threads. TLC
checks them on small instances, and TLAPS proves their safety properties for every
value of the constants. Paths below are relative to `src/src/` unless they say
otherwise.

Contents: [the system](#the-system) · [plan](#plan) · [modules](#modules) ·
[runs and bounds](#runs-and-bounds) · [fairness](#fairness) · [proofs](#proofs) ·
[what the code does wrong](#what-the-code-does-wrong) · [not modelled](#not-modelled) ·
[running it](#running-it)

## The system

There are two server processes. The **logon server** authenticates accounts and keeps
the list of realms. The **world server** runs the game: it is a logon client of the
former, it has one socket per player, a session per player that is logged in, and maps
that are updated by threads of their own. Both are built from the **shared library**
(`shared/`): buffers, sockets, threads, the database.

### Who runs what

| thread | code | does |
|---|---|---|
| socket worker | `shared/Network/SocketMgrLinux.cpp:118-190` | waits in `epoll_wait`, accepts, reads, calls `OnRead`, writes |
| world thread | `world/World.cpp` (`Update`, `UpdateSessions`, `UpdateQueuedSessions`) | queue of logins, sessions that are on no map, global systems |
| map threads | `world/Map/MapMgr.cpp` | one per map: the map's objects, the sessions on it and its events |
| watcher of the logon link | `world/Server/LogonCommHandler.cpp:85-122` | dials the logon server, registers realms, pings |
| execute thread | `shared/Database/Database.cpp:233-280` | takes single statements from `queries_queue` |
| query thread | `shared/Database/Database.cpp:352-396` | takes transactions from `query_buffer` |
| main thread | `world/Server/Master.cpp`, `logon/Server/Main.cpp` | start, garbage collection of sockets, `IntegrityCheck`, shutdown |

All but the main thread are threads of the one **pool** (`shared/Threading/ThreadPool.cpp`).
There are no messages between them: they share objects, each with its own mutexes,
flags and atomic counters, and they call each other's callbacks (`OnRead`,
`OnDisconnect`, `OnShutdown`).

### Inventory

For each component: what it keeps; what it offers; what is hard; what makes it correct.

**CircularBuffer** (`shared/Container/CircularBuffer.cpp`). A block with two regions,
A in front of which sends take and B that is filled once A is no longer at the start.
`Write`, `Read`, `Remove`, `GetSpace`, `GetBuffer`/`IncrementWritten` for `recv`,
`GetContiguiousBytes`/`GetBufferStart` for `send`. Hard: every size is computed in
several places; on Windows a send reads the block after the mutex has been released.
Correct: it is a FIFO of bytes; the regions stay apart; what is being sent stays put;
a frame that was said to fit is written whole.

**Sending and receiving on a socket** (`shared/Network/Socket.h`, `SocketLinux.cpp`,
`SocketMgrLinux.cpp`). The write buffer under `m_writeMutex`, the send lock
`m_writeLock`, one epoll mask that holds either `EPOLLIN` or `EPOLLOUT`. `BurstBegin`,
`BurstSend`, `BurstPush`, `BurstEnd`, `ReadCallback`, `WriteCallback`, `PostEvent`.
Hard: edge-triggered events, the lock and the mask set in separate steps, the worker
that looks at the buffer without its mutex. Correct: the lock and the mask say whether
bytes wait; bytes do not wait for ever on either side.

**Life of a socket** (`shared/Network/Socket.cpp`, `ListenSocketLinux.h`,
`SocketMgrLinux.cpp`, `SocketMgrLinux.h`). `m_connected`, `m_deleted`, the table of
descriptors, the epoll set, the garbage collector's queue. `OnAccept`,
`ConnectTCPSocket`, `AddSocket`, `Disconnect`, `Delete`, `CloseAll`, `Update`. Hard:
any thread disconnects and deletes; descriptors are numbers that the kernel gives out
again while events for the old owner are still in the worker's batch. Correct: the
table and the epoll set agree, `OnDisconnect` once, no foreign descriptor closed, every
socket freed, every end of a connection noticed.

**Packet queue of a WorldSocket** (`world/Server/WorldSocket.cpp:105-240`). Packets for
which the write buffer has no room, under `queueLock`. `OutPacket`,
`SendQueuedPackets`. Hard: senders write past a queue that is being emptied. Correct:
nothing lost or doubled, order within each way out, the queue runs empty.

**ThreadPool**. `m_freeThreads`, `m_activeThreads`, three counters, and a semaphore and
`DeleteAfterExit` per thread. `Startup`, `ExecuteTask`, `IntegrityCheck`,
`KillFreeThreads`, `ThreadExit`, `Shutdown`, `thread_proc`. Hard: threads delete
themselves while the pool has their pointers; the counters are kept by hand; exits are
counted and not bound to threads. Correct: no deleted thread in a set, no thread with
two tasks, every task run, `Shutdown` ends.

**Session admission** (`world/Server/WorldSocket.cpp`, `LogonSocket.cpp:149-180`,
`world/World.cpp`, `world/WorldSession.cpp`). `m_sessions` by account, `Sessions` of
the world thread, the login queue, pointers between socket and session, four kinds of
mutex. Log in, kick the earlier session, wait in the queue, disconnect, log out,
delete. Hard: the worker and the world thread do all of it at once, and pointers
outlive the locks under which they were found. Correct: nothing deleted is reachable,
sockets that are gone leave the queue, no deadlock, orphans are deleted, one session
per account.

**Database** (`shared/Database/`). Connections with a mutex `Busy` each; two queues and
their threads; `Execute`, `AddQueryBuffer`, `Query`, `WaitExecute`, `EndThreads`. Hard:
callers spin for a connection that threads keep; statements that are refused, and
connections or transactions that are lost, with nobody looking at the result; ending
while callers go on. Correct: a connection has one user; a transaction is stored whole,
but for what was refused, and a loss harms the one being sent only; what was handed over
is sent; `EndThreads` ends.

**Logon link** (`world/Server/LogonCommHandler.cpp`, `LogonSocket.cpp`, and at the other
end `logon/RealmList/RealmSocket.cpp`, `RealmRegistry.cpp`). On the world's side the
link's entry in `logons` under `mapLock`, and the socket's `_id` and `authenticated`; on
the logon server's side the set of sockets, the realms by id with their flags, and the
ids each socket registered. `Connect`, `UpdateSockets`, `ConnectionDropped`,
`AdditionAck`; `HandleRegister`, `OnDisconnect`, `TimeoutSockets`. Hard: four threads in
two processes; the watcher holds `mapLock` while it waits for answers that the worker
reads; links that are given up, cut or half open overlap with their successors; a realm
gets a new id at each registration. Correct: no link is taken out of `logons` by the end
of another; a realm is shown online exactly while somebody will set it offline; the link
comes back after any trouble.

**Logon server** (`logon/Auth/AuthSocket.cpp`, `AccountMgr.cpp`,
`Patcher/AutoPatcher.cpp`). The challenge and proof state of a client, accounts that are
reloaded while they are read, patch jobs that the patcher thread and the socket both
end. Correct: no session key without a proof; a job is freed once. *Not modelled.*

**Sessions on maps** (`world/WorldSession.cpp`, `world/Map/MapMgr.cpp`,
`world/Game/Entities/Player.cpp`). `instanceId` of the session, a set of sessions in
each thread, `m_mapMgr` and `m_beingPushed` of the player, an insert pool per map.
`Update` with its packets, login, teleport, logout, kick, deletion, and the pushes of the
maps. Hard: `instanceId` and the player's fields have no lock, and each step of a
hand-over leaves the session in two hands or in none. Correct: one thread updates the
session, no live session is lost, nobody touches a deleted one, and a session without a
socket is deleted.

**Events** (`world/EventMgr.h`, `EventableObject.cpp`, `Game/Entities/Object.cpp`). An
object's events in `m_events` under its lock; a list and an insert pool in the holder of
each map and of the world; a count of references, an instance id and `deleted` in each
event. `AddEvent`, `event_RemoveEvents`, `event_Modify...`, `event_Relocate`, `Update`.
Hard: an event that moves stays in the old lists and is recognised by its instance id;
callbacks add, remove, move and destroy. Correct: references are exact, an event is at
home in one holder, none is left behind, a one-shot event runs once, a removed one does
not run, a waiting one does.

**Thread primitives** (`shared/Threading/`: `Mutex`, `ConditionVariable`, `AtomicULong`,
`Queue.h`). A mutex and an atomic addition are single steps of the modules. The
compare-and-swap loop of `AtomicULong` is planned.

**Game systems** (spells, units, AI, groups, guilds, battlegrounds, LFG, auctions,
mail), **chat commands and consoles**, **DBC files, configuration, logging,
cryptography**, **script plugins and extraction tools**: content and sequential code;
see [not modelled](#not-modelled).

`PROJECT.json` lists each component with its sources, and under `hazards` the places in
the code where each hard behaviour bites, with the property that covers it or the
reason why none does.

### How they interact

```
 client ── kernel ── SocketLifecycle ── EpollSocket ── CircularBuffer ──▶ ByteFifo
                          │                 ▲             (refines)
                          │ OnDisconnect    │ room?
                          ▼                 │
 logon answer ──▶ SessionAdmission     PacketQueue ◀── OutPacket of any thread
      ▲                   │ AddGlobalSession
  LogonLink          MapSessions ── AddToWorld, PushToWorld, RemoveFromWorld ──▶ Events
                          │
                  world thread, map threads, ... ── threads of ThreadPool
                          │
                          └── Execute, AddQueryBuffer, Query ──▶ Database
```

`EpollSocket` is composed with the buffer itself: both it and `CircularBuffer` use the
operators of `BipBuffer`. Elsewhere one module's detail is another's free choice, and
the module's header says so: `SocketLifecycle` chooses freely what the buffers and the
send lock decide, `PacketQueue` has a buffer of packets of the size that `BipBuffer`
bounds, `SessionAdmission` sees `Disconnect` as the calls of `OnDisconnect`,
`MapSessions` begins with a session that `SessionAdmission` has put in the world's set and
takes the loss of its socket as a free choice, `LogonLink` has connections that carry
whole messages.

## Plan

Done first, because every other part stands on it and because its hazards are the
hardest to test: the network layer; then the pool that runs the threads; then the two
places where threads share most, the admission of sessions and the database.

| step | modules | abstract specification | theorems |
|---|---|---|---|
| 1, done | `ByteFifo`, `BipBuffer`, `CircularBuffer` | `ByteFifo` | type, regions, send in flight, frames, refinement |
| 2, done | `EpollSocket` | | type, `LockExact` |
| 3, done | `SocketLifecycle` | | `Consistent`, `ClosesOwn` |
| 4, done | `PacketQueue` | | `Consistent`, `OrderWithinWay` |
| 5, done | `ThreadPool` | | `PoolSound`, `Exclusive` |
| 6, done | `SessionAdmission` | | `FoundByAccount`, `Consistent` |
| 7, done | `Database` | | `Consistent`, `ConnectionsOwned` |
| 8, done | `LogonLink` | | `Consistent`, `OnlineHeld`, `RestartedOnlineInOrder` |
| 9, done | `MapSessions` | | `Owner`, `NeverLost`, `DeletedByOwner`, `Consistent` |
| 10, done | `Events` | | `Consistent`, `OneHome`, `OneShotOnce`, `NoGhostCalls`, `NoneLeftBehind` |
| 11 | requests for accounts over the link: `ClientConnected`, `UnauthedSocketClose` | a request is answered at most once | that, as an invariant |
| 12 | `EpollSocket` with senders that do not test for room (`Checked # Sender`), for the header and body of `LogonSocket::SendPacket` | | |
| 13 | `AtomicULong`: the compare-and-swap loop | an atomic counter | refinement |
| 14 | the authentication of a client, and the patch jobs | a session key only after a proof | that, as an invariant |

## Modules

State, and the code that each part of it stands for, is in the comments beside
`VARIABLES`; `map` in `PROJECT.json` has the lines of each definition. An action is one
handler, or one step of it when another thread can come between: the boundary of an
action is a mutex taken or released, a system call, or a read of a shared field that
is used after another thread may have changed it. Definitions introduced as "a
plausible mistake" are wrong variants of the definition below them, kept to show
which property notices the mistake; the specifications do not use them.

**`ByteFifo`** What a buffer promises: a sequence `q` of bytes, of which a write takes
all or nothing, and may be refused only when the buffer would be half full with it.

**`BipBuffer`** The operators of `CircularBuffer.cpp`: the block, the two pointers and
sizes as a record, each method as a function from the record to the record. The same
operators serve `CircularBuffer` and `EpollSocket`.

**`CircularBuffer`** The buffer as a state machine: `CallWrite`, `CallRead`,
`CallRemove`, `CallReceive`, and an asynchronous send (`StartSend`, `FinishSend`) as
the Windows build does it, with writes in between. The refinement mapping gives
`ByteFifo` the content of the regions in order. The calls are serial, as
`m_writeMutex` and `m_readMutex` make them; the kernel's reading is not. Its
specification is called `BufferSpec`, with `BufferInit` and `BufferNext`, so that one
module can reason about it and about `EpollSocket`.

**`EpollSocket`** One socket. A sender goes through `Begin`, `Room`, `Header`, `Body`,
`Acquire`, `Post`, `End` inside `m_writeMutex`; the worker through `Wait`,
`ReadCallback`, `SizeTest`, `LockTest`, `Switch`, `WriteCallback`, `KeepWriting`,
`BackToReading`, and looks at the buffer without the mutex as the code does. A handler
is a sender that runs in the worker, in `OnRead`. The kernel is modelled from how the
code uses it: `EPOLL_CTL_MOD` reports a state that already holds; afterwards there is
an edge only for input that arrives, or for room after a send that found none.

**`SocketLifecycle`** The objects, the table of descriptors, the epoll set and the
worker's batch of events, over a kernel that gives a closed number to the next
connection. Bytes are only "some"; what the buffers would decide is a free choice.
`SocketMgr` has no lock, and `AddSocket` and `RemoveSocket` write the table first and the
epoll set later (`AddEvent`, `RemoveEvent`), so the set is changed for whatever the number
stands for by then. `Disconnect` and `Delete` are split where other threads get in: the
flag, `RemoveSocket` and `RemoveEvent`, `OnDisconnect`, `CloseSocket`, `QueueSocket`. The garbage collector's 15 seconds are
taken to outlast every call that was under way when the socket was queued.

**`PacketQueue`** `OutPacket` with its test of the connection and of the room, the
queue behind `queueLock`, `SendQueuedPackets` with each of its ends, and the worker, which may
stall after a send that leaves bytes: when that happens is what `EpollSocket` is about,
here it is a free choice.

**`ThreadPool`** Each operation of the pool holds `_mutex`, so it is one step; a thread
moves alone between them. The semaphore is a counter, so a wake-up that comes before
the sleep is not lost, as with the code's controller.

**`SessionAdmission`** The four locks are variables and every acquisition a guard.
`fault` records that the code would follow a bad pointer; the model stops there, since
what comes after is undefined. The 20 seconds of the logout delay are taken to outlast
what the worker was doing when they began.

**`Database`** A thread's local variables are in `at`: where it is, what it has in its
hand, its connection, its place in a transaction, and whether it is past its loop.
`SendQuery` has four outcomes: the statement is executed; it is refused, which is logged
and changes nothing else (`refused`); the connection is lost, so that the new one has no
transaction, and the statement is sent again or given up (`mPort` is never set, so which of
the two is left open); or the server takes the transaction back, as for a deadlock, and the
rest is executed outside any. The last two are `Dropped`, and `hurt` has what was being
sent. As in the code, nobody looks at the result. `BEGIN` and `COMMIT` themselves succeed.

**`LogonLink`** Both ends of the link. The watcher goes through `Connect` (`Connect`,
`RequestAddition`, `AuthTimeOut`, `RegisterTimeOut`, `GiveUp`, `Linked`) and
`UpdateSockets` (`FoundDead`, `PongTimeOut`, `Connect` again); the world's worker reads
answers and is the one that calls `ConnectionDropped`; the logon server's worker handles
one packet at a time, `HandleRegister` in two steps because the main thread may come
between; `TimeoutSockets` is in three. Waits of 10, 60 and 300 seconds end when what
they wait for cannot come, or by one of the `MaxTroubles` troubles of the network, so a
late answer is always possible and never free. The name of a connection is used again
when nothing refers to it.

**`MapSessions`** One session. Each thread has a stack of labels; `Visit` is the loop over
its set, then `TestSocket`, the packets with `Compare` after each, `TestTimer`, the ping.
The procedures that move the player (`Enter`, `Added`, `SetInstance`; `Remove`, `Release`,
`AddGlobalSession`; `LogoutPlayer`, `LoggedOut`) are called by packets and by what happens
on the map. `handed` records which threads have handed the session over and not compared
`instanceId` since; `overtaken` that a thread moved or deleted the player while another
was still moving it, where the model stops.

**`Events`** One object and its events. A thread may call the object's operations between
its updates and inside a callback. `AddEvent` and `AddToHolder` are the two halves of
`event_AddEvent`, around the release of the lock; `UpdateBegin`, `Visit`, `Execute`,
`CallbackReturns` and `UpdateEnd` are `EventableObjectHolder::Update`. An event may have
several entries in a list or pool, and `ref` counts them; the model keeps their numbers,
and for `Update` the numbers that are still ahead of its iterator. In which order `Update`
meets the entries is left open: every order of the code's list is among those the model
allows, and no property depends on one.

## Runs and bounds

Every bound is a constant of the run's configuration, or is named as a bound beside
its declaration. TLC explores each run exhaustively.

| run | shows | bounds |
|---|---|---|
| `circular_buffer` | the regions stay apart; a send in flight is undisturbed; no space is reported only past half full; frames are whole; the buffer implements `ByteFifo` | block of 6, 2 byte values, chunks up to 3 |
| `epoll_socket` | between bursts the lock and the mask say exactly whether bytes wait; bytes go on being sent unless a send ends at the end of region A; input is read once sending rests, if one `recv` takes it | 2 threads and a handler, block of 5, kernel queue of 2, 2 bytes of input |
| `epoll_stall` (violation) | a send takes all of region A, bytes are left in region B, and nothing happens any more | 1 thread, a handler |
| `socket_lifecycle` | the table and the epoll set agree up to the steps of `AddSocket` and `RemoveSocket`; one `OnDisconnect`; no foreign close; every socket is freed; resets are noticed | 1 accepted and 1 dialled connection on one number, 1 thread, the worker, `CloseAll` |
| `packet_queue` | nothing lost or doubled while connected; order within each way out; the queue runs empty unless the worker stalls | 2 senders with 2 packets of 1 or 2 units, room for 3 |
| `pool` | no dangling pointer; no thread with two tasks; the reserve is backed; tasks run; `Shutdown` ends | 3 threads, 2 tasks, reserve of 1, 2 integrity checks, `Shutdown` |
| `session_queue` | no deleted session is reachable; no dead socket in the queue; the account finds the session in the loop; the worker comes back from every call; orphans are deleted | 2 sockets, 2 accounts of which one is a GM, player limit 1 or 2 |
| `database` | one user for each connection; whole transactions; what was queued is stored or refused; callers get connections; `EndThreads` ends | 2 connections, a caller, the main thread, the two threads; 1 statement, 1 transaction of 2; 1 trouble: a statement refused, or a connection or a transaction lost |
| `events` | references are exact; one home; none is left behind; a one-shot event runs once; no callback of a destroyed object; a bad pointer only by an overlap; events run | 1 map and the world, 2 events of which one deletes its object, times up to 2, 2 moves or changes of timers |
| `map_sessions` | one updater; no session lost; a deleted one is reached by nobody; insert pools hold live players; the thread of the map removes; orphans are deleted | 2 maps and the world, 2 packets waiting |
| `map_sessions_moved` (violation) | a player is deleted while a thread moves it | as above |
| `logon_link` | no orphaned link; a realm online is held by a socket; no other socket takes it offline; the link is made at last | 2 connections, 3 troubles or population reports |

Why these are enough to meet the cases that matter:

- A block of 6 with chunks of up to 3 opens region B, closes it, makes it larger than
  what is left of A, and fills both; 2 byte values tell an order from its reversal.
- In `epoll_socket` the kernel's queue is shorter than the block, so sends are cut
  short; the block is long enough for a frame to open region B; two threads and a
  handler are the least for one to be between another's test and its post while the
  worker is between its own.
- One descriptor number for two connections makes every reuse happen; a second thread
  and `CloseAll` beside the worker are the least for three to meet in one `Delete`. The run
  reaches a number that is watched while its socket was taken out of the table between the
  two writes of `AddSocket`. A late `epoll_ctl` that meets another's number comes about
  with one number only beside `CloseAll`; the theorem covers any number of them.
- `Room` 3 with packets of 1 and 2 lets a short packet overtake a long one.
- With 3 threads and a reserve of 1 the pool starts, reuses, kills and counts; two
  integrity checks let a kill meet an exit that is not over.
- 2 sockets on 2 accounts make a kick, a duplicate in the queue and an admission
  overlap; limit 1 fills the server, limit 2 gives the hypothesis of `FoundByAccount`.
- In `database` the query thread keeps a connection while it lives, so of 2
  connections one is what all the others fight for; `Size` 2 is the least transaction
  that can be cut. One statement is enough there because what it can meet is the
  pause, the end and the transaction, and not another statement. One trouble meets each
  statement of the transaction, and the lone one; the theorem has no bound.
- In `events` two threads are the least for one to move what the other runs; two events
  let a callback act on another event than its own; `MaxOps` bounds the moves into the
  world and the changes of timers, and 2 of them let an object leave and come back while
  its old entries are still in a list. `QueuedAdds` is `FALSE`: see the hypotheses.
- In `map_sessions` two maps are the least for a player to be sent on before it was
  pushed; a second packet meets what the first one did.
- In `logon_link` 2 connections are a link and the one it replaces, 3 troubles are the
  least for a link to be given up, its successor to be late and one of them to be cut.

`CHECK_DEADLOCK` is off where the system may stop: peers need not send, tasks and
logins are bounded, and a fault ends the model.

### Consistent

Each module's `Consistent` is the conjunction of its type invariant and of the invariants
that say that the module's books agree with one another. The parts have names of their
own, a comment each, and a mistake each that only that part notices:

| module | parts besides `TypeOK` |
|---|---|
| `CircularBuffer` (`BufferSound`) | `Regions`, `FullOnlyPastHalf` |
| `EpollSocket` | `LockExact` |
| `SocketLifecycle` | `TableExact`, `ToldOnce` |
| `PacketQueue` | `NothingLost` |
| `ThreadPool` (`PoolSound`) | `NoDangling`, `EatenBacked` |
| `SessionAdmission` | `ReachableLive`, `QueueConnected` |
| `Database` | `WholeBuffers`, `SavedAtEnd` |
| `Events` | `RefExact`, `FaultOnlyByOverlap` |
| `MapSessions` | `PoolLive`, `RemovedByItsMap` |
| `LogonLink` | `NoOrphan` |

### Properties that have a hypothesis

Where the code breaks a promise in one situation, the promise is checked outside that
situation, which is then named in the property: `SendingUnlessSplit` (the stall of
`epoll_stall`), `InputReadWhenQuiet` (sending rests, one `recv` takes the input),
`TableExact` (nobody calls `CloseAll`; `AddSocket` and `RemoveSocket` are through with the
number), the second part of `Reaped` (no late `epoll_ctl` meets the number of another,
`Stray`), `NothingLost` (connected), `Flushed` (connected, and the worker does not stall),
`Exclusive`, `EatenBacked` and `TaskRunsUnkilled` (no thread has been told to exit),
`ShutdownEndsWhenCounted` (every live thread is counted when `Shutdown` looks),
`FoundByAccount` (room for every account), `WholeBuffers`, `SavedAtEnd` and `StoredWhileRunning` (but for the statements that the
server refused, and for what was being sent when a connection or a transaction was lost:
`refused`, `hurt`), the second part of
`NobodyStuck` (the execute thread had begun when it was told to stop), `StoredWhileRunning` (also `EndThreads` not called), `WorkerReturns`
and `SessionAdmission`'s `OrphanDeleted` (no fault), `PoolLive`, `RemovedByItsMap` and
`MapSessions`' `OrphanDeleted` (no thread overtaken, and no player whose `m_beingPushed`
nobody resets), `OneShotOnce` (not moved or removed by its own callback),
`NoGhostCalls` (destroyed by the thread of its last holder), `OnlineHeld` (no packet
handled on a socket that is being timed out), `RestartedOnlineInOrder` (registrations in
the order of the links). The runs reach both sides of each hypothesis.

`Events` has one more, as a constant: with `QueuedAdds = FALSE` nobody adds an event to an
object that waits to be pushed and has had no holder. The code then takes the holder of the
map the object is going to; if the object is taken out before the push and put in another
map, the event is left behind, and `NoneLeftBehind` does not hold with `TRUE`.

## Fairness

A thread that can take a step takes it in the end: weak fairness of each thread's
steps, since the operating system schedules them. Nobody is obliged to send, connect,
log in, query, disconnect or shut down, so these actions have none. Strong fairness is
used where a thread waits for something that comes and goes:

- `WriteCallback` in `PacketQueue` is taken only for a worker that has not stalled: it is
  disabled while `stalled`, so its fairness promises nothing there.
- `WriteCallback` in `EpollSocket`, `QueuePacket` in `PacketQueue` and the worker in
  `SessionAdmission` wait for a mutex that others take again and again. A mutex does
  not promise turns; that it gives everybody one in the end is an assumption.
- `StartSessions` and `Expire` in `SessionAdmission`: the world thread runs its loop
  for ever, and a delay passes.
- In `Database`, `GetFreeConnection` spins over `AttemptAcquire`. That a spinning thread
  finds the connection free in the end, while others take it too, is an assumption on
  scheduling, stronger than for a mutex. `PopQuery` and `PopBuffer` have it too, as
  `EndThreads` takes from the queues what they wait for. `MainStep` has weak fairness
  only: its two loops may go on as long as items come, which is why
  the second part of `NobodyStuck` starts from the order to terminate.

- In `MapSessions` every thread's `Step` is weakly fair; `AddGlobalSession` waits for
  `SessionsMutex`, which the world thread takes again and again, and `PushObject` for the
  map to come round its loop, so both are strongly fair; the logout delay passes.
- In `Events` a holder is updated for ever, the second half of an addition follows, and
  a map pushes what waits. What a callback or another thread does to the object is free.
- In `LogonLink` the four threads go on, what is sent arrives, and silence is noticed.
  `ConnectionDropped` is strongly fair: it waits for `mapLock`, and the watcher pauses
  for five seconds between two passes that take it. With weak fairness only, `LinkMade`
  fails: the watcher dials for ever while the worker waits. Troubles are never fair, and
  bounded, so "at last" means after the last of them.

The peer takes what it is sent (`PeerTakes`): without it no send could end.

## Proofs

`SocketBufferProofs` (of `CircularBuffer` and `EpollSocket`, which share the buffer's
operators), `PacketQueueProofs`, `SocketLifecycleProofs`, `ThreadsProofs` (of `ThreadPool`
and `Database`), `SessionAdmissionProofs`, `MapSessionsProofs`, `LogonLinkProofs` and
`EventsProofs` hold the theorems. The assumptions are those the modules name with
`ASSUME`: sizes are positive, the accounts and the maps are finitely many, the process
names differ, what stands for "nobody" is nobody. TLC evaluates them in every run.

| theorem | says |
|---|---|
| `SocketBufferProofs!TypeCorrect`, `RegionsApart`, and with `HalfFull` `BufferConsistent` | the fields keep their types, the regions do not overlap or leave the block, for every size and set of bytes |
| `HalfFull` | no space is reported only past half full |
| `FrameAtomic` | a header that fits together with its body never goes without it |
| `SendStable` | the bytes of a send in flight stay in place |
| `Refinement` | `CircularBuffer` implements `ByteFifo` |
| `SocketBufferProofs!SocketTypeCorrect`, `SendLockExact`, together `SocketConsistent` | type and `LockExact` for any number of senders that test for room |
| `PacketQueueProofs!PacketsConsistent` | `Consistent`: the buffer is never overfilled and a packet of a connected socket is in exactly one place, for any number of senders and any sizes |
| `PacketQueueProofs!WaysInOrder` | `OrderWithinWay` for any number of senders |
| `ThreadsProofs!PoolConsistent`, `OneTask` | `PoolSound` and `Exclusive` for any number of threads and tasks, and for any reserve |
| `SessionAdmissionProofs!AccountsFindTheirs` | `FoundByAccount` for any number of sockets and accounts |
| `SessionAdmissionProofs!AdmissionConsistent` | `Consistent`: no session in reach is deleted, nobody waits twice or after `Disconnect`, for any number of sockets and accounts and any player limit |
| `MapSessionsProofs!SpecOwner` | only the thread `instanceId` names updates a session, or one that has handed it over, for any number of maps |
| `MapSessionsProofs!SpecNeverLost`, `SpecDeletedByOwner` | a live session that nobody hands over is where `instanceId` says; a deleted one is reached only by threads that have still to compare |
| `MapSessionsProofs!SpecConsistent` | insert pools hold live players of their map, and removals are run by the player's map, unless a moving thread was overtaken |
| `LogonLinkProofs!LinkConsistent`, `RealmHeld` | `Consistent` (with `NoOrphan`) and `OnlineHeld` for any number of connections and troubles |
| `LogonLinkProofs!RestartStaysOnline` | `RestartedOnlineInOrder`: the end of an old socket does not take offline the realm that the world's link has registered again |
| `SocketLifecycleProofs!LifeConsistent` | `OnDisconnect` comes once, and until `CloseAll` the table and the epoll set agree up to the steps of `AddSocket` and `RemoveSocket`, for any number of sockets, threads and descriptors |
| `SocketLifecycleProofs!DescriptorsOwn` | a descriptor is closed only by the socket it belongs to, however many threads delete |
| `ThreadsProofs!ConnectionSafe` | no two threads use one connection, for any number of connections, callers, statements and troubles |
| `ThreadsProofs!DatabaseConsistent` | but for the statements refused and the buffers hurt by a loss, buffers are stored whole or not at all, and what was queued before `EndThreads` has been sent when it may return, for any number of connections, callers, statements and troubles |
| `EventsProofs!EventsConsistent` | `Consistent`: an event is referred to as often as it is counted, and a bad pointer is used only after an overlap, for any number of events and maps |
| `EventsProofs!EventsOneHome`, `StartedOnce`, `NoGhosts` | `OneHome`, `OneShotOnce` and `NoGhostCalls` for any number of events and maps |
| `EventsProofs!NotLeftBehind` | `NoneLeftBehind` with `QueuedAdds = FALSE`, for any number of events and maps |

**CircularBuffer.** `Inv == BufferTypeOK /\ Regions /\ SendInFront`. `Regions` alone is
inductive for the pointers; `SendIntact` is not, since it says nothing of where the
bytes come from. `SendInFront` says that what is in flight is the beginning of region A,
and then a write, which touches only what is free, cannot disturb it. The lemmas at the
top of `SocketBufferProofs` say of each method what it does to the regions and to the content;
the refinement follows from the latter, one step of `CircularBuffer` for one of
`ByteFifo`.

**EpollSocket.** `LockExact` speaks of the moments when nobody is in a burst. `LockInv`
extends it into the burst: a sender past `Room` may rely on space for its frame; one
that has written knows that bytes wait; and if the lock was taken before it came, the
mask is already `EPOLLOUT`. The worker outside the mutex knows that bytes it has seen
are still there, because only the worker removes them. The hypothesis
`Checked = Sender` is needed: a sender that does not test for room may end its burst
without having written what it pushes for.

**PacketQueue.** The invariant is about one sequence, `All`: what was sent, then the
buffer, then the queue. A packet enters it at the end of the buffer or at the end of the
queue, and the flush and the worker move the border between the parts and nothing else.
So order (`InOrder`) has to be kept within each way only where packets enter: what is
entered in the middle is ahead of packets that waited, and it did not. `NothingLost`
needs `Known` (nothing is there that was not sent), `Hands` (a packet in the hand of its
sender is its last, and nowhere else) and `NoCopies`. `FlushKill` throws packets away,
and what remains keeps its order; the socket is then closed, so nothing has to be found.
The room a sequence takes is the cardinality of a set of units, not a sum over the
sequence, so that what a packet adds is a fact about disjoint sets.

**Database.** `Inv == Typed /\ ConnectionsOwned`. `ConnectionsOwned` is inductive with a
type for the threads' variables; `Typed` is weaker than `TypeOK`, which also says what
may be in which queue. The lemma `GiveBack` carries the argument: whoever releases a
connection releases its own, so nobody else's is freed; and only a free connection is
taken.

`Consistent` needs more, and uses `ConnectionsOwned`: a statement goes into the
transaction of the connection it is sent over, so one must know that no other thread is
in that transaction. `Transactions` says that an open transaction is exactly the
statements its thread has performed, but for those refused, unless the buffer is hurt, and
that a connection with an open transaction has such a thread; then what a commit stores is
the whole buffer without what was refused, and a lone statement, sent by a thread in no
transaction, is stored or refused at once. `Clean` says that the server has seen nothing of
a buffer that is still to be performed, and has refused nothing of one that was not sent
yet; with it, a statement that is refused after a commit is never one of the buffer
committed. `Single` says that a buffer is in one place, so that two threads do not perform
the same.
`Hands` says what each label's item is. For `SavedAtEnd`, `Phases` says how far
`EndThreads` is when the execute thread may leave its loop, and `Kept` where a statement
is that was queued before: answered, hurt, in the queue, in the hands of the execute thread, or in
those of the thread in `EndThreads` that is about to put it back. The queue and the
last are out once the execute thread has found the queue empty after the order to stop.

**SocketLifecycle.** The invariant follows a socket's two tokens. `Removes` and
`Connection`: of a socket that had a peer either `connected` is still set, or one
process, which took it, is on its way through `Disconnect`, or `OnDisconnect` has been
called; hence once. `Deletes`: one process is in the second half of `Delete`, and it is
the one that set `deleted`, so the descriptor is closed once. `Owns` and `Owned` tie the
descriptor to it: a live object's descriptor is the kernel's for it from its making to that
`CloseSocket`, so the kernel cannot have given it out again before. `Starting`: a socket
that is not in the table yet is known to its maker only. `Ordered`: until `CloseAll`
whoever deletes a socket has disconnected it first; `TableExact` fails after `CloseAll`
since `Delete` then goes ahead of the disconnection. `TableExact` itself comes from three
parts. `Exact`: an entry's number is the entry's, and watched unless its own `AddEvent` is
still to come; `RemoveEvent` keeps this, since until `CloseAll` the number it takes out of
the set is still that of a socket which is being disconnected. `Watched`: a number that is
watched is open. `Entered`: a connected socket is in the table or its `AddSocket` is about
to enter it; so a number that is watched without an entry is no connected socket's,
whoever's late `AddEvent` it was.

**ThreadPool.** `NoDangling` alone is not inductive: a thread that goes leaves the free
pool only if it was told to exit (`DeleteAfterExit`), so one must know that no other thread
of the free pool comes to its exit. `Tokens` says so: until `Shutdown` a thread that was
not told to exit has a token on its semaphore exactly while it is to wake for a task, so it
sleeps as long as it is in the free pool. After `Shutdown` `Condemned` takes its place:
whoever enters the free pool then was told, or no exit is left. `EatenBacked` needs that
the sets are finite, which holds because threads enter them one by one.

**SessionAdmission.** `AccountsFindTheirs` is about a server with room for every
account, as `FoundByAccount` is: then the queue stays empty, since an account that is
let in was free, so fewer sessions than accounts are there (`OneMore`). `Arrival` says that
from the moment `FindSession` finds nobody until `AddSession` the account stays free, as
only the worker gives accounts away; `Books` adds that a session which was taken out of
the loop keeps its account until `DeleteSessions` erases it, so that this erases nobody
else's.

`AdmissionConsistent` is about every player limit. `Stages`: a session waits in the
queue, then is in the loop, then is doomed, and is nowhere twice; while it is between two
of them it is in the hands of one thread only, which takes it under `queueMutex`.
`Waiting`: who waits has `mQueued` set, or its own thread is about to set it; who is
disconnected and waits has a thread on its way to take it out; the world thread is
never that thread's rival, as it disconnects only sessions of its loop. The lemmas `TailQueue`, `AppendQueue` and `EraseQueue` say what the queue's operations
keep. For `ReachableLive` one must know that nobody comes back to a session between its
last update and its deletion: `Leaving` says that a disconnected socket which still has its
session is about to let go of it, and that if the session has let go first (`ForgetSocket`)
it is the worker who is about to, and the logout delay is not over; so at the deletion
`mSession` is NULL. That rests on the delay outlasting what the worker was doing
(`Expire`). `Together`: a fault stops both threads.

**MapSessions.** The invariant speaks of where a thread is by the top of its stack of
procedures and its base, to which it returns last; `Shape` says which go together, and
the lemmas before it what a call and a return do to them. `OneContext` extends `Owner` to
every moment a thread is engaged with the session, and `HandedOver` says where a thread
can be that has handed it over. Both hold whatever else goes wrong. What `Consistent` says
is true only until a thread that moves the player is overtaken, and so is the rest of the
invariant (`CalmInv`): a player that has a map is in the cells or the insert pool of the
one that `instanceId` names, a thread in `RemoveFromWorld` has the player's map
(`AtHome`), and between the parts of the hand-over the session is in one thread's hands
(`Leaving`, `Away`, `Taken`). `NeverLost` is inductive with these. A by-product:
the comparison of the ids that `Update` repeats at the logout timer never differs while
the session lives, since nobody hands it over between the one after the packets and it.

**LogonLink.** Four arguments. For `NoOrphan`: `Drop` says that while the worker is on its
way to take the entry out, no sound link is the entry; a new one cannot become one, since
it would have to be authenticated and the worker is the one who reads the answers. It needs
`Watch` (the watcher's link is the entry until it is given up). For the type of
`authenticated`: `Handshake` says that the challenge and its answer pass over a connection
once. For `OnlineHeld`: `Realms` says that a socket has no ids but its own, and that its
realm is offline by the time the socket leaves the registry, unless `raced`; `Sockets`
says that a connection which was not accepted yet is unknown to the logon server. For
`RestartedOnlineInOrder`: `Ended` says that a realm which is offline, though its own
socket has it in its ids, is so because that socket was timed out or has ended; so a
registration that came after the last end is online.

**Events.** `Counted` is type and `RefExact`, with `Fits`: the iterators are ahead of no
more entries of an event than the list has, the one `Update` is at included. Without it an
entry could be erased twice, and a count go below what it counts. `More`, `Less` and the
lemma `TotalChange` say what the operations on entries do to the total over all holders; that the totals are finite rests on the maps being finitely many.

`Safe` adds what the other properties need. `Owned`: what is referred to and not deleted is
in `m_events`; so after the destruction only deleted events are left. `InCallback`: an
event that nobody disturbed is run in the thread of the last holder, and the object is
still with that holder or gone. That is the reason for `NoGhostCalls`, and for
`OneShotOnce`: two threads that ran one event would both be that thread's. `Once` says how
far a one-shot event is, between due and deleted. `Given`: as long as nobody came between
the halves of an `event_AddEvent`, its event is in `m_events` and the object has a holder.
All of `Safe` holds whether or not events are added to a queued object.

`Settled` does not: with `QueuedAdds = FALSE` it adds that the holder and the events of
an object in a map are the map's (`AtHome`), and that each event has an entry there or is
in a hand (`Held`). An event may change its holder and keep its old entries, so `Held`
speaks of the current holder only; what is dropped from a list is deleted or not at home,
so `Held` does not need it.

Model-checked and not proved: all liveness, since no prover at hand handles fairness.

## What the code does wrong

Two runs end in a violation, each of a sentence of the sources. `findings` in
`PROJECT.json` quotes them.

1. **A connection stalls** (`epoll_stall`, `SocketMgrLinux.cpp:166`). After a send that
   took all of region A, the worker keeps waiting for `EPOLLOUT`. The kernel had room, so
   it owes no edge; the bytes of region B stay, and the send lock stays held, so later
   senders ask for nothing.
2. **A player is deleted while it is being moved** (`map_sessions_moved`,
   `WorldSession.cpp:225`). `m_beingPushed` is meant to prevent it, but the push in the
   map's thread resets it while the thread that called `AddToWorld` is still in it, and
   `RemoveFromWorld` and `LogoutPlayer` do not set it.

The models contain, and the hypotheses of the properties exclude, more of what the code
does, none of which a document denies:

- `ThreadPool`: `KillFreeThreads` leaves the victims in the free pool, where
  `ExecuteTask` may give one a task that it never runs. `Shutdown` waits for ever for a
  thread that had been started and was in neither set when it counted.
- `SessionAdmission`: `FindSession` does not look in the login queue
  (`WorldSocket.cpp:322`), so with a full server two logins of one account are both let
  in. The worker clears `mSession` between the world thread's test of a
  queued socket and its later uses (`fault = "null"`); a session found by `FindSession`
  may be deleted before it is kicked (`fault = "freed"`). A session whose socket drops
  while it waits in the queue is in no list and is never deleted.
- `PacketQueue`: behind a connection that stalls (1) the queue stays as it is. A flush that finds the socket closed compares where it should assign
  (`WorldSocket.cpp:163`) and leaves packets in the queue.
- `SocketLifecycle`: `AddSocket` and `RemoveSocket` write the table and the epoll set with
  no lock (`SocketMgrLinux.cpp:48`, `:58`, `:86`, `:95`). A worker that still has an event
  of the number's earlier owner finds a dialled socket in the table and may disconnect it
  before it is in the set; the number is then watched without an entry until it is closed,
  and an `epoll_ctl` that comes later still is for the number's next owner, which may lose
  an edge by it, and so its reset. One `recv` for one edge reads the data and not the FIN that came with
  it (`SocketLinux.cpp:35`), so the end of that connection is never noticed. `OnAccept` takes one connection for one edge; a post to a socket that
  another thread disconnects may reach the next owner of the number. After `CloseAll` the
  table has, for a while, an entry for a number that is no longer the socket's.
- `Events`: an event added while its object waits for its first push may be left behind
  (see the hypotheses above); `event_AddEvent` uses `m_holder` and the event after it has
  released the lock (`EventableObject.cpp:96`); an object that another thread than its last
  holder's destroys may have a callback running.
- `MapSessions`: a player that is taken out of an insert pool keeps `m_beingPushed`, and if
  its socket has gone its session is never deleted.
- `LogonLink`: a registration sent on a link that the world has given up, and handled
  after its successor's, takes the realm's name to the old socket; when that ends the
  realm goes offline though the world is linked (`RealmSocket.cpp:182`). A packet handled
  on a socket that `TimeoutSockets` is timing out leaves a realm online that nobody sets
  offline. With pings disabled a dead entry stays in `logons` for ever. A request that
  `ClientConnected` sends on a dead link is never answered (not in the model).
- `Database`: `Execute` and `AddQueryBuffer` test a flag and push later: what they push
  after the threads' last pop is never stored (`Database.cpp:194`). A lost connection cuts a transaction in two (`MySQLDatabase.cpp:148`). So does a
  deadlock, after which the server has no transaction and the rest is executed outside one.
  A statement that is refused while the connection stays is only logged
  (`MySQLDatabase.cpp:156`): a queued one is gone, and `PerformQueryBuffer` ignores the
  result (`Database.cpp:167`) and commits the buffer without it.
  `run` writes `THREADSTATE_BUSY` over an order to terminate that came before it started.
  `EndThreads` takes items out of turn and puts them back behind later ones, and does
  not wait for the query thread. With a `ConnectionCount` of 1 the query thread has the
  only connection, and nobody else gets one. Seen beside these, and not part of the
  model: the result of a statement that is sent again (`MySQLDatabase.cpp:153`) has its
  sense inverted, and `mPort` is never set before a reconnection.

## Not modelled

- The Windows and FreeBSD builds of the sockets, but for the overlapped send.
- The contents of packets, queries and accounts; formatting, logging, configuration.
- Packets that a session handles on arrival, and what players do in the world.
- The end of a map with sessions on it, a player that is queued into a map that ends, and
  players that the threads of other players move.
- More than one realm of a world server, several logon servers, the shutdown of either
  server, wrong passwords, the mapping of characters to accounts.
- What queries return, escaping, and the start of the connections.
- Requests for accounts over the logon link, the authentication of clients,
  `AtomicULong`: plan.
- More than one eventable object: events of different objects meet only in the lists, where
  one does not look at another.
- Game systems: hundreds of thousands of lines of rules that run in one thread per map.
  Their state is too wide for model checking, and their interest is in their content.
- DBC files, SQL storage, cryptography, utilities: sequential readers and arithmetic.
- Commands, consoles, script plugins and the extraction tools.

## Running it

```
tlc -workers 2 -config MCEpollSocket.cfg MCEpollSocket     # a run
tlapm ThreadsProofs.tla                                     # a proof
```

`PROJECT.json` names the module and configuration of each run. Runs whose constants are
names and numbers use the specification itself as the module; the others have an `MC`
module that defines the values.
