----------------------------- MODULE EpollSocket -----------------------------
(***************************************************************************)
(* One connected socket of the epoll network layer: the threads that send  *)
(* on it (Socket.h, _OutPacket of WorldSocket, SendPacket of LogonSocket), *)
(* the one SocketWorkerThread (SocketMgrLinux.cpp, SocketLinux.cpp), and   *)
(* the kernel's edge-triggered readiness.  The send lock says that a write *)
(* event has been asked for; the epoll mask holds either EPOLLIN or        *)
(* EPOLLOUT, never both.  Connecting and closing are in SocketLifecycle.   *)
(***************************************************************************)
EXTENDS BipBuffer, FiniteSets

CONSTANTS Sender,      \* the activities that send
          Handler,     \* those the worker runs itself, in OnRead: one frame each time
          Checked,     \* those that look for room before they write (WorldSocket)
          Worker,      \* the SocketWorkerThread
          Free,        \* nobody holds m_writeMutex
          Frame,       \* the frames: [head, body], in bytes
          KernelSize,  \* the bytes the kernel's send queue takes
          ReadSize,    \* the bytes a recv can take: the room in the read buffer
          InputMax     \* bound: the bytes the peer has under way

ASSUME SenderAssumption == /\ Checked \subseteq Sender /\ Handler \subseteq Sender
                           /\ Worker \notin Sender
                           /\ Free \notin Sender \cup {Worker}
ASSUME FrameAssumption == Frame \subseteq [head : Nat \ {0}, body : Nat]
ASSUME ByteAssumption == Byte # {}
ASSUME KernelAssumption == /\ KernelSize \in Nat \ {0}
                           /\ ReadSize \in Nat \ {0} /\ InputMax \in Nat \ {0}

VARIABLES wbuf,        \* writeBuffer
          mutex,       \* who holds m_writeMutex
          lock,        \* m_writeLock
          spc,         \* where each sender is
          frame,       \* the frame each sender is at
          wpc,         \* where the worker is
          mask,        \* the events the descriptor is registered for
          ready,       \* the descriptor is on epoll's ready list
          kqueue,      \* the bytes in the kernel's send queue
          nospace,     \* SOCK_NOSPACE: the kernel owes a write event
          input        \* the received bytes that wait in the kernel

kernel == <<mask, ready, kqueue, nospace, input>>
vars == <<wbuf, mutex, lock, spc, frame, wpc, kernel>>

SenderPC == {"idle", "room", "header", "body", "acquire", "post", "end"}
WorkerPC == {"wait", "read", "onread", "reply", "lock", "switch", "out", "sent"}

Init ==
    /\ \E junk \in [Offset -> Byte] : wbuf = Allocated(junk)
    /\ mutex = Free
    /\ lock = 0
    /\ spc = [s \in Sender |-> "idle"]
    /\ frame \in [Sender -> Frame]
    /\ wpc = "wait"
    /\ mask = "IN"          \* AddSocket, with an empty write buffer
    /\ ready = FALSE
    /\ kqueue = 0
    /\ nospace = FALSE
    /\ input = 0

Goto(s, label) == spc' = [spc EXCEPT ![s] = label]

-----------------------------------------------------------------------------
\* The kernel

Readable == input > 0
Writable == kqueue < KernelSize

\* What epoll sees when it polls the descriptor for the events of a mask;
\* asking in vain for room makes the kernel owe an event.
Polled(m) == IF m = "IN" THEN Readable ELSE Writable
Owes(m) == nospace \/ (m = "OUT" /\ ~Writable)

\* A plausible mistake: EPOLL_CTL_MOD taken to report only what comes after it.
PostEventUnpolled(m) ==
    /\ mask' = m
    /\ UNCHANGED <<ready, nospace, kqueue, input>>

\* PostEvent: EPOLL_CTL_MOD with EPOLLET replaces the mask, and puts the
\* descriptor on the ready list when it is ready for the new one.
PostEvent(m) ==
    /\ mask' = m
    /\ ready' = (ready \/ Polled(m))
    /\ nospace' = Owes(m)
    /\ UNCHANGED <<kqueue, input>>

\* The peer takes a byte; the kernel tells epoll only when it owes an event.
PeerTakes ==
    /\ kqueue > 0
    /\ kqueue' = kqueue - 1
    /\ ready' = (ready \/ (nospace /\ mask = "OUT"))
    /\ nospace' = FALSE
    /\ UNCHANGED <<wbuf, mutex, lock, spc, frame, wpc, mask, input>>

\* n bytes arrive from the peer: an edge when the mask has EPOLLIN.
PeerSends(n) ==
    /\ input + n <= InputMax
    /\ input' = input + n
    /\ ready' = (ready \/ mask = "IN")
    /\ UNCHANGED <<wbuf, mutex, lock, spc, frame, wpc, mask, kqueue, nospace>>

-----------------------------------------------------------------------------
\* A sending thread: BurstBegin, BurstSend twice, BurstPush, BurstEnd

Begin(s) ==
    /\ spc[s] = "idle"
    /\ IF s \in Handler THEN wpc = "onread" /\ wpc' = "reply" ELSE UNCHANGED wpc
    /\ mutex = Free
    /\ mutex' = s
    /\ frame' \in {[frame EXCEPT ![s] = f] : f \in Frame}
    /\ Goto(s, IF s \in Checked THEN "room" ELSE "header")
    /\ UNCHANGED <<wbuf, lock, kernel>>

Room(s) ==
    /\ spc[s] = "room"
    /\ wbuf' = Settle(wbuf)
    /\ Goto(s, IF GetSpace(wbuf) < frame[s].head + frame[s].body THEN "end" ELSE "header")
    /\ UNCHANGED <<mutex, lock, frame, wpc, kernel>>

\* A string of n bytes whose values do not matter.
AnyBytes(n) == CHOOSE c \in [1 .. n -> Byte] : TRUE

Header(s) ==
    /\ spc[s] = "header"
    /\ wbuf' = Write(wbuf, AnyBytes(frame[s].head))
    /\ Goto(s, IF ~CanWrite(wbuf, frame[s].head) THEN "end"
               ELSE IF frame[s].body > 0 THEN "body" ELSE "acquire")
    /\ UNCHANGED <<mutex, lock, frame, wpc, kernel>>

Body(s) ==
    /\ spc[s] = "body"
    /\ wbuf' = Write(wbuf, AnyBytes(frame[s].body))
    /\ Goto(s, IF CanWrite(wbuf, frame[s].body) THEN "acquire" ELSE "end")
    /\ UNCHANGED <<mutex, lock, frame, wpc, kernel>>

\* BurstPush: AcquireSendLock sets the lock to 1 and looks at what it was.
Acquire(s) ==
    /\ spc[s] = "acquire"
    /\ lock' = 1
    /\ Goto(s, IF lock = 0 THEN "post" ELSE "end")
    /\ UNCHANGED <<wbuf, mutex, frame, wpc, kernel>>

Post(s) ==
    /\ spc[s] = "post"
    /\ PostEvent("OUT")
    /\ Goto(s, "end")
    /\ UNCHANGED <<wbuf, mutex, lock, frame, wpc>>

End(s) ==
    /\ spc[s] = "end"
    /\ mutex' = Free
    /\ Goto(s, "idle")
    /\ UNCHANGED <<wbuf, lock, frame, wpc, kernel>>

SenderStep(s) == Room(s) \/ Header(s) \/ Body(s) \/ Acquire(s) \/ Post(s) \/ End(s)

-----------------------------------------------------------------------------
\* SocketWorkerThread::run

\* epoll_wait: the descriptor leaves the ready list, and is reported when it
\* is still ready for the mask.
Wait ==
    /\ wpc = "wait"
    /\ ready
    /\ ready' = FALSE
    /\ nospace' = Owes(mask)
    /\ wpc' = IF ~Polled(mask) THEN "wait" ELSE IF mask = "IN" THEN "read" ELSE "out"
    /\ UNCHANGED <<wbuf, mutex, lock, spc, frame, mask, kqueue, input>>

\* ReadCallback: one recv of what there is room for.
ReadCallback ==
    /\ wpc = "read"
    /\ input' = IF input <= ReadSize THEN 0 ELSE input - ReadSize
    /\ wpc' = "onread"
    /\ UNCHANGED <<wbuf, mutex, lock, spc, frame, mask, ready, kqueue, nospace>>

\* OnRead has returned; the write buffer is looked at, without m_writeMutex ...
SizeTest ==
    /\ wpc \in {"onread", "reply"}
    /\ \A s \in Handler : spc[s] = "idle"
    /\ wpc' = IF GetSize(wbuf) > 0 THEN "lock" ELSE "wait"
    /\ UNCHANGED <<wbuf, mutex, lock, spc, frame, kernel>>

\* ... then the send lock (HasSendLock) ...
LockTest ==
    /\ wpc = "lock"
    /\ wpc' = IF lock = 0 THEN "switch" ELSE "wait"
    /\ UNCHANGED <<wbuf, mutex, lock, spc, frame, kernel>>

\* ... and a write event is posted.
Switch ==
    /\ wpc = "switch"
    /\ PostEvent("OUT")
    /\ wpc' = "wait"
    /\ UNCHANGED <<wbuf, mutex, lock, spc, frame>>

\* BurstBegin and WriteCallback: one send of the contiguous bytes at the front.
WriteCallback ==
    LET offered == GetContiguousBytes(wbuf)
        n       == Lesser(offered, KernelSize - kqueue)
    IN  /\ wpc = "out"
        /\ mutex = Free
        /\ mutex' = Worker
        /\ wbuf' = Remove(wbuf, n)
        /\ kqueue' = kqueue + n
        /\ nospace' = (nospace \/ n < offered)
        /\ wpc' = "sent"
        /\ UNCHANGED <<lock, spc, frame, mask, ready, input>>

\* A plausible mistake: the send lock is given up with bytes left.
KeepWritingUnlocked ==
    /\ wpc = "sent"
    /\ GetSize(wbuf) > 0
    /\ lock' = lock - 1
    /\ mutex' = Free
    /\ wpc' = "wait"
    /\ UNCHANGED <<wbuf, spc, frame, kernel>>

\* Bytes are left: "we don't have to do anything here".
KeepWriting ==
    /\ wpc = "sent"
    /\ GetSize(wbuf) > 0
    /\ mutex' = Free
    /\ wpc' = "wait"
    /\ UNCHANGED <<wbuf, lock, spc, frame, kernel>>

\* Plausible mistakes: the send lock is kept, or the event stays a write event.
BackToReadingLocked ==
    /\ wpc = "sent"
    /\ GetSize(wbuf) = 0
    /\ PostEvent("IN")
    /\ mutex' = Free
    /\ wpc' = "wait"
    /\ UNCHANGED <<wbuf, lock, spc, frame>>

StayWriting ==
    /\ wpc = "sent"
    /\ GetSize(wbuf) = 0
    /\ lock' = lock - 1
    /\ mutex' = Free
    /\ wpc' = "wait"
    /\ UNCHANGED <<wbuf, spc, frame, kernel>>

\* All is sent: "change back to a read event".  DecSendLock is a decrement of
\* an unsigned counter: below 0 stands for its wrapping around.
BackToReading ==
    /\ wpc = "sent"
    /\ GetSize(wbuf) = 0
    /\ lock' = lock - 1
    /\ PostEvent("IN")
    /\ mutex' = Free
    /\ wpc' = "wait"
    /\ UNCHANGED <<wbuf, spc, frame>>

WorkerStep ==
    \/ Wait \/ ReadCallback \/ SizeTest \/ LockTest \/ Switch
    \/ WriteCallback \/ KeepWriting \/ BackToReading

Next ==
    \/ \E s \in Sender : Begin(s) \/ SenderStep(s)
    \/ WorkerStep
    \/ PeerTakes
    \/ \E n \in 1 .. InputMax : PeerSends(n)

Spec == Init /\ [][Next]_vars

\* The worker and the threads inside a burst are scheduled, a burst that wants
\* m_writeMutex gets it in turn, and the peer goes on taking what it is sent.
\* Nobody is obliged to send.
Fairness ==
    /\ WF_vars(WorkerStep) /\ SF_vars(WriteCallback)
    /\ \A s \in Sender : WF_vars(SenderStep(s))
    /\ WF_vars(PeerTakes)

FairSpec == Spec /\ Fairness

-----------------------------------------------------------------------------
TypeOK ==
    /\ wbuf \in Buffer
    /\ mutex \in Sender \cup {Worker, Free}
    /\ lock \in {0, 1}
    /\ spc \in [Sender -> SenderPC]
    /\ frame \in [Sender -> Frame]
    /\ wpc \in WorkerPC
    /\ mask \in {"IN", "OUT"}
    /\ ready \in BOOLEAN /\ nospace \in BOOLEAN
    /\ kqueue \in 0 .. KernelSize
    /\ input \in 0 .. InputMax

Pending == GetSize(wbuf) > 0

\* Whenever nobody is inside a burst, the send lock is held, and the descriptor
\* registered for EPOLLOUT, exactly when bytes are queued: no sender leaves
\* bytes behind that nobody has been asked to send, and the socket never stops
\* listening for input without having something to send.
LockExact ==
    mutex = Free => /\ lock = IF Pending THEN 1 ELSE 0
                    /\ mask = IF Pending THEN "OUT" ELSE "IN"

\* "We don't have to do anything here": queued bytes do not stay queued, either
\* they run out or sends go on happening.
Sending == []<>~Pending \/ []<><<WriteCallback>>_vars

\* A send that took all it was offered while bytes are left in region B: the
\* kernel owes no event.
SplitLeft == wpc = "sent" /\ Pending /\ ~nospace

\* Unless such a send happens, sending goes on until the buffer is empty.
SendingUnlessSplit == <>SplitLeft \/ Sending

\* "Called when data is received": received bytes do not stay in the kernel.
InputRead == []<>(input = 0) \/ []<><<ReadCallback>>_vars

\* It is read once sending comes to rest, however the senders and the worker
\* flipped the mask before, if it never exceeds what one recv can take.
InputReadWhenQuiet ==
    <>[]~Pending /\ [](input <= ReadSize) => InputRead

\* The sending side is in order: types, and the lock and the mask that tell
\* exactly whether bytes are queued.
Consistent == TypeOK /\ LockExact
=============================================================================
