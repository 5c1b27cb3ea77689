---------------------------- MODULE PacketQueue ----------------------------
(***************************************************************************)
(* The packets a WorldSocket could not write at once.  Any thread calls    *)
(* OutPacket; a packet for which the write buffer has no room is put in    *)
(* _queue, and WorldSession::Update has it sent later (SendQueuedPackets). *)
(* The write buffer is a sequence of packets here, of at most Room units;  *)
(* BipBuffer and EpollSocket have its bytes.                               *)
(***************************************************************************)
EXTENDS Naturals, FiniteSets, Sequences

CONSTANTS Sender,      \* the threads that call OutPacket
          Updater,     \* the thread that updates the session
          Free,        \* nobody holds queueLock
          Room,        \* what the write buffer holds, in units
          PacketSize,  \* the sizes of packets, in units
          MaxSent      \* bound: the packets each sender sends

ASSUME SenderAssumption == Updater \notin Sender /\ Free \notin Sender \cup {Updater}
ASSUME SizeAssumption == /\ Room \in Nat \ {0} /\ MaxSent \in Nat
                         /\ PacketSize \subseteq 1 .. Room

VARIABLES buffer,      \* the packets in writeBuffer
          wire,        \* the packets the worker has sent
          queue,       \* _queue
          lock,        \* who holds queueLock
          connected,   \* m_connected
          stalled,     \* the worker waits for an edge that does not come
          pc,          \* where each thread is
          hand,        \* the packets a sender found no room for, at most one
          sent         \* how many packets each sender has sent

vars == <<buffer, wire, queue, lock, connected, stalled, pc, hand, sent>>

\* The n-th packet of a sender; waited says that it went through the queue.
Packet == [from : Sender, n : 1 .. MaxSent, size : PacketSize, waited : BOOLEAN]

Init ==
    /\ buffer = <<>> /\ wire = <<>> /\ queue = <<>>
    /\ lock = Free
    /\ connected = TRUE /\ stalled = FALSE
    /\ pc = [t \in Sender \cup {Updater} |-> "idle"]
    /\ hand = [s \in Sender |-> <<>>]
    /\ sent = [s \in Sender |-> 0]

\* The room that packets take: the units of each, counted together.
UnitsOf(packets) == {u \in (DOMAIN packets) \X (1 .. Room) : u[2] <= packets[u[1]].size}
Units(packets) == Cardinality(UnitsOf(packets))

\* _OutPacket writes header and body when there is room for both.
Fits(p) == Units(buffer) + p.size <= Room

-----------------------------------------------------------------------------
\* WorldSocket::OutPacket

\* The packet is dropped, written, or kept for the queue.
OutPacket(s, p) ==
    /\ pc[s] = "idle"
    /\ sent[s] < MaxSent
    /\ p.from = s /\ p.n = sent[s] + 1 /\ ~p.waited
    /\ sent' = [sent EXCEPT ![s] = @ + 1]
    /\ \/ ~connected /\ UNCHANGED <<buffer, pc, hand>>
       \/ /\ connected /\ Fits(p)
          /\ buffer' = Append(buffer, p)
          /\ UNCHANGED <<pc, hand>>
       \/ /\ connected /\ ~Fits(p)
          /\ hand' = [hand EXCEPT ![s] = <<p>>]
          /\ pc' = [pc EXCEPT ![s] = "queue"]
          /\ UNCHANGED buffer
    /\ UNCHANGED <<wire, queue, lock, connected, stalled>>

\* A plausible mistake: the newest packet goes to the front.
QueuePacketFirst(s) ==
    /\ pc[s] = "queue"
    /\ lock = Free
    /\ queue' = <<[hand[s][1] EXCEPT !.waited = TRUE]>> \o queue
    /\ hand' = [hand EXCEPT ![s] = <<>>]
    /\ pc' = [pc EXCEPT ![s] = "idle"]
    /\ UNCHANGED <<buffer, wire, lock, connected, stalled, sent>>

QueuePacket(s) ==
    /\ pc[s] = "queue"
    /\ lock = Free
    /\ queue' = Append(queue, [hand[s][1] EXCEPT !.waited = TRUE])
    /\ hand' = [hand EXCEPT ![s] = <<>>]
    /\ pc' = [pc EXCEPT ![s] = "idle"]
    /\ UNCHANGED <<buffer, wire, lock, connected, stalled, sent>>

-----------------------------------------------------------------------------
\* WorldSocket::SendQueuedPackets

StartFlush ==
    /\ pc[Updater] = "idle"
    /\ lock = Free
    /\ queue # <<>>
    /\ lock' = Updater
    /\ pc' = [pc EXCEPT ![Updater] = "flush"]
    /\ UNCHANGED <<buffer, wire, queue, connected, stalled, hand, sent>>

EndFlush ==
    /\ lock' = Free
    /\ pc' = [pc EXCEPT ![Updater] = "idle"]

\* A plausible mistake: the packet is taken out before the write is tried.
FlushPopped ==
    /\ pc[Updater] = "flush" /\ queue # <<>> /\ connected
    /\ queue' = Tail(queue)
    /\ IF Fits(Head(queue)) THEN buffer' = Append(buffer, Head(queue)) ELSE UNCHANGED buffer
    /\ UNCHANGED <<wire, lock, connected, stalled, pc, hand, sent>>

\* A plausible mistake: the packet is written whether there is room or not.
FlushBlind ==
    /\ pc[Updater] = "flush" /\ queue # <<>> /\ connected
    /\ buffer' = Append(buffer, Head(queue))
    /\ queue' = Tail(queue)
    /\ UNCHANGED <<wire, lock, connected, stalled, pc, hand, sent>>

\* "Try to push out as many as you can."
Flush ==
    /\ pc[Updater] = "flush" /\ queue # <<>> /\ connected
    /\ Fits(Head(queue))
    /\ buffer' = Append(buffer, Head(queue))
    /\ queue' = Tail(queue)
    /\ UNCHANGED <<wire, lock, connected, stalled, pc, hand, sent>>

\* A plausible mistake: queueLock is kept on this way out.
FlushFullLocked ==
    /\ pc[Updater] = "flush" /\ queue # <<>> /\ connected
    /\ ~Fits(Head(queue))
    /\ pc' = [pc EXCEPT ![Updater] = "idle"]
    /\ UNCHANGED <<buffer, wire, queue, lock, connected, stalled, hand, sent>>

\* No room: "still connected".
FlushFull ==
    /\ pc[Updater] = "flush" /\ queue # <<>> /\ connected
    /\ ~Fits(Head(queue))
    /\ EndFlush
    /\ UNCHANGED <<buffer, wire, queue, connected, stalled, hand, sent>>

\* Not connected: "kill everything in the buffer".  The loop compares the
\* first packet with what it pops instead of assigning it: it goes on after
\* the first packet and stops at the second, which is popped and not deleted.
FlushKill ==
    /\ pc[Updater] = "flush" /\ queue # <<>> /\ ~connected
    /\ queue' = IF Len(queue) = 1 THEN <<>> ELSE Tail(Tail(queue))
    /\ EndFlush
    /\ UNCHANGED <<buffer, wire, connected, stalled, hand, sent>>

FlushDone ==
    /\ pc[Updater] = "flush" /\ queue = <<>>
    /\ EndFlush
    /\ UNCHANGED <<buffer, wire, queue, connected, stalled, hand, sent>>

UpdaterStep == StartFlush \/ Flush \/ FlushFull \/ FlushKill \/ FlushDone

-----------------------------------------------------------------------------
\* The worker sends from the write buffer, as long as the socket is connected.
\* When bytes are left it waits for an edge; none comes if the send ended with
\* region A and the kernel had room for more (EpollSocket), and the send lock
\* keeps everybody else from asking for one.
WriteCallback ==
    /\ connected /\ ~stalled /\ buffer # <<>>
    /\ wire' = Append(wire, Head(buffer))
    /\ buffer' = Tail(buffer)
    /\ stalled' \in IF Tail(buffer) = <<>> THEN {FALSE} ELSE BOOLEAN
    /\ UNCHANGED <<queue, lock, connected, pc, hand, sent>>

Disconnect ==
    /\ connected
    /\ connected' = FALSE
    /\ UNCHANGED <<buffer, wire, queue, lock, stalled, pc, hand, sent>>

Next ==
    \/ \E s \in Sender : (\E p \in Packet : OutPacket(s, p)) \/ QueuePacket(s)
    \/ UpdaterStep
    \/ WriteCallback
    \/ Disconnect

Spec == Init /\ [][Next]_vars

\* The session is updated for ever, a worker that is not stalled sends, and a
\* thread that waits for queueLock gets it in turn.
FairSpec ==
    /\ Spec
    /\ WF_vars(UpdaterStep) /\ WF_vars(WriteCallback)
    /\ \A s \in Sender : SF_vars(QueuePacket(s))

-----------------------------------------------------------------------------
TypeOK ==
    /\ {buffer, wire, queue} \subseteq Seq(Packet) /\ Units(buffer) <= Room
    /\ lock \in {Updater, Free}
    /\ connected \in BOOLEAN /\ stalled \in BOOLEAN
    /\ pc \in [Sender \cup {Updater} -> {"idle", "queue", "flush"}]
    /\ hand \in [Sender -> Seq(Packet)] /\ \A s \in Sender : Len(hand[s]) <= 1
    /\ sent \in [Sender -> 0 .. MaxSent]

Copies(s, n, packets) == {i \in DOMAIN packets : packets[i].from = s /\ packets[i].n = n}

\* While the socket is connected, every packet handed to OutPacket is in one
\* place: sent, in the buffer, in the queue, or on its way into the queue.
NothingLost ==
    connected =>
      \A s \in Sender, n \in 1 .. MaxSent :
        n <= sent[s] =>
          \E i \in DOMAIN (wire \o buffer \o queue \o hand[s]) :
            Copies(s, n, wire \o buffer \o queue \o hand[s]) = {i}

\* Two packets of a thread that were both written at once, or both queued,
\* leave in the order they were sent, whatever the other threads and the
\* flush do between them.
OrderWithinWay ==
    \A i, j \in DOMAIN wire :
      i < j /\ wire[i].from = wire[j].from /\ wire[i].waited = wire[j].waited
        => wire[i].n < wire[j].n

\* When the senders pause (here: after MaxSent packets each), the socket stays
\* connected and the worker never stalls, the queue runs empty: no packet that
\* found no room is left behind.  Senders that never pause can keep a long
\* packet waiting, because theirs are tried at once.
Flushed == [](connected /\ ~stalled) => []<>(queue = <<>> /\ \A s \in Sender : hand[s] = <<>>)

\* Types, and every packet of a connected socket in exactly one place.
Consistent == TypeOK /\ NothingLost
=============================================================================
